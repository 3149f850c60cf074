-------------------------- MODULE InferenceClient --------------------------
(***************************************************************************)
(* lib/inference/openai: from a model's input and options to the payload   *)
(* that is sent to the inference server, and from its answer to a text.    *)
(***************************************************************************)
EXTENDS ModelAdapters

EndOfTurn == "<end_of_turn>"

\* A model name of the request, or else that of the server's configuration.
ModelName(name, default) == IF name # "" THEN name ELSE default

requiresCompletionBypass(input) ==
    \E i \in DOMAIN input.parts : input.parts[i].sourceCode # "" \/ input.parts[i].targetCode # ""

\* Its other errors are about messages that no model builds.
Renders(input) ==
    /\ input.text = <<>> /\ Len(input.parts) = 1
    /\ input.parts[1].sourceCode # "" /\ input.parts[1].targetCode # ""
    /\ input.parts[1].text # <<>>

renderStructuredCompletionPrompt(input) ==
    LET part == input.parts[1]
    IN <<"<bos><start_of_turn>user", NewLine, "source_lang_code:", part.sourceCode, NewLine,
         "target_lang_code:", part.targetCode, NewLine, "text:">>
           \o part.text \o <<EndOfTurn, NewLine, "<start_of_turn>model", NewLine>>

completionStopSequences(stop) ==
    IF EndOfTurn \in ToSet(stop) THEN stop ELSE Append(stop, EndOfTurn)

\* A message with both a text and parts cannot be marshalled.
Marshals(input) == input.text = <<>> \/ input.parts = <<>>

Encodes(name, input) ==
    /\ name # ""
    /\ IF requiresCompletionBypass(input) THEN Renders(input) ELSE Marshals(input)

RequestPath(input) ==
    IF requiresCompletionBypass(input) THEN "/completions" ELSE "/chat/completions"

EncodeRequest(name, input, options) ==
    LET bypass == requiresCompletionBypass(input)
    IN [path |-> RequestPath(input),
        model |-> name,
        prompt |-> IF bypass THEN renderStructuredCompletionPrompt(input) ELSE input.text,
        parts |-> IF bypass THEN <<>> ELSE input.parts,
        options |-> IF bypass
                    THEN [options EXCEPT !.stop = completionStopSequences(options.stop)]
                    ELSE options]

-----------------------------------------------------------------------------
\* What may come back: no answer, one of more than 4 MiB, an error status, a
\* body that is not one JSON value, one without choices, or a choice.
BadAnswers == {"unreachable", "too_large", "error_status", "malformed", "no_choices"}

Choice(content, text) == [content |-> content, text |-> text]

\* Chat completions have a message, text completions a text.
DecodeResponse(choice) == IF choice.content # <<>> THEN choice.content ELSE choice.text
=============================================================================
