--------------------------- MODULE ModelAdapters ---------------------------
(***************************************************************************)
(* The built-in models: which requests each of them takes, the input it    *)
(* builds from a request, and its generation options.  A translation       *)
(* request is a record; a function of the code that may return an error is *)
(* split into a predicate (is there an error?) and a value.                *)
(***************************************************************************)
EXTENDS MarkdownFences, Languages

HymtModels == {"hymt2-1.8b", "hymt2-7b", "hymt2-30b-a3b"}
GemmaModels == {"translategemma-4b", "translategemma-12b", "translategemma-27b"}

Find(id) == id \in HymtModels \cup GemmaModels

PromptKinds == {"text", "markdown", "json", "yaml", "html_xml", "mixed_code",
                "style_audience", "segmented"}

Kind(request) == IF request.kind = "" THEN "text" ELSE request.kind

\* A glossary is a set of terms, each the text "key => value".  The request
\* names none at all; an empty one says that there are no terms.
NoGlossary == {<<"nil">>}

-----------------------------------------------------------------------------
\* lib/prompt.go: what every model asks of a request.
ValidateTranslationRequest(request) ==
    /\ request.target # NoLanguage /\ Valid(request.target)
    /\ request.sourceLanguage # NoLanguage => Valid(request.sourceLanguage)
    /\ Kind(request) \in PromptKinds
    /\ request.glossary # NoGlossary
    /\ Kind(request) = "style_audience" => request.style # <<>> \/ request.audience # <<>>
    /\ Kind(request) = "segmented" => request.delimiters # <<>>

Section(present, heading, content) ==
    IF present THEN <<(<<>>), <<heading>> \o content>> ELSE <<>>

\* A delimiter in quotes has no line breaks.
Quoted(text) == [i \in DOMAIN text |-> IF text[i] = NewLine THEN "\\n" ELSE text[i]]

promptOptions(request) ==
    LET terms == SetToSeq(request.glossary)
    IN Section(request.glossary # {}, "Glossary", <<>>)
        \o [i \in DOMAIN terms |-> <<"-">> \o terms[i]]
        \o Section(request.style # <<>>, "Required style:", request.style)
        \o Section(request.audience # <<>>, "Intended audience:", request.audience)
        \o Section(request.kind = "html_xml", "Translatable attributes:",
                   IF request.attributes = <<>> THEN <<"(none)">> ELSE request.attributes)
        \o Section(request.delimiters # <<>>, "Exact segment delimiters:",
                   FlattenSeq([i \in DOMAIN request.delimiters |-> Quoted(request.delimiters[i])]))

\* The prompt of Hy-MT2, a text; contract and rules are a token each.
BuildPrompt(request) ==
    LET task     == <<"Translate">> \o (IF request.sourceLanguage = NoLanguage THEN <<>>
                                        ELSE <<request.sourceLanguage>>) \o <<request.target>>
        sections == <<task, <<>>, <<"Translation contract:">>, <<"CommonContract">>, <<>>,
                      <<"Format-specific rules:">>, <<"FormatRules", Kind(request)>>>>
                      \o promptOptions(request)
                      \o <<(<<>>), <<"Source:">>, <<>>>>
    IN FlattenSeq([i \in 1..Len(sections) |-> sections[i] \o <<NewLine>>])
           \o FenceSource(request.source)

-----------------------------------------------------------------------------
\* A message has a text or parts; here it has one user message, with one part.
PlainInput(text) == [text |-> text, parts |-> <<>>]

HymtSupportsLanguage(language) == language \in HymtLanguages

HymtTakes(request) ==
    /\ HymtSupportsLanguage(request.target)
    /\ request.sourceLanguage # NoLanguage => HymtSupportsLanguage(request.sourceLanguage)
    /\ ValidateTranslationRequest(request)

HymtInput(request) == PlainInput(BuildPrompt(request))

GemmaSupportsLanguage(language) == language \in GemmaLanguages

hasExtendedInstructions(request) ==
    \/ request.glossary # {}
    \/ request.style # <<>> \/ request.audience # <<>>
    \/ request.attributes # <<>> \/ request.delimiters # <<>>

GemmaTakes(request) ==
    /\ ValidateTranslationRequest(request)
    /\ Kind(request) = "text"
    /\ request.sourceLanguage # NoLanguage
    /\ ~hasExtendedInstructions(request)
    /\ GemmaSupportsLanguage(request.sourceLanguage)
    /\ GemmaSupportsLanguage(request.target)

GemmaInput(request) ==
    [text |-> <<>>,
     parts |-> <<[text |-> request.source,
                  sourceCode |-> LanguageCode(request.sourceLanguage),
                  targetCode |-> LanguageCode(request.target)]>>]

SupportsLanguage(model, language) ==
    IF model \in HymtModels THEN HymtSupportsLanguage(language) ELSE GemmaSupportsLanguage(language)

Takes(model, request) ==
    IF model \in HymtModels THEN HymtTakes(request) ELSE GemmaTakes(request)

BuildInput(model, request) ==
    IF model \in HymtModels THEN HymtInput(request) ELSE GemmaInput(request)

-----------------------------------------------------------------------------
KnownProfiles == {"official", "deterministic"}

HasOptions(profile) == profile \in KnownProfiles

\* Numbers of the model cards, all of them the model's own but temperature;
\* no model sets a stop sequence.
HymtOptions(model, profile) ==
    [temperature |-> IF profile = "official" THEN "0.7" ELSE "0.1",
     sampling |-> model, doSample |-> "unset", maxTokens |-> 4096, stop |-> <<>>]

GemmaOptions ==
    [temperature |-> "unset", sampling |-> "unset", doSample |-> "false",
     maxTokens |-> 200, stop |-> <<>>]

Options(model, profile) ==
    IF model \in HymtModels THEN HymtOptions(model, profile) ELSE GemmaOptions

-----------------------------------------------------------------------------
\* What a model says of itself before any request is built.
Capabilities(model) ==
    IF model \in HymtModels
    THEN [promptKinds |-> PromptKinds, requiresSourceLanguage |-> FALSE, auxiliaryFields |-> TRUE]
    ELSE [promptKinds |-> {"text"}, requiresSourceLanguage |-> TRUE, auxiliaryFields |-> FALSE]
=============================================================================
