------------------------ MODULE TranslationPipeline ------------------------
(***************************************************************************)
(* One translation from the request to its outcome: the client looks the   *)
(* model up in the catalog and previews the request, submits it, a worker  *)
(* of any server processes the stored job, the inference server answers,   *)
(* and the caller checks the translation against the source.  Each server  *)
(* admits, previews and builds on its own; what the job stores is the      *)
(* request, so the input is built once at admission and again by a worker. *)
(***************************************************************************)
EXTENDS InferenceClient, TranslationCheck

CONSTANTS
    JobRequests,    \* what clients ask for: catalog, model, profile, translation
    DefaultModels,  \* TRANSLITER_API_MODEL of the servers, "" when unset
    Answers(_),     \* the texts a model may make of a source
    Identifiers     \* that the caller wants to be kept

\* TranslationRequest, with texts for its strings and one for the attributes.
Translations ==
    [source : Seq(STRING), target : STRING, sourceLanguage : STRING, kind : STRING,
     glossary : SUBSET Seq(STRING), style : Seq(STRING), audience : Seq(STRING),
     attributes : Seq(STRING), delimiters : Seq(Seq(STRING))]

ASSUME RequestsAssumption ==
    \A request \in JobRequests :
        request.translation \in Translations /\ IsFiniteSet(request.translation.glossary)

ASSUME AnswersAssumption ==
    \A request \in JobRequests : Answers(request.translation.source) \subseteq Seq(STRING)

VARIABLES
    phase,          \* see Phases
    job,            \* the request
    preview,        \* the answer to POST /v1/model-catalogs/{id}/preview
    payload,        \* what the worker sent
    output,         \* the translation that the job's result holds
    issues          \* what ValidateTranslation reported

vars == <<phase, job, preview, payload, output, issues>>

\* "refused"  422
\* "unsent"   the job failed before anything was sent
\* "failed"   the job failed on the answer
Phases == {"new", "previewed", "refused", "admitted", "unsent", "sent",
           "failed", "succeeded", "checked"}

None == <<>>

Profile(request) == IF request.profile = "" THEN "official" ELSE request.profile

-----------------------------------------------------------------------------
\* GET /v1/model-catalogs/{id}: what the client learns of the model.
Detail(model) ==
    [capabilities |-> Capabilities(model),
     profiles     |-> {profile \in KnownProfiles : HasOptions(profile)},
     languages    |-> {language \in SupportedLanguages : SupportsLanguage(model, language)}]

PreviewStatus(request) ==
    CASE ~Find(request.catalog)                               -> 404
      [] ~ValidateTranslationRequest(request.translation)     -> 400
      [] ~HasOptions(Profile(request))                        -> 422
      [] ~Takes(request.catalog, request.translation)         -> 422
      [] OTHER                                                -> 200

PreviewModel(request) ==
    LET status == PreviewStatus(request)
    IN [status  |-> status,
        input   |-> IF status = 200 THEN BuildInput(request.catalog, request.translation) ELSE None,
        options |-> IF status = 200 THEN Options(request.catalog, Profile(request)) ELSE None]

Preview(request) ==
    /\ phase = "new"
    /\ job' = request
    /\ preview' = PreviewModel(request)
    /\ phase' = "previewed"
    /\ UNCHANGED <<payload, output, issues>>

-----------------------------------------------------------------------------
\* Mutant of validateJobRequest: the languages are enough.
validateJobRequestLanguages(request) ==
    /\ Find(request.catalog)
    /\ SupportsLanguage(request.catalog, request.translation.target)
    /\ HasOptions(Profile(request))

validateJobRequest(request) ==
    LET translation == request.translation
    IN /\ Find(request.catalog)
       /\ SupportsLanguage(request.catalog, translation.target)
       /\ translation.sourceLanguage # NoLanguage =>
             SupportsLanguage(request.catalog, translation.sourceLanguage)
       /\ Takes(request.catalog, translation)
       /\ HasOptions(Profile(request))

\* POST /v1/jobs, as far as the request decides it.
Submit ==
    /\ phase = "previewed"
    /\ phase' = IF validateJobRequest(job) THEN "admitted" ELSE "refused"
    /\ UNCHANGED <<job, preview, payload, output, issues>>

\* Process: the checks of the admission, and the input, once more.
Builds(request) ==
    LET translation == request.translation
    IN /\ Find(request.catalog)
       /\ SupportsLanguage(request.catalog, translation.target)
       /\ translation.sourceLanguage # NoLanguage =>
             SupportsLanguage(request.catalog, translation.sourceLanguage)
       /\ Takes(request.catalog, translation)
       /\ HasOptions(Profile(request))

Process(default) ==
    LET name  == ModelName(job.model, default)
        input == BuildInput(job.catalog, job.translation)
        sends == Builds(job) /\ Encodes(name, input)
    IN /\ phase = "admitted"
       /\ phase' = IF sends THEN "sent" ELSE "unsent"
       /\ payload' = IF sends
                     THEN EncodeRequest(name, input, Options(job.catalog, Profile(job)))
                     ELSE None
       /\ UNCHANGED <<job, preview, output, issues>>

GenerateFails(answer) ==
    /\ phase = "sent" /\ answer \in BadAnswers
    /\ phase' = "failed"
    /\ UNCHANGED <<job, preview, payload, output, issues>>

\* Whatever the finish reason is: a text cut at max_tokens is a success too.
Generate(choice) ==
    /\ phase = "sent"
    /\ output' = DecodeResponse(choice)
    /\ phase' = "succeeded"
    /\ UNCHANGED <<job, preview, payload, issues>>

CheckOptions ==
    [kind |-> job.translation.kind, identifiers |-> Identifiers,
     delimiters |-> job.translation.delimiters, attributes |-> job.translation.attributes]

\* The library leaves it to its callers to check a result.
Check ==
    /\ phase = "succeeded"
    /\ issues' = ValidateTranslation(job.translation.source, output, CheckOptions)
    /\ phase' = "checked"
    /\ UNCHANGED <<job, preview, payload, output>>

Init ==
    /\ phase = "new"
    /\ job = None /\ preview = None /\ payload = None /\ output = <<>> /\ issues = {}

Answer ==
    \/ \E answer \in BadAnswers : GenerateFails(answer)
    \/ \E text \in Answers(job.translation.source) :
          Generate(Choice(text, <<>>)) \/ Generate(Choice(<<>>, text))

\* The phases are named once more before the inputs are drawn, for TLC.
Next ==
    \/ phase = "new" /\ \E request \in JobRequests : Preview(request)
    \/ Submit
    \/ \E default \in DefaultModels : Process(default)
    \/ phase = "sent" /\ Answer
    \/ Check

Spec == Init /\ [][Next]_vars

-----------------------------------------------------------------------------
\* An admitted job fails on the server only for what the admission does not ask
\* about: TranslateGemma's template takes no empty text, and a job that names
\* no inference model needs a default (validateJobRequest of main.go against
\* Process of processor.go and EncodeRequest of codec.go).
AdmittedReachesInference ==
    phase = "unsent" =>
        \/ job.catalog \in GemmaModels /\ job.translation.source = <<>>
        \/ job.model = "" /\ "" \in DefaultModels

\* A client that reads the catalog can tell which requests are taken.
Described(request) ==
    LET detail      == Detail(request.catalog)
        translation == request.translation
        aux         == detail.capabilities.auxiliaryFields
    IN /\ Profile(request) \in detail.profiles
       /\ Kind(translation) \in detail.capabilities.promptKinds
       /\ translation.target \in detail.languages
       /\ \/ translation.sourceLanguage \in detail.languages
          \/ translation.sourceLanguage = NoLanguage /\ ~detail.capabilities.requiresSourceLanguage
       /\ translation.glossary # NoGlossary
       /\ aux \/ (/\ translation.glossary = {} /\ translation.style = <<>> /\ translation.audience = <<>>
                  /\ translation.attributes = <<>> /\ translation.delimiters = <<>>)
       /\ Kind(translation) = "style_audience" => <<translation.style, translation.audience>> # <<(<<>>), <<>>>>
       /\ Kind(translation) = "segmented" => translation.delimiters # <<>>

\* The catalog, the preview and the admission, three handlers with checks of
\* their own, agree on which requests are taken, and what a worker sends later
\* is what the preview showed (catalog.go, main.go, processor.go, codec.go).
PreviewPredicts ==
    /\ phase = "previewed" =>
          (preview.status = 200 <=> Find(job.catalog) /\ Described(job))
    /\ phase \notin {"new", "previewed"} => (phase = "refused" <=> preview.status # 200)
    /\ phase = "sent" =>
          /\ [payload.options EXCEPT !.stop = <<>>] = [preview.options EXCEPT !.stop = <<>>]
          /\ IF payload.path = "/chat/completions"
             THEN payload.prompt = preview.input.text
             ELSE \A token \in ToSet(preview.input.parts[1].text)
                              \cup {preview.input.parts[1].sourceCode, preview.input.parts[1].targetCode} :
                     token \in ToSet(payload.prompt)

\* The texts of a request that stand in its prompt as they are, before the source.
Unquoted(translation) ==
    translation.glossary \cup {translation.style, translation.audience, translation.attributes}

\* A Markdown reader of the prompt finds exactly the lines of the source in the
\* first fenced block, and nothing after it, unless one of those texts opens a
\* block.
CarriedInFence ==
    \/ \E text \in Unquoted(job.translation) : \E line \in ToSet(Lines(text)) : Opens(line)
    \/ FirstBlock(payload.prompt) = [lines |-> Lines(job.translation.source), after |-> 0]

\* In TranslateGemma's template the source stands between the codes and the end
\* of the turn, unless it has such an end itself.
CarriedInTemplate ==
    \/ EndOfTurn \in ToSet(job.translation.source)
    \/ LET begin == Min({i \in DOMAIN payload.prompt : payload.prompt[i] = "text:"})
           end   == Min({i \in DOMAIN payload.prompt : payload.prompt[i] \in ToSet(payload.options.stop)})
       IN SubSeq(payload.prompt, begin + 1, end - 1) = job.translation.source

\* The inference server gets the source whole, in either kind of payload
\* (FenceSource of fence.go, renderStructuredCompletionPrompt).
SourceCarriedWhole ==
    phase = "sent" =>
        IF payload.path = "/chat/completions" THEN CarriedInFence ELSE CarriedInTemplate

\* The check accepts no text that lost or gained anything but words, however
\* the model got there (a text cut at max_tokens included), and refuses no text
\* that only translates the words of a source it accepts, but for words it
\* misreads (ValidateTranslation of validate.go).
CheckJudges ==
    phase = "checked" =>
        LET source == job.translation.source
            taken  == ValidateTranslation(source, source, CheckOptions) = {}
        IN /\ issues = {} => Keeps(source, output, CheckOptions)
           /\ taken /\ Faithful(source, output) /\ ~Misread(source, output, CheckOptions)
                 => issues = {}
=============================================================================
