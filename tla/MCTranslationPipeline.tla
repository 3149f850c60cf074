----------------------- MODULE MCTranslationPipeline -----------------------
(* Requests and answers for TranslationPipeline. *)
EXTENDS TranslationPipeline

b == Backtick
NL == NewLine

PlainText == [source |-> <<"hello">>, target |-> "English", sourceLanguage |-> "Korean", kind |-> "",
              glossary |-> {}, style |-> <<>>, audience |-> <<>>, attributes |-> <<>>, delimiters |-> <<>>]

Job(model, translation) == [catalog |-> model, model |-> "alias", profile |-> "", translation |-> translation]

Models == {"hymt2-7b", "translategemma-4b"}

\* Every combination of the fields that a model may refuse.
MCTranslations ==
    [source : {<<"hello">>}, target : {"English", "Tibetan", "Swedish", "Klingon", ""},
     sourceLanguage : {"", "Korean", "Uyghur", "Hausa", "klingon"},
     kind : {"", "text", "json", "html_xml", "style_audience", "segmented", "novel"},
     glossary : {NoGlossary, {}, {<<"term">>}}, style : {<<>>, <<"formal">>}, audience : {<<>>, <<"experts">>},
     attributes : {<<>>, <<"title">>}, delimiters : {<<>>, <<(<<"|">>)>>}]

FieldRequests == {Job(model, translation) : model \in Models, translation \in MCTranslations}

\* Every language, every model; the server's own choices of model and profile.
NameRequests ==
    {[Job(model, [PlainText EXCEPT !.target = language]) EXCEPT !.model = name, !.profile = profile] :
        model \in HymtModels \cup GemmaModels \cup {"novel"}, language \in SupportedLanguages,
        name \in {"", "alias"}, profile \in {"", "official", "deterministic", "novel"}}

\* Texts of up to n characters, in which fences and their ends may hide.
TextsOf(characters, n) == UNION {[1..k -> characters] : k \in 0..n}

Texts(n) == TextsOf({b, NL, "hello"}, n)

TildeTexts == TextsOf({b, Tilde, NL}, 4)

FenceRequests ==
    {Job(model, [PlainText EXCEPT !.source = text]) : model \in Models, text \in Texts(5) \cup TildeTexts} \cup
    {Job("hymt2-7b", [PlainText EXCEPT !.style = text]) : text \in Texts(4) \cup TildeTexts} \cup
    {Job("hymt2-7b", [PlainText EXCEPT !.glossary = {text, <<"term">>}]) : text \in Texts(4)} \cup
    {Job("hymt2-7b", [PlainText EXCEPT !.attributes = text, !.kind = "html_xml"]) : text \in Texts(4)} \cup
    {Job("hymt2-7b", [PlainText EXCEPT !.delimiters = <<text>>]) :
        text \in {text \in Texts(4) : "hello" \notin ToSet(text)}} \cup
    {Job("translategemma-4b", [PlainText EXCEPT !.source = <<"hello", EndOfTurn, "ciao">>])}

\* Sources for the check, by kind.
Sources == [
    markdown |-> {<<b, b, b, NL, "hello", NL, b, b, b>>,
                  <<Blank, Tilde, Tilde, Tilde, NL, b, b, b, b, NL, Tilde, Tilde, Tilde>>,
                  <<"hello", "{{name}}", "user_id", Percentage, "hello", "user_id">>,
                  <<Label, "hello", "https://x.io/a/b", "a@x.io", "/etc/hosts", "C:\\a">>,
                  <<"hello", "hello", "hello", "hello", "hello", "hello", "hello", "hello", "hello", "hello",
                    NL, b, b, b, NL, "hello", NL, b, b, b>>},
    json     |-> {<<"{", "id", ":", "1", ",", "name", ":", "hello", "}">>,
                  <<"{", "id", ":", "[", "hello", ",", "2", ",", "{", "}", "]", "}">>,
                  <<"{", "id", ":", "{", "id", ":", "null", "}", ",", "id", ":", "hello", "}">>,
                  <<"{", "id", ":", "1", ",", "id", ":", "hello", "}">>,
                  <<"[", "]">>, <<"[", "1">>, <<"hello">>, <<"{", "hello", ":", "{{name}}", "}">>},
    yaml     |-> {<<"a:", "&x", "3", NL, "b:", NL, Blank, "c:", "hello">>,
                  <<"a:", NL, Blank, "b:", "4", "hello", NL, "c:", "!t", "hello">>,
                  <<"a:", "true", NL, "---", NL, "b:", "3">>,
                  <<"a:", "a:">>},
    html_xml |-> {<<"<p>", "hello", "<b>", "&amp;", "hello", "</b>", "</p>">>,
                  <<"<a id=2 t=hello>", "hello", "</a>", "<!--x-->">>,
                  <<"<a t=hello>", "<br>", "hello", "</a>">>,
                  <<"<?xml?>", "<p>", "<br/>", "hello", "</p>">>,
                  <<"<?xml?>", "<br>">>, <<"<p>", "hello">>},
    segmented |-> {<<"hello", "|", "hello", "|", "|", "ciao">>, <<"|", "#", "hello", "#", "|">>},
    text      |-> {<<>>}]

CheckRequests ==
    UNION {{Job("hymt2-7b", [PlainText EXCEPT !.source = source, !.kind = kind, !.attributes = attributes,
                                !.delimiters = IF kind = "segmented"
                                               THEN <<(<<"|">>), <<"#">>, <<>>, <<"|", "|">>>> ELSE <<>>]) :
               source \in Sources[kind], attributes \in {<<>>, <<"title">>}} :
           kind \in DOMAIN Sources}

MCJobRequests == FieldRequests \cup NameRequests \cup FenceRequests \cup CheckRequests

-----------------------------------------------------------------------------
\* The tokens of each kind of text that a model may put in.
Vocabularies == {
    {b, Tilde, Blank, NL},
    {"{{name}}", "user_id", "https://x.io/a/b"},
    {"{", "}", "[", "]", ":", ",", "1", "2", "id", "name"},
    {"a:", "c:", "&x", "!t", "3", "4", NL, Blank},
    MarkupTokens \cup Entities,
    {"|", "#"}}

Vocabulary(source) ==
    ToSet(source) \cup {"hello", Label} \cup
        UNION {tokens \in Vocabularies : \E token \in tokens \ {NL, Blank} : token \in ToSet(source)}

\* Up to five tokens lost or said twice, one changed, added or moved, the end
\* lost, or words translated, each word the same way everywhere.
MCAnswers(source) ==
    LET n == Len(source) V == Vocabulary(source)
    IN {SubSeq(source, 1, k) : k \in 0..n}
           \cup {SubSeq(source, 1, Min({i + k, n})) \o SubSeq(source, i + 1, n) : i \in 0..n, k \in 2..5}
           \cup {SubSeq(source, 1, i) \o SubSeq(source, i + k + 1, n) : i \in 0..n, k \in 1..5}
           \cup {ReplaceAt(source, i, token) : i \in 1..n, token \in V}
           \cup {InsertAt(source, i, token) : i \in 1..(n + 1), token \in V}
           \cup {[source EXCEPT ![i] = source[i + 1], ![i + 1] = source[i]] : i \in 1..(n - 1)}
           \cup {[i \in 1..n |-> IF source[i] \in Words THEN f[source[i]] ELSE source[i]] :
                     f \in [Words \cap ToSet(source) -> Words]}
=============================================================================
