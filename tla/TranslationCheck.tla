-------------------------- MODULE TranslationCheck --------------------------
(***************************************************************************)
(* ValidateTranslation of lib/validate.go, which callers run on a source   *)
(* and its translation: the issues it reports.  Texts are sequences of     *)
(* tokens; the tables below say what the regular expressions, the JSON,    *)
(* YAML and HTML readers of the code make of a token.                      *)
(***************************************************************************)
EXTENDS MarkdownFences

\* Words, one of them a label that models like to put first, one a percentage
\* that the pattern of placeholders takes for a verb of printf.
Label == "Note:"
Percentage == "50% off"
Words == {"hello", "ciao", Label, Percentage}

\* What each regular expression finds, of the tokens used here.
Patterns == [
    placeholders_changed  |-> {"{{name}}", Percentage},
    urls_changed          |-> {"https://x.io/a/b"},
    emails_changed        |-> {"a@x.io"},
    windows_paths_changed |-> {"C:\\a"},
    posix_paths_changed   |-> {"/etc/hosts", "https://x.io/a/b"}]

Entities == {"&amp;"}

Select(text, tokens) == SelectSeq(text, LAMBDA token : token \in tokens)

Occurrences(token, text) == Cardinality({i \in DOMAIN text : text[i] = token})

-----------------------------------------------------------------------------
\* Mutant of equalCounts: what the translation adds is not looked at.
equalCountsOfLeft(left, right) ==
    \A token \in DOMAIN left : BagIn(token, right) /\ right[token] = left[token]

equalCounts(left, right) ==
    /\ Cardinality(DOMAIN left) = Cardinality(DOMAIN right)
    /\ \A token \in DOMAIN left : BagIn(token, right) /\ right[token] = left[token]

matchCounts(tokens, text) == [token \in tokens \cap ToSet(text) |-> Occurrences(token, text)]

comparePattern(tokens, source, output) ==
    equalCounts(matchCounts(tokens, source), matchCounts(tokens, output))

\* After blanks, a label and a colon.
leadingNoise(text) ==
    LET visible == SelectSeq(text, LAMBDA token : token \notin {Blank, NewLine})
    IN visible # <<>> /\ Head(visible) = Label

\* Left to right, the longest delimiter that starts here.
delimiterSequence(text, delimiters) ==
    LET candidates == ToSet(delimiters) \ {<<>>}
        from[offset \in 1..(Len(text) + 1)] ==
            LET here == {d \in candidates : IsPrefix(d, After(offset - 1, text))}
                match == CHOOSE d \in here : \A other \in here : Len(other) <= Len(d)
            IN IF offset > Len(text) THEN <<>>
               ELSE IF here = {} THEN from[offset + 1]
               ELSE <<match>> \o from[offset + Len(match)]
    IN from[1]

-----------------------------------------------------------------------------
\* JSON.  A value is the set of its leaves, each a path and what stands there;
\* the empty set is no value.  Path steps are keys, and "head" and "tail" of an
\* array.  This is jsonShape: strings are all alike, numbers are not.
JSONStrings == Words \cup {"id", "name", "{{name}}"}
JSONLiterals == {"1", "2", "true", "null"}

Leaf(what) == {<<(<<>>), what>>}
Under(step, value) == {<<(<<step>>) \o leaf[1], leaf[2]>> : leaf \in value}
Nothing == [value |-> {}, next |-> 0]

\* Keys of the members that follow win over this one.
WithMember(key, value, rest) ==
    rest \cup {leaf \in Under(key, value) :
                  \A other \in rest : other[1] = <<>> \/ Head(other[1]) # key}

jsonShape(text) ==
    LET at(i) == IF i \in 1..Len(text) THEN text[i] ELSE "end"
        \* After a member or an item: the bracket, or a comma and what follows.
        then(part, bracket, empty, follow) ==
            CASE part.value = {}          -> Nothing
              [] at(part.next) = bracket  -> [value |-> Leaf(empty), next |-> part.next + 1]
              [] at(part.next) = ","      -> follow
              [] OTHER                    -> Nothing
        \* What the decoder reads from position i on.
        read[what \in {"value", "members", "items"}, i \in 1..(Len(text) + 4)] ==
            CASE what = "value" /\ at(i) \in JSONStrings ->
                     [value |-> Leaf("string"), next |-> i + 1]
              [] what = "value" /\ at(i) \in JSONLiterals ->
                     [value |-> Leaf(at(i)), next |-> i + 1]
              [] what = "value" /\ at(i) = "{" ->
                     IF at(i + 1) = "}" THEN [value |-> Leaf("object"), next |-> i + 2]
                     ELSE read["members", i + 1]
              [] what = "value" /\ at(i) = "[" ->
                     IF at(i + 1) = "]" THEN [value |-> Leaf("array"), next |-> i + 2]
                     ELSE read["items", i + 1]
              [] what = "members" /\ at(i) \in JSONStrings /\ at(i + 1) = ":" ->
                     LET member == read["value", i + 2]
                         rest   == then(member, "}", "object", read["members", member.next + 1])
                     IN IF rest.value = {} THEN Nothing
                        ELSE [rest EXCEPT !.value = WithMember(at(i), member.value, rest.value)]
              [] what = "items" ->
                     LET item == read["value", i]
                         rest == then(item, "]", "array", read["items", item.next + 1])
                     IN IF rest.value = {} THEN Nothing
                        ELSE [rest EXCEPT !.value = Under("head", item.value) \cup Under("tail", rest.value)]
              [] OTHER -> Nothing
        document == read["value", 1]
    IN IF document.next = Len(text) + 1 THEN document.value ELSE {}

addJSONChecks(source, output) ==
    CASE jsonShape(source) = {}                -> {"source_json_invalid"}
      [] jsonShape(output) = {}                -> {"json_invalid"}
      [] jsonShape(source) # jsonShape(output) -> {"json_structure_changed"}
      [] OTHER                                 -> {}

-----------------------------------------------------------------------------
\* YAML, as far as block mappings go: a line has a key and maybe a value, which
\* begins with an anchor or a tag and goes on with words and machine values.
\* Another line is no YAML here; were it read as a part of the value before, the
\* keys would differ from those of a source that has no such line.
YAMLKeys == {"a:", "b:", "c:"}
Properties == {"&x", "!t"}
MachineValues == {"3", "4", "true"}
DocumentEnd == <<"---">>

\* yaml.Unmarshal reads the first document only.
FirstDocument(text) ==
    LET lines == Lines(text)
        ends  == {k \in 1..Len(lines) : lines[k] = DocumentEnd}
    IN SelectSeq(SubSeq(lines, 1, Min(ends \cup {Len(lines) + 1}) - 1),
                 LAMBDA line : ToSet(line) \ {Blank} # {})

Fields(line) == SelectSeq(line, LAMBDA token : token # Blank)

\* A value without its anchor, which is no part of the shape.
Unanchored(value) == IF value # <<>> /\ Head(value) = "&x" THEN Tail(value) ELSE value

Scalar(value) ==
    CASE value = <<>>                                    -> "null"
      [] Head(value) = "!t"                              -> "!t"
      [] Len(value) = 1 /\ Head(value) \in MachineValues -> Head(value)
      [] OTHER                                           -> "!!str"

\* A line belongs to the last line before it that is indented less.
Parent(lines, k) ==
    Max({i \in 1..(k - 1) : Leading(Blank, lines[i]) < Leading(Blank, lines[k])} \cup {0})

yamlValid(text) ==
    LET lines == FirstDocument(text)
    IN \A k \in DOMAIN lines :
          LET fields == Fields(lines[k])
              parent == Parent(lines, k)
          IN /\ Head(fields) \in YAMLKeys
             /\ \A i \in 2..Len(fields) : fields[i] \notin YAMLKeys \cup {Label}
             /\ parent # 0 => Unanchored(Tail(Fields(lines[parent]))) = <<>>
             /\ \A i \in 1..(k - 1) :
                   Parent(lines, i) = parent => Leading(Blank, lines[i]) = Leading(Blank, lines[k])

\* Per line: where it belongs, its key, its value as far as it is no prose.
yamlShape(text) ==
    LET lines == FirstDocument(text)
    IN [k \in DOMAIN lines |->
           <<Parent(lines, k), Head(Fields(lines[k])), Scalar(Unanchored(Tail(Fields(lines[k]))))>>]

indentationProfile(text) ==
    LET lines == Lines(text) IN [k \in DOMAIN lines |-> Leading(Blank, lines[k])]

addYAMLChecks(source, output) ==
    CASE ~yamlValid(source) -> {"source_yaml_invalid"}
      [] ~yamlValid(output) -> {"yaml_invalid"}
      [] OTHER ->
            {issue \in {"yaml_structure_changed", "yaml_indentation_changed", "yaml_tokens_changed"} :
                \/ issue = "yaml_structure_changed" /\ yamlShape(source) # yamlShape(output)
                \/ issue = "yaml_indentation_changed"
                      /\ indentationProfile(source) # indentationProfile(output)
                \/ issue = "yaml_tokens_changed" /\ ~comparePattern(Properties, source, output)}

-----------------------------------------------------------------------------
\* HTML and XML: what the tokenizer makes of a tag, a comment or a declaration.
Tag(kind, name, attributes) == [kind |-> kind, name |-> name, attributes |-> attributes]

MarkupTokens == {"<p>", "</p>", "<b>", "</b>", "<br>", "<br/>", "</a>", "<a t=hello>",
                 "<a t=ciao>", "<a id=2 t=hello>", "<!--x-->", "<?xml?>"}

MarkupOf(token) ==
    CASE token = "<p>"              -> Tag("start", "p", {})
      [] token = "</p>"             -> Tag("end", "p", {})
      [] token = "<b>"              -> Tag("start", "b", {})
      [] token = "</b>"             -> Tag("end", "b", {})
      [] token = "<br>"             -> Tag("start", "br", {})
      [] token = "<br/>"            -> Tag("empty", "br", {})
      [] token = "<a t=hello>"      -> Tag("start", "a", {<<"title", "hello">>})
      [] token = "<a t=ciao>"       -> Tag("start", "a", {<<"title", "ciao">>})
      [] token = "<a id=2 t=hello>" -> Tag("start", "a", {<<"id", "2">>, <<"title", "hello">>})
      [] token = "</a>"             -> Tag("end", "a", {})
      [] token = "<!--x-->"         -> Tag("comment", "x", {})
      [] token = "<?xml?>"          -> Tag("comment", "xml", {})

voidHTMLTag(name) == name = "br"

\* An attribute that may be translated keeps its name only.
Masked(attributes, allowed) ==
    {IF a[1] \in allowed THEN <<a[1], "<translated>">> ELSE a : a \in attributes}

\* The tags and comments of a text in their order, those still open at its end,
\* and whether an end tag came where it should not.
htmlStructure(text, allowed) ==
    LET read(structure, token) ==
            LET tag   == MarkupOf(token)
                event == [tag EXCEPT !.attributes = Masked(tag.attributes, allowed)]
                stack == structure.stack
                fits  == stack # <<>> /\ Last(stack) = tag.name
            IN [events |-> Append(structure.events, event),
                stack  |-> CASE tag.kind = "start" /\ ~voidHTMLTag(tag.name) -> Append(stack, tag.name)
                             [] tag.kind = "end" /\ fits                     -> Front(stack)
                             [] OTHER                                        -> stack,
                error  |-> structure.error \/ (tag.kind = "end" /\ ~fits)]
    IN FoldLeft(read, [events |-> <<>>, stack |-> <<>>, error |-> FALSE],
                Select(text, MarkupTokens))

HasErrors(structure) == structure.error \/ structure.stack # <<>>

\* XML knows no void tags: what starts must end.
validateXML(text) ==
    LET read(stack, token) ==
            LET tag == MarkupOf(token)
            IN CASE tag.kind = "start" -> Append(stack, tag.name)
                 [] tag.kind = "end"   -> IF stack # <<>> /\ Last(stack) = tag.name
                                          THEN Front(stack) ELSE <<"error">> \o stack
                 [] OTHER              -> stack
    IN FoldLeft(read, <<>>, Select(text, MarkupTokens)) = <<>>

addMarkupChecks(source, output, attributes) ==
    LET before == htmlStructure(source, ToSet(attributes))
        after  == htmlStructure(output, ToSet(attributes))
        xml    == source # <<>> /\ Head(source) = "<?xml?>"
    IN {issue \in {"xml_invalid", "source_markup_invalid", "markup_invalid",
                   "markup_structure_changed", "entities_changed"} :
           \/ issue = "xml_invalid" /\ xml /\ ~validateXML(output)
           \/ issue = "source_markup_invalid" /\ HasErrors(before)
           \/ /\ ~HasErrors(before)
              /\ \/ issue = "markup_invalid" /\ HasErrors(after)
                 \/ issue = "markup_structure_changed" /\ before.events # after.events
                 \/ issue = "entities_changed" /\ ~comparePattern(Entities, source, output)}

-----------------------------------------------------------------------------
\* options: the kind of the request, its delimiters and its attributes, and the
\* identifiers the caller wants to be kept.
GeneralIssues(source, output, options) ==
    {name \in DOMAIN Patterns : ~comparePattern(Patterns[name], source, output)} \cup
    {issue \in {"empty_source_output", "unexpected_prefix", "markdown_fences_changed",
                "identifier_changed", "delimiters_changed"} :
        \/ issue = "empty_source_output" /\ source = <<>> /\ output # <<>>
        \/ issue = "unexpected_prefix" /\ leadingNoise(output)
        \/ issue = "markdown_fences_changed"
              /\ ~equalCounts(markdownFences(source), markdownFences(output))
        \/ issue = "identifier_changed"
              /\ \E identifier \in options.identifiers :
                    ~comparePattern({identifier}, source, output)
        \/ issue = "delimiters_changed"
              /\ delimiterSequence(source, options.delimiters)
                    # delimiterSequence(output, options.delimiters)}

FormatIssues(source, output, options) ==
    CASE options.kind = "json"     -> addJSONChecks(source, output)
      [] options.kind = "yaml"     -> addYAMLChecks(source, output)
      [] options.kind = "html_xml" -> addMarkupChecks(source, output, options.attributes)
      [] OTHER                     -> {}

ValidateTranslation(source, output, options) ==
    GeneralIssues(source, output, options) \cup FormatIssues(source, output, options)

-----------------------------------------------------------------------------
\* What a translation has kept, said without the scans of the code.

\* Names, addresses and paths are all there, and nothing of the kind is new.
KeepsNames(source, output, identifiers) ==
    LET names == ((UNION {Patterns[name] : name \in DOMAIN Patterns}) \ Words) \cup identifiers
    IN \A name \in names : Occurrences(name, source) = Occurrences(name, output)

\* The delimiters' tokens stand in the same order.
KeepsDelimiters(source, output, delimiters) ==
    LET tokens == UNION {ToSet(d) : d \in ToSet(delimiters)}
    IN Select(source, tokens) = Select(output, tokens)

\* Each start of a fence: a run of three or more, at most three blanks into a
\* line.  The code sees none behind a line that is too long.
FenceRuns(text) ==
    LET starts(i, n) ==
            /\ i + n <= Len(text) + 1
            /\ \A k \in i..(i + n - 1) : text[k] = text[i]
            /\ i + n <= Len(text) => text[i + n] # text[i]
            /\ \E b \in 0..3 :
                  /\ b < i /\ (b + 1 < i => text[i - b - 1] = NewLine)
                  /\ \A k \in (i - b)..(i - 1) : text[k] = Blank
        markers == {i \in DOMAIN text : text[i] \in {Backtick, Tilde}}
    IN {run \in markers \X (3..Len(text)) : starts(run[1], run[2])}

KeepsFences(source, output) ==
    \/ \E line \in ToSet(Lines(source)) \cup ToSet(Lines(output)) : Len(line) >= LineLimit
    \/ LET before == FenceRuns(source)
           after  == FenceRuns(output)
       IN \A marker \in {Backtick, Tilde}, n \in 3..(Len(source) + Len(output)) :
             Cardinality({run \in before : source[run[1]] = marker /\ run[2] = n})
                 = Cardinality({run \in after : output[run[1]] = marker /\ run[2] = n})

\* A string of JSON is a key when a colon follows.
IsKey(text, i) == text[i] \in JSONStrings /\ i < Len(text) /\ text[i + 1] = ":"

\* Two members of one object have the same key: the decoder keeps the last.
RepeatsKey(text) ==
    LET depth(i) == Cardinality({k \in 1..(i - 1) : text[k] = "{"})
                        - Cardinality({k \in 1..(i - 1) : text[k] = "}"})
    IN \E i, j \in 1..Len(text) :
          /\ i < j /\ text[i] = text[j] /\ IsKey(text, i) /\ IsKey(text, j)
          /\ depth(i) = depth(j) /\ \A k \in i..j : depth(k) >= depth(i)

\* All brackets, keys, numbers and literals, and as many strings.
KeepsJSON(source, output) ==
    LET machine(text) ==
            ToBag([i \in DOMAIN text |->
                      IF text[i] \in JSONStrings /\ ~IsKey(text, i) THEN "string" ELSE text[i]])
    IN RepeatsKey(source) \/ RepeatsKey(output) \/ machine(source) = machine(output)

\* Line by line the same indentation, in the first document the same keys, and
\* all of a line without words; anchors and tags, but not their places.
KeepsYAML(source, output) ==
    LET before == Lines(source)
        after  == Lines(output)
        bare(line) == SelectSeq(line, LAMBDA token : token \notin {Blank, "&x"})
    IN /\ ToBag(Select(source, Properties)) = ToBag(Select(output, Properties))
       /\ Len(before) = Len(after)
       /\ \A k \in DOMAIN before : Leading(Blank, before[k]) = Leading(Blank, after[k])
       /\ \A k \in DOMAIN before : DocumentEnd \notin ToSet(SubSeq(before, 1, k)) =>
             IF ToSet(before[k]) \cap Words = {}
             THEN bare(before[k]) = bare(after[k])
             ELSE Head(bare(before[k])) = Head(bare(after[k]))

\* The same tags and comments in the same order, but for a title that may be
\* translated, and the same entities.
KeepsMarkup(source, output, attributes) ==
    LET tags(text) ==
            LET kept == Select(text, MarkupTokens)
            IN [i \in DOMAIN kept |->
                   IF kept[i] = "<a t=ciao>" /\ "title" \in ToSet(attributes)
                   THEN "<a t=hello>" ELSE kept[i]]
    IN tags(source) = tags(output) /\ ToBag(Select(source, Entities)) = ToBag(Select(output, Entities))

Keeps(source, output, options) ==
    /\ KeepsNames(source, output, options.identifiers)
    /\ KeepsDelimiters(source, output, options.delimiters)
    /\ KeepsFences(source, output)
    /\ options.kind = "json" => KeepsJSON(source, output)
    /\ options.kind = "yaml" => KeepsYAML(source, output)
    /\ options.kind = "html_xml" => KeepsMarkup(source, output, options.attributes)

\* Nothing but words was translated.
Faithful(source, output) ==
    /\ Len(source) = Len(output)
    /\ \A i \in DOMAIN source :
          source[i] = output[i]
              \/ (source[i] \in Words /\ output[i] \in Words /\ ~IsKey(source, i))

\* Words that the check takes for something else: a label at the start, and in
\* YAML a colon; a percentage, when it is translated.
Misread(source, output, options) ==
    \/ leadingNoise(output)
    \/ options.kind = "yaml" /\ Label \in ToSet(output)
    \/ Occurrences(Percentage, source) # Occurrences(Percentage, output)
=============================================================================
