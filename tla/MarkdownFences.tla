--------------------------- MODULE MarkdownFences ---------------------------
(***************************************************************************)
(* lib/fence.go, which wraps a source text in a fence longer than any run  *)
(* of backticks in it, and markdownFences of lib/validate.go, which counts *)
(* the fences of a text.  A text is a sequence of tokens: a character that *)
(* the code looks at, or a whole word, placeholder, tag or the like.       *)
(***************************************************************************)
EXTENDS Integers, SequencesExt

CONSTANT LineLimit      \* tokens a bufio.Scanner takes on a line: 64 KiB there

ASSUME LineLimitAssumption == LineLimit \in Nat \ {0}

NewLine == "\n"
Blank == " "
Backtick == "backtick"
Tilde == "tilde"

\* The lines of a text, the last one included when it is empty.
Lines(text) ==
    LET put(token, lines) ==
            IF token = NewLine THEN <<(<<>>)>> \o lines
            ELSE <<(<<token>> \o Head(lines))>> \o Tail(lines)
    IN FoldRight(put, text, <<(<<>>)>>)

\* How often a line starts with this token.
Leading(token, line) ==
    CHOOSE n \in 0..Len(line) :
        /\ \A i \in 1..n : line[i] = token
        /\ n < Len(line) => line[n + 1] # token

After(n, line) == SubSeq(line, n + 1, Len(line))

-----------------------------------------------------------------------------
LongestBacktickRun(text) ==
    LET scan(run, token) ==
            LET current == IF token = Backtick THEN run.current + 1 ELSE 0
            IN [current |-> current,
                longest |-> IF current > run.longest THEN current ELSE run.longest]
    IN FoldLeft(scan, [current |-> 0, longest |-> 0], text).longest

\* Mutant of RequiredFenceLength: as long as the longest run.
RequiredFenceLengthEqual(text, minimum) ==
    LET length == LongestBacktickRun(text) IN IF length < minimum THEN minimum ELSE length

\* A minimum below 1 would be an error; its one caller asks for 4.
RequiredFenceLength(text, minimum) ==
    LET length == LongestBacktickRun(text) + 1 IN IF length < minimum THEN minimum ELSE length

\* Its one caller gives no label.
FenceSource(text) ==
    LET fence == [i \in 1..RequiredFenceLength(text, 4) |-> Backtick]
    IN fence \o <<NewLine>> \o text \o <<NewLine>> \o fence

-----------------------------------------------------------------------------
\* The scanner stops at a line that is too long, and nobody asks it why.
Scanned(text) ==
    LET lines == Lines(text)
        short == {n \in 0..Len(lines) : \A k \in 1..n : Len(lines[k]) < LineLimit}
    IN SubSeq(lines, 1, Max(short))

\* The marker of a line and the length of its run, if that makes it a fence.  (The code
\* trims tabs too; a blank stands for either.)
FenceOf(line) ==
    LET indent  == Leading(Blank, line)
        trimmed == After(indent, line)
        marker  == Head(trimmed)
        length  == Leading(marker, trimmed)
    IN IF indent <= 3 /\ Len(trimmed) >= 3 /\ marker \in {Backtick, Tilde} /\ length >= 3
       THEN {<<marker, length>>} ELSE {}

markdownFences(text) ==
    FoldLeft(LAMBDA counts, line : counts (+) SetToBag(FenceOf(line)), EmptyBag, Scanned(text))

-----------------------------------------------------------------------------
\* What a Markdown reader, by the rules of CommonMark, takes to be a fence:
\* backticks or tildes, indented by at most three, no backtick after backticks.
Opens(line) ==
    LET indent == Leading(Blank, line)
        run    == Leading(Backtick, After(indent, line))
    IN /\ indent <= 3
       /\ \/ run >= 3 /\ Backtick \notin ToSet(After(indent + run, line))
          \/ Leading(Tilde, After(indent, line)) >= 3

\* It ends at a run of the same marker that is at least as long, with nothing
\* but blanks after it.
Closes(line, opening) ==
    LET fence  == After(Leading(Blank, opening), opening)
        indent == Leading(Blank, line)
        run    == Leading(Head(fence), After(indent, line))
    IN /\ indent <= 3
       /\ run >= Leading(Head(fence), fence)
       /\ ToSet(After(indent + run, line)) \subseteq {Blank}

\* The lines of the first fenced block, and how many lines come after it.
FirstBlock(text) ==
    LET lines  == Lines(text)
        first  == Min({k \in 1..Len(lines) : Opens(lines[k])} \cup {Len(lines)})
        last   == Min({k \in (first + 1)..Len(lines) : Closes(lines[k], lines[first])}
                         \cup {Len(lines) + 1})
    IN [lines |-> SubSeq(lines, first + 1, last - 1), after |-> Len(lines) - last]
=============================================================================
