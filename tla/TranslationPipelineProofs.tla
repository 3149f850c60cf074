--------------------- MODULE TranslationPipelineProofs ---------------------
(***************************************************************************)
(* Theorems about TranslationPipeline, for every set of requests, sources  *)
(* of any length and whatever a model answers.  First the texts: what the  *)
(* scans of lib/fence.go compute, and that the first fenced block in a     *)
(* prompt holds exactly the lines of its source.  Then the steps: what an  *)
(* admitted job may still fail for, that the catalog, the preview and the  *)
(* admission agree, and that either payload carries the source whole.      *)
(* Last, the check of the result: that no name of the source was lost.     *)
(***************************************************************************)
EXTENDS TranslationPipeline, SequenceTheorems, FiniteSetTheorems, TLAPS

\* Every set of natural numbers has a least one, and a bounded one a greatest:
\* what induction over a text rests on.
LEMMA LeastNat ==
    ASSUME NEW T, T \subseteq Nat, T # {}
    PROVE  \E n \in T : \A m \in T : n <= m
  <1> DEFINE R == OpToRel(<, Nat)
  <1>1. IsWellFoundedOn(R, Nat)
    BY NatLessThanWellFounded
  <1>2. PICK n \in T : \A m \in T : ~ (<<m, n>> \in R)
    BY <1>1, WFMin
  <1>3. \A m \in T : ~ (m < n)
    BY <1>2 DEF OpToRel
  <1> QED BY <1>3

\* A set of naturals with 0 and every successor, up to a bound, is all of them.
LEMMA Induction ==
    ASSUME NEW n \in Nat, NEW T, 0 \in T, \A k \in 0..(n - 1) : k \in T => k + 1 \in T
    PROVE  0..n \subseteq T
  <1> DEFINE U == (0..n) \ T
  <1> SUFFICES ASSUME U # {} PROVE FALSE
    OBVIOUS
  <1>1. U \subseteq Nat
    OBVIOUS
  <1> HIDE DEF U
  <1>2. PICK k \in U : \A m \in U : k <= m
    BY <1>1, LeastNat
  <1> USE DEF U
  <1>3. k - 1 \in 0..(n - 1) /\ k - 1 \notin U
    BY <1>2
  <1> QED BY <1>2, <1>3

LEMMA EndsOfInterval ==
    ASSUME NEW n \in Nat, NEW s \in SUBSET (1..n), s # {}
    PROVE  /\ Min(s) \in s /\ \A y \in s : Min(s) <= y
           /\ Max(s) \in s /\ \A y \in s : Max(s) >= y
  <1>1. PICK x \in s : \A y \in s : x <= y
    <2>1. s \subseteq Nat
      OBVIOUS
    <2> QED BY <2>1, LeastNat
  <1>2. PICK z \in s : \A y \in s : z >= y
    <2> DEFINE U == {n - y : y \in s}
    <2>1. U \subseteq Nat /\ U # {}
      OBVIOUS
    <2> HIDE DEF U
    <2>2. PICK d \in U : \A m \in U : d <= m
      BY <2>1, LeastNat
    <2> USE DEF U
    <2>3. PICK z \in s : d = n - z
      BY <2>2
    <2>4. \A y \in s : d <= n - y
      BY <2>2
    <2> QED BY <2>3, <2>4
  <1>3. Min(s) \in s /\ \A y \in s : Min(s) <= y
    BY <1>1 DEF Min
  <1>4. Max(s) \in s /\ \A y \in s : Max(s) >= y
    BY <1>2 DEF Max
  <1> QED BY <1>3, <1>4

-----------------------------------------------------------------------------
\* A fold is a function of sets of positions.  That there is such a function ...
FoldsRight(n, base, G, g) ==
    \A s \in SUBSET (1..n) : g[s] = IF s = {} THEN base ELSE G[Min(s), g[s \ {Min(s)}]]

LEMMA FoldRightExists ==
    ASSUME NEW n \in Nat, NEW A, NEW base \in A, NEW G \in [(1..n) \X A -> A]
    PROVE  \E g \in [SUBSET (1..n) -> A] : FoldsRight(n, base, G, g)
  <1> DEFINE D(k) == SUBSET ((n - k + 1)..n)
             Folds(k, g) == \A s \in D(k) : g[s] = IF s = {} THEN base ELSE G[Min(s), g[s \ {Min(s)}]]
             T == {k \in 0..n : \E g \in [D(k) -> A] : Folds(k, g)}
  <1>1. 0 \in T
    <2> DEFINE g == [s \in D(0) |-> base]
    <2>1. D(0) = {{}}
      OBVIOUS
    <2>2. Folds(0, g) /\ g \in [D(0) -> A]
      BY <2>1
    <2>3. \E f \in [D(0) -> A] : Folds(0, f)
      BY <2>2
    <2> HIDE DEF Folds, D
    <2> QED BY <2>3
  <1>2. ASSUME NEW k \in 0..(n - 1), k \in T PROVE k + 1 \in T
    <2>1. PICK g \in [D(k) -> A] : Folds(k, g)
      BY <1>2
    <2> DEFINE p == n - k
               h == [s \in D(k + 1) |-> IF p \in s THEN G[p, g[s \ {p}]] ELSE g[s]]
    <2>2. p \in 1..n /\ (n - (k + 1) + 1)..n = {p} \cup ((n - k + 1)..n) /\ p \notin (n - k + 1)..n
      OBVIOUS
    <2>3. \A s \in D(k + 1) : s \ {p} \in D(k) /\ (p \notin s => s \in D(k))
      BY <2>2
    <2>4. h \in [D(k + 1) -> A]
      BY <2>1, <2>2, <2>3
    <2>5. ASSUME NEW s \in D(k + 1), s # {}
          PROVE  h[s] = G[Min(s), h[s \ {Min(s)}]]
      <3>0. s \in SUBSET (1..n)
        BY <2>2
      <3>1. Min(s) \in s /\ \A y \in s : Min(s) <= y
        BY <2>5, <3>0, EndsOfInterval
      <3>2. CASE p \in s
        <4>1. Min(s) = p
          <5>1. PICK m : m = Min(s)
            OBVIOUS
          <5>2. m \in s /\ m <= p
            BY <3>1, <3>2, <5>1
          <5>3. s \subseteq p..n
            OBVIOUS
          <5> QED BY <5>1, <5>2, <5>3
        <4>2. s \ {p} \in D(k + 1) /\ p \notin s \ {p} /\ s \ {p} \in D(k)
          BY <2>3
        <4>3. h[s \ {p}] = g[s \ {p}]
          BY <4>2
        <4> QED BY <3>2, <4>1, <4>3
      <3>3. CASE p \notin s
        <4>1. s \in D(k) /\ s \ {Min(s)} \in D(k) /\ s \ {Min(s)} \in D(k + 1)
          BY <2>3, <3>3
        <4>2. h[s] = g[s] /\ h[s \ {Min(s)}] = g[s \ {Min(s)}]
          BY <3>3, <4>1
        <4> QED BY <2>1, <2>5, <4>1, <4>2
      <3> QED BY <3>2, <3>3
    <2>6. h[{}] = base
      BY <2>1, <2>3
    <2>7. Folds(k + 1, h)
      BY <2>5, <2>6
    <2>8. \E f \in [D(k + 1) -> A] : Folds(k + 1, f)
      BY <2>4, <2>7
    <2> HIDE DEF Folds, D
    <2> QED BY <2>8
  <1> HIDE DEF T
  <1>3. n \in T
    BY <1>1, <1>2, Induction
  <1> USE DEF T
  <1>4. PICK g \in [D(n) -> A] : Folds(n, g)
    BY <1>3
  <1>5. D(n) = SUBSET (1..n)
    OBVIOUS
  <1>6. FoldsRight(n, base, G, g)
    BY <1>4, <1>5 DEF FoldsRight
  <1> QED BY <1>4, <1>5, <1>6

FoldsLeft(n, base, G, g) ==
    \A s \in SUBSET (1..n) : g[s] = IF s = {} THEN base ELSE G[Max(s), g[s \ {Max(s)}]]

LEMMA FoldLeftExists ==
    ASSUME NEW n \in Nat, NEW A, NEW base \in A, NEW G \in [(1..n) \X A -> A]
    PROVE  \E g \in [SUBSET (1..n) -> A] : FoldsLeft(n, base, G, g)
  <1> DEFINE D(k) == SUBSET (1..k)
             Folds(k, g) == \A s \in D(k) : g[s] = IF s = {} THEN base ELSE G[Max(s), g[s \ {Max(s)}]]
             T == {k \in 0..n : \E g \in [D(k) -> A] : Folds(k, g)}
  <1>1. 0 \in T
    <2> DEFINE g == [s \in D(0) |-> base]
    <2>1. D(0) = {{}}
      OBVIOUS
    <2>2. Folds(0, g) /\ g \in [D(0) -> A]
      BY <2>1
    <2>3. \E f \in [D(0) -> A] : Folds(0, f)
      BY <2>2
    <2> HIDE DEF Folds, D
    <2> QED BY <2>3
  <1>2. ASSUME NEW k \in 0..(n - 1), k \in T PROVE k + 1 \in T
    <2>1. PICK g \in [D(k) -> A] : Folds(k, g)
      BY <1>2
    <2> DEFINE p == k + 1
               h == [s \in D(k + 1) |-> IF p \in s THEN G[p, g[s \ {p}]] ELSE g[s]]
    <2>2. p \in 1..n /\ 1..(k + 1) = {p} \cup (1..k) /\ p \notin 1..k
      OBVIOUS
    <2>3. \A s \in D(k + 1) : s \ {p} \in D(k) /\ (p \notin s => s \in D(k))
      BY <2>2
    <2>4. h \in [D(k + 1) -> A]
      BY <2>1, <2>2, <2>3
    <2>5. ASSUME NEW s \in D(k + 1), s # {}
          PROVE  h[s] = G[Max(s), h[s \ {Max(s)}]]
      <3>0. s \in SUBSET (1..n)
        BY <2>2
      <3>1. Max(s) \in s /\ \A y \in s : Max(s) >= y
        BY <2>5, <3>0, EndsOfInterval
      <3>2. CASE p \in s
        <4>1. Max(s) = p
          <5>1. PICK m : m = Max(s)
            OBVIOUS
          <5>2. m \in s /\ m >= p
            BY <3>1, <3>2, <5>1
          <5>3. s \subseteq 1..p
            OBVIOUS
          <5> QED BY <5>1, <5>2, <5>3
        <4>2. s \ {p} \in D(k + 1) /\ p \notin s \ {p} /\ s \ {p} \in D(k)
          BY <2>3
        <4>3. h[s \ {p}] = g[s \ {p}]
          BY <4>2
        <4> QED BY <3>2, <4>1, <4>3
      <3>3. CASE p \notin s
        <4>1. s \in D(k) /\ s \ {Max(s)} \in D(k) /\ s \ {Max(s)} \in D(k + 1)
          BY <2>3, <3>3
        <4>2. h[s] = g[s] /\ h[s \ {Max(s)}] = g[s \ {Max(s)}]
          BY <3>3, <4>1
        <4> QED BY <2>1, <2>5, <4>1, <4>2
      <3> QED BY <3>2, <3>3
    <2>6. h[{}] = base
      BY <2>1, <2>3
    <2>7. Folds(k + 1, h)
      BY <2>5, <2>6
    <2>8. \E f \in [D(k + 1) -> A] : Folds(k + 1, f)
      BY <2>4, <2>7
    <2> HIDE DEF Folds, D
    <2> QED BY <2>8
  <1> HIDE DEF T
  <1>3. n \in T
    BY <1>1, <1>2, Induction
  <1> USE DEF T
  <1>4. PICK g \in [D(n) -> A] : Folds(n, g)
    BY <1>3
  <1>5. D(n) = SUBSET (1..n)
    OBVIOUS
  <1>6. FoldsLeft(n, base, G, g)
    BY <1>4, <1>5 DEF FoldsLeft
  <1> QED BY <1>4, <1>5, <1>6

-----------------------------------------------------------------------------
LEMMA ConsProperties ==
    ASSUME NEW S, NEW x \in S, NEW s \in Seq(S)
    PROVE  /\ <<x>> \in Seq(S) /\ Len(<<x>>) = 1 /\ <<x>> \o s \in Seq(S)
           /\ Len(<<x>> \o s) = Len(s) + 1 /\ (<<x>> \o s)[1] = x
           /\ \A k \in 1..Len(s) : (<<x>> \o s)[k + 1] = s[k]
  <1>1. <<x>> \in Seq(S) /\ Len(<<x>>) = 1 /\ <<x>>[1] = x
    OBVIOUS
  <1>2. Len(s) \in Nat
    BY LenProperties
  <1>3. /\ <<x>> \o s \in Seq(S) /\ Len(<<x>> \o s) = 1 + Len(s)
        /\ \A i \in 1..(1 + Len(s)) : (<<x>> \o s)[i] = IF i <= 1 THEN <<x>>[i] ELSE s[i - 1]
    BY <1>1, ConcatProperties
  <1>4. ASSUME NEW k \in 1..Len(s) PROVE (<<x>> \o s)[k + 1] = s[k]
    BY <1>2, <1>3
  <1> QED BY <1>1, <1>2, <1>3, <1>4

\* Any string, and among them those the code puts into a prompt.
PromptWords == {"Translate", "Translation contract:", "CommonContract", "Format-specific rules:",
          "FormatRules", "Glossary", "-", "Required style:", "Intended audience:",
          "Translatable attributes:", "(none)", "Exact segment delimiters:", "\\n", "Source:", "text"}

Tokens == STRING \cup {NewLine, Backtick, Blank} \cup PromptWords

LineSeqs == Seq(Seq(Tokens)) \ {<<>>}

LEMMA TextsAssociate == \A a, b, c \in Seq(Tokens) : (a \o b) \o c = a \o (b \o c)
  BY ConcatAssociative

LEMMA LinesAssociate == \A a, b, c \in Seq(Seq(Tokens)) : (a \o b) \o c = a \o (b \o c)
  BY ConcatAssociative

Put(token, lines) ==
    IF token = NewLine THEN <<(<<>>)>> \o lines
    ELSE <<(<<token>> \o Head(lines))>> \o Tail(lines)

LEMMA PutType == ASSUME NEW token \in Tokens, NEW lines \in LineSeqs PROVE Put(token, lines) \in LineSeqs
  <1>1. Head(lines) \in Seq(Tokens) /\ Tail(lines) \in Seq(Seq(Tokens))
    BY HeadTailProperties DEF LineSeqs
  <1>2. <<token>> \o Head(lines) \in Seq(Tokens)
    <2>1. <<token>> \in Seq(Tokens)
      OBVIOUS
    <2> QED BY <1>1, <2>1, ConcatProperties
  <1>3. <<(<<>>)>> \o lines \in Seq(Seq(Tokens)) /\ Len(<<(<<>>)>> \o lines) = 1 + Len(lines)
    BY DEF LineSeqs
  <1>4. PICK line \in Seq(Tokens) : line = <<token>> \o Head(lines)
    BY <1>2
  <1>5. <<line>> \o Tail(lines) \in Seq(Seq(Tokens)) /\ Len(<<line>> \o Tail(lines)) = 1 + Len(Tail(lines))
    BY <1>1
  <1>6. <<(<<>>)>> \o lines # <<>> /\ <<line>> \o Tail(lines) # <<>>
    BY <1>1, <1>3, <1>5, EmptySeq, LenProperties DEF LineSeqs
  <1> QED BY <1>3, <1>4, <1>5, <1>6 DEF Put, LineSeqs

LEMMA NewLineToken == NewLine \in Tokens
  BY DEF Tokens

LEMMA PutConcat ==
    ASSUME NEW token \in Tokens, NEW a \in LineSeqs, NEW b \in LineSeqs
    PROVE  Put(token, a) \o b = Put(token, a \o b)
  <1>1. a \in Seq(Seq(Tokens)) /\ b \in Seq(Seq(Tokens)) /\ a # <<>>
    BY DEF LineSeqs
  <1>2. CASE token = NewLine
    <2>1. (<<(<<>>)>> \o a) \o b = <<(<<>>)>> \o (a \o b)
      <3>1. <<(<<>>)>> \in Seq(Seq(Tokens))
        OBVIOUS
      <3> QED BY <1>1, <3>1, ConcatAssociative
    <2> QED BY <1>2, <2>1 DEF Put
  <1>3. CASE token # NewLine
    <2>1. Head(a \o b) = Head(a) /\ Tail(a \o b) = Tail(a) \o b
      BY <1>1
    <2>2. PICK line \in Seq(Tokens) : line = <<token>> \o Head(a)
      <3>1. Head(a) \in Seq(Tokens) /\ <<token>> \in Seq(Tokens)
        BY <1>1
      <3> QED BY <3>1, ConcatProperties
    <2>3. (<<line>> \o Tail(a)) \o b = <<line>> \o (Tail(a) \o b)
      <3>1. <<line>> \in Seq(Seq(Tokens)) /\ Tail(a) \in Seq(Seq(Tokens))
        BY <1>1
      <3> QED BY <1>1, <3>1, ConcatAssociative
    <2> QED BY <1>3, <2>1, <2>2, <2>3 DEF Put
  <1> QED BY <1>2, <1>3

Chain(text, h) ==
    /\ h[Len(text) + 1] = <<(<<>>)>>
    /\ \A k \in 1..Len(text) : h[k] = Put(text[k], h[k + 1])

LEMMA LinesChain ==
    ASSUME NEW text \in Seq(Tokens)
    PROVE  \E h \in [1..(Len(text) + 1) -> LineSeqs] : Chain(text, h) /\ Lines(text) = h[1]
  <1> DEFINE base == <<(<<>>)>>
  <1>1. PICK n : n = Len(text)
    OBVIOUS
  <1>2. n \in Nat /\ DOMAIN text = 1..n /\ \A i \in 1..n : text[i] \in Tokens
    BY <1>1, LenProperties, ElementOfSeq
  <1>3. PICK G \in [(1..n) \X LineSeqs -> LineSeqs] :
           \A i \in 1..n, lines \in LineSeqs : G[i, lines] = Put(text[i], lines)
    <2> DEFINE G == [p \in (1..n) \X LineSeqs |-> Put(text[p[1]], p[2])]
    <2>1. G \in [(1..n) \X LineSeqs -> LineSeqs]
      BY <1>2, PutType
    <2>2. \A i \in 1..n, lines \in LineSeqs : G[i, lines] = Put(text[i], lines)
      OBVIOUS
    <2> QED BY <2>1, <2>2
  <1>4. base \in LineSeqs
    BY DEF LineSeqs
  <1> HIDE DEF base
  <1>5. PICK g \in [SUBSET (1..n) -> LineSeqs] : FoldsRight(n, base, G, g)
    BY <1>2, <1>3, <1>4, FoldRightExists
  <1> USE DEF base
  <1>6. ASSUME NEW s \in SUBSET (1..n)
        PROVE  g[s] = IF s = {} THEN base ELSE Put(text[Min(s)], g[s \ {Min(s)}])
    <2>1. CASE s = {}
      BY <1>5, <2>1 DEF FoldsRight
    <2>2. CASE s # {}
      <3>1. Min(s) \in s
        BY <1>2, <2>2, EndsOfInterval
      <3>2. s \ {Min(s)} \in SUBSET (1..n)
        OBVIOUS
      <3>3. g[s \ {Min(s)}] \in LineSeqs
        BY <3>2
      <3> QED BY <1>3, <1>5, <2>2, <3>1, <3>3 DEF FoldsRight
    <2> QED BY <2>1, <2>2
  <1> DEFINE body(it) == [s \in SUBSET (DOMAIN text) |->
                             IF s = {} THEN base ELSE Put(text[Min(s)], it[s \ {Min(s)}])]
             iter == CHOOSE it : it = body(it)
  <1>7. g = body(g)
    BY <1>2, <1>6
  <1>8. Lines(text) = iter[DOMAIN text]
    BY Zenon DEF Lines, FoldRight, MapThenFoldSet, Put
  <1> HIDE DEF body
  <1>9. iter = body(iter)
    BY <1>7, Zenon
  <1> USE DEF body
  <1> DEFINE h == [k \in 1..(n + 1) |-> iter[k..n]]
  <1>10. h[n + 1] = base
    <2>1. (n + 1)..n = {} /\ {} \in SUBSET (1..n)
      BY <1>2
    <2>2. iter[{}] = base
      BY <1>2, <1>9, <2>1
    <2> HIDE DEF iter, base, body
    <2>3. h[n + 1] = iter[(n + 1)..n]
      BY <1>2
    <2> QED BY <2>1, <2>2, <2>3
  <1>11. ASSUME NEW k \in 1..n PROVE h[k] = Put(text[k], h[k + 1])
    <2>1. k..n \in SUBSET (1..n) /\ k..n # {}
      OBVIOUS
    <2>2. Min(k..n) = k
      <3>1. Min(k..n) \in k..n /\ \A y \in k..n : Min(k..n) <= y
        BY <1>2, <2>1, EndsOfInterval
      <3> QED BY <3>1
    <2>3. (k..n) \ {k} = (k + 1)..n
      OBVIOUS
    <2>4. iter[k..n] = Put(text[k], iter[(k + 1)..n])
      BY <1>2, <1>9, <2>1, <2>2, <2>3
    <2> QED BY <2>4, <1>2
  <1> HIDE DEF h, iter, base
  <1>12. ASSUME NEW k \in 1..(n + 1) PROVE h[k] \in LineSeqs
    <2> DEFINE T == {i \in 0..n : h[n + 1 - i] \in LineSeqs}
    <2>1. 0 \in T
      BY <1>2, <1>4, <1>10
    <2>2. ASSUME NEW i \in 0..(n - 1), i \in T PROVE i + 1 \in T
      <3>1. n - i \in 1..n /\ n - i + 1 = n + 1 - i /\ n + 1 - (i + 1) = n - i
        BY <1>2
      <3>2. h[n - i] = Put(text[n - i], h[n + 1 - i])
        BY <1>11, <3>1
      <3>3. h[n - i] \in LineSeqs
        BY <1>2, <2>2, <3>1, <3>2, PutType
      <3> QED BY <1>2, <3>1, <3>3
    <2> HIDE DEF T
    <2>3. 0..n \subseteq T
      BY <1>2, <2>1, <2>2, Induction
    <2> USE DEF T
    <2>4. n + 1 - k \in 0..n /\ n + 1 - (n + 1 - k) = k
      BY <1>2
    <2> QED BY <2>3, <2>4
  <1>13. h \in [1..(n + 1) -> LineSeqs]
    BY <1>12 DEF h
  <1>14. Lines(text) = h[1]
    BY <1>2, <1>8 DEF h
  <1>15. Chain(text, h)
    BY <1>1, <1>10, <1>11 DEF Chain, base
  <1> QED BY <1>1, <1>13, <1>14, <1>15

LEMMA ChainUnique ==
    ASSUME NEW text \in Seq(Tokens), NEW h, NEW f, Chain(text, h), Chain(text, f)
    PROVE  h[1] = f[1]
  <1>1. PICK n \in Nat : n = Len(text)
    BY LenProperties
  <1> DEFINE T == {i \in 0..n : h[n + 1 - i] = f[n + 1 - i]}
  <1>2. 0 \in T
    BY <1>1 DEF Chain
  <1>3. ASSUME NEW i \in 0..(n - 1), i \in T PROVE i + 1 \in T
    <2>1. n - i \in 1..n /\ n - i + 1 = n + 1 - i /\ n + 1 - (i + 1) = n - i
      BY <1>1
    <2>2. h[n - i] = Put(text[n - i], h[n + 1 - i]) /\ f[n - i] = Put(text[n - i], f[n + 1 - i])
      BY <1>1, <2>1 DEF Chain
    <2>3. h[n - i] = f[n - i]
      BY <1>3, <2>2
    <2> QED BY <1>1, <2>1, <2>3
  <1> HIDE DEF T
  <1>4. 0..n \subseteq T
    BY <1>1, <1>2, <1>3, Induction
  <1> USE DEF T
  <1>5. n \in T
    BY <1>1, <1>4
  <1> QED BY <1>1, <1>5

\* ... so that any such chain of lines tells what the lines of a text are.
LEMMA LinesAre ==
    ASSUME NEW text \in Seq(Tokens), NEW h, Chain(text, h)
    PROVE  Lines(text) = h[1]
  <1>1. PICK f : Chain(text, f) /\ Lines(text) = f[1]
    BY LinesChain
  <1> QED BY <1>1, ChainUnique

LEMMA LinesType == ASSUME NEW text \in Seq(Tokens) PROVE Lines(text) \in LineSeqs
  BY LinesChain, LenProperties

LEMMA LinesOfNone == Lines(<<>>) = <<(<<>>)>>
  <1> DEFINE h == [k \in 1..1 |-> <<(<<>>)>>]
  <1>1. <<>> \in Seq(Tokens) /\ Len(<<>>) = 0
    OBVIOUS
  <1>2. Chain(<<>>, h)
    BY <1>1 DEF Chain
  <1> HIDE DEF h
  <1>3. Lines(<<>>) = h[1]
    BY <1>1, <1>2, LinesAre
  <1> QED BY <1>3 DEF h

LEMMA LinesOfPut ==
    ASSUME NEW token \in Tokens, NEW text \in Seq(Tokens)
    PROVE  Lines(<<token>> \o text) = Put(token, Lines(text))
  <1>1. PICK n \in Nat : n = Len(text)
    BY LenProperties
  <1>2. PICK more \in Seq(Tokens) : more = <<token>> \o text
    BY ConsProperties
  <1>3. /\ Len(more) = n + 1 /\ more[1] = token
        /\ \A k \in 2..(n + 1) : more[k] = text[k - 1]
    <2>1. \A k \in 1..n : more[k + 1] = text[k]
      BY <1>1, <1>2, ConsProperties
    <2>2. ASSUME NEW k \in 2..(n + 1) PROVE more[k] = text[k - 1]
      <3>1. k - 1 \in 1..n /\ k - 1 + 1 = k
        BY <1>1
      <3> QED BY <2>1, <3>1
    <2> QED BY <1>1, <1>2, <2>2, ConsProperties
  <1>4. PICK f : Chain(text, f) /\ Lines(text) = f[1]
    BY LinesChain
  <1> DEFINE h == [k \in 1..(n + 2) |-> IF k = 1 THEN Put(token, f[1]) ELSE f[k - 1]]
  <1>5. Chain(more, h)
    <2>1. h[n + 2] = <<(<<>>)>>
      BY <1>1, <1>4 DEF Chain
    <2>2. h[1] = Put(more[1], h[2])
      BY <1>1, <1>3
    <2>3. ASSUME NEW k \in 2..(n + 1) PROVE h[k] = Put(more[k], h[k + 1])
      <3>1. k - 1 \in 1..n /\ k - 1 + 1 = k
        BY <1>1
      <3>2. f[k - 1] = Put(text[k - 1], f[k])
        BY <1>1, <1>4, <3>1 DEF Chain
      <3>3. h[k] = f[k - 1] /\ h[k + 1] = f[k]
        BY <1>1
      <3> QED BY <1>3, <3>2, <3>3
    <2> HIDE DEF h
    <2>4. \A k \in 1..(n + 1) : h[k] = Put(more[k], h[k + 1])
      BY <1>1, <2>2, <2>3
    <2> QED BY <1>1, <1>3, <2>1, <2>4 DEF Chain
  <1>6. h[1] = Put(token, Lines(text))
    BY <1>1, <1>4
  <1> HIDE DEF h
  <1>7. Lines(more) = h[1]
    BY <1>5, LinesAre
  <1> QED BY <1>2, <1>6, <1>7

\* Lines end at a line break and nowhere else.
LEMMA LinesOfTwo ==
    ASSUME NEW a \in Seq(Tokens), NEW q \in Seq(Tokens)
    PROVE  Lines(a \o <<NewLine>> \o q) = Lines(a) \o Lines(q)
  <1>1. PICK n \in Nat : n = Len(a)
    BY LenProperties
  <1>2. PICK m \in Nat : m = Len(q)
    BY LenProperties
  <1>3. PICK text \in Seq(Tokens) : text = a \o <<NewLine>> \o q
    <2>1. <<NewLine>> \in Seq(Tokens)
      BY NewLineToken, ConsProperties
    <2>2. a \o <<NewLine>> \in Seq(Tokens)
      BY <2>1, ConcatProperties
    <2> QED BY <2>2, ConcatProperties
  <1>4. /\ Len(text) = n + 1 + m /\ text[n + 1] = NewLine
        /\ \A k \in 1..n : text[k] = a[k]
        /\ \A k \in (n + 2)..(n + 1 + m) : text[k] = q[k - n - 1]
    BY <1>1, <1>2, <1>3, NewLineToken
  <1>5. PICK f \in [1..(n + 1) -> LineSeqs] : Chain(a, f) /\ Lines(a) = f[1]
    BY <1>1, LinesChain
  <1>6. PICK g \in [1..(m + 1) -> LineSeqs] : Chain(q, g) /\ Lines(q) = g[1]
    BY <1>2, LinesChain
  <1> DEFINE both(k) == f[k] \o g[1]
             h == [k \in 1..(n + m + 2) |-> IF k <= n + 1 THEN both(k) ELSE g[k - n - 1]]
  <1> HIDE DEF both
  <1>7. h[n + m + 2] = <<(<<>>)>>
    <2>1. n + m + 2 > n + 1 /\ n + m + 2 - n - 1 = m + 1
      BY <1>1, <1>2
    <2> QED BY <1>2, <1>6, <2>1 DEF Chain
  <1>8. ASSUME NEW k \in 1..n PROVE h[k] = Put(text[k], h[k + 1])
    <2>1. f[k + 1] \in LineSeqs /\ g[1] \in LineSeqs
      <3> HIDE DEF h
      <3>1. k + 1 \in 1..(n + 1) /\ 1 \in 1..(m + 1)
        BY <1>1, <1>2
      <3> QED BY <3>1
    <2>0. f[k] = Put(a[k], f[k + 1])
      BY <1>1, <1>5 DEF Chain
    <2>2. a[k] \in Tokens
      BY <1>1, ElementOfSeq
    <2>3. Put(a[k], f[k + 1]) \o g[1] = Put(a[k], f[k + 1] \o g[1])
      BY <2>1, <2>2, PutConcat
    <2>4. h[k] = both(k) /\ h[k + 1] = both(k + 1)
      BY <1>1, <1>2
    <2> QED BY <1>4, <2>0, <2>3, <2>4 DEF both
  <1>9. h[n + 1] = Put(text[n + 1], h[n + 2])
    <2>1. h[n + 1] = both(n + 1) /\ h[n + 2] = g[1]
      BY <1>1, <1>2
    <2>2. f[n + 1] = <<(<<>>)>>
      BY <1>1, <1>5 DEF Chain
    <2> QED BY <1>4, <2>1, <2>2 DEF Put, both
  <1>10. ASSUME NEW k \in (n + 2)..(n + 1 + m) PROVE h[k] = Put(text[k], h[k + 1])
    <2>1. PICK j \in 1..m : j = k - n - 1
      <3>1. k - n - 1 \in 1..m
        BY <1>1, <1>2
      <3> QED BY <3>1
    <2>2. k + 1 - n - 1 = j + 1 /\ ~(k <= n + 1) /\ ~(k + 1 <= n + 1)
      BY <1>1, <1>2, <2>1
    <2>3. h[k] = g[j] /\ h[k + 1] = g[j + 1]
      BY <1>1, <1>2, <2>1, <2>2
    <2>4. g[j] = Put(q[j], g[j + 1])
      BY <1>2, <1>6 DEF Chain
    <2> QED BY <1>4, <2>1, <2>3, <2>4
  <1>11. h[1] = Lines(a) \o Lines(q)
    <2>1. h[1] = both(1)
      BY <1>1, <1>2
    <2> QED BY <1>5, <1>6, <2>1 DEF both
  <1> HIDE DEF h
  <1>12. Chain(text, h)
    <2>1. \A k \in 1..(n + 1 + m) : h[k] = Put(text[k], h[k + 1])
      BY <1>1, <1>2, <1>8, <1>9, <1>10
    <2> QED BY <1>1, <1>2, <1>4, <1>7, <2>1 DEF Chain
  <1> QED BY <1>3, <1>11, <1>12, LinesAre

LEMMA LinesOfBroken ==
    \A a, q \in Seq(Tokens) : Lines((a \o <<NewLine>>) \o q) = Lines(a) \o Lines(q)
  BY LinesOfTwo

LEMMA LinesConcat ==
    ASSUME NEW a \in Seq(Seq(Tokens)), NEW b \in Seq(Seq(Tokens))
    PROVE  /\ a \o b \in Seq(Seq(Tokens)) /\ Len(a \o b) = Len(a) + Len(b)
           /\ \A k \in 1..Len(a) : (a \o b)[k] = a[k]
           /\ \A k \in 1..Len(b) : (a \o b)[Len(a) + k] = b[k]
  <1>1. PICK n \in Nat, m \in Nat : n = Len(a) /\ m = Len(b)
    BY LenProperties
  <1>2. /\ a \o b \in Seq(Seq(Tokens)) /\ Len(a \o b) = n + m
        /\ \A k \in 1..(n + m) : (a \o b)[k] = IF k <= n THEN a[k] ELSE b[k - n]
    BY <1>1, ConcatProperties
  <1>3. ASSUME NEW k \in 1..n PROVE (a \o b)[k] = a[k]
    BY <1>2
  <1>4. ASSUME NEW k \in 1..m PROVE (a \o b)[n + k] = b[k]
    <2>1. n + k \in 1..(n + m) /\ ~(n + k <= n) /\ n + k - n = k
      OBVIOUS
    <2> QED BY <1>2, <2>1
  <1> QED BY <1>1, <1>2, <1>3, <1>4

LEMMA LinesOfOne ==
    ASSUME NEW a \in Seq(Tokens), \A k \in 1..Len(a) : a[k] # NewLine
    PROVE  Lines(a) = <<a>>
  <1>1. PICK n \in Nat : n = Len(a)
    BY LenProperties
  <1> DEFINE rest(k) == SubSeq(a, k, n)
             h == [k \in 1..(n + 1) |-> <<rest(k)>>]
  <1>2. rest(n + 1) = <<>> /\ rest(1) = a
    BY <1>1, SubSeqEmpty, SubSeqFull
  <1>3. ASSUME NEW k \in 1..n PROVE rest(k) = <<a[k]>> \o rest(k + 1)
    <2>1. n \in k..Len(a) /\ k \in 1..Len(a)
      BY <1>1
    <2> QED BY <2>1, SubSeqRecursiveFirst
  <1> HIDE DEF rest
  <1>4. ASSUME NEW k \in 1..n PROVE h[k] = Put(a[k], h[k + 1])
    <2>1. a[k] # NewLine
      BY <1>1
    <2>2. h[k] = <<rest(k)>> /\ h[k + 1] = <<rest(k + 1)>>
      BY <1>1
    <2>3. PICK r : r = rest(k + 1)
      OBVIOUS
    <2>4. PICK l : l = <<a[k]>> \o r
      OBVIOUS
    <2>5. Put(a[k], <<r>>) = <<l>> \o Tail(<<r>>)
      BY <2>1, <2>4 DEF Put
    <2>6. <<l>> \o Tail(<<r>>) = <<l>>
      OBVIOUS
    <2> QED BY <1>3, <2>2, <2>3, <2>4, <2>5, <2>6
  <1>5. h[n + 1] = <<(<<>>)>> /\ h[1] = <<a>>
    BY <1>1, <1>2
  <1> HIDE DEF h
  <1>6. Chain(a, h)
    BY <1>1, <1>4, <1>5 DEF Chain
  <1> QED BY <1>5, <1>6, LinesAre

LEMMA PutProperties ==
    ASSUME NEW token \in Tokens, NEW lines \in LineSeqs
    PROVE  /\ Len(lines) \in Nat \ {0} /\ lines[1] \in Seq(Tokens)
           /\ token = NewLine =>
                 /\ Len(Put(token, lines)) = Len(lines) + 1
                 /\ Put(token, lines)[1] = <<>>
                 /\ \A l \in 1..Len(lines) : Put(token, lines)[l + 1] = lines[l]
           /\ token # NewLine =>
                 /\ Len(Put(token, lines)) = Len(lines)
                 /\ Put(token, lines)[1] = <<token>> \o lines[1]
                 /\ \A l \in 2..Len(lines) : Put(token, lines)[l] = lines[l]
  <1>1. lines \in Seq(Seq(Tokens)) /\ lines # <<>>
    BY DEF LineSeqs
  <1>2. Len(lines) \in Nat \ {0} /\ lines[1] \in Seq(Tokens) /\ Head(lines) = lines[1]
    <2>1. Len(lines) \in Nat \ {0}
      BY <1>1, EmptySeq
    <2> QED BY <1>1, <2>1, ElementOfSeq
  <1>3. ASSUME token = NewLine
        PROVE  /\ Len(Put(token, lines)) = Len(lines) + 1
               /\ Put(token, lines)[1] = <<>>
               /\ \A l \in 1..Len(lines) : Put(token, lines)[l + 1] = lines[l]
    <2>1. PICK none \in Seq(Tokens) : none = <<>>
      BY EmptySeq
    <2>2. Put(token, lines) = <<none>> \o lines
      BY <1>3, <2>1 DEF Put
    <2> QED BY <1>1, <2>1, <2>2, ConsProperties
  <1>4. ASSUME token # NewLine
        PROVE  /\ Len(Put(token, lines)) = Len(lines)
               /\ Put(token, lines)[1] = <<token>> \o lines[1]
               /\ \A l \in 2..Len(lines) : Put(token, lines)[l] = lines[l]
    <2>1. PICK line \in Seq(Tokens) : line = <<token>> \o lines[1]
      BY <1>2, ConsProperties
    <2>2. Put(token, lines) = <<line>> \o Tail(lines)
      BY <1>2, <1>4, <2>1 DEF Put
    <2>3. PICK tail \in Seq(Seq(Tokens)) : tail = Tail(lines)
      BY <1>1, HeadTailProperties
    <2>4. Len(tail) = Len(lines) - 1 /\ \A i \in 1..Len(tail) : tail[i] = lines[i + 1]
      BY <1>1, <2>3, HeadTailProperties
    <2>5. /\ Len(<<line>> \o tail) = Len(tail) + 1 /\ (<<line>> \o tail)[1] = line
          /\ \A l \in 1..Len(tail) : (<<line>> \o tail)[l + 1] = tail[l]
      BY ConsProperties
    <2>6. ASSUME NEW l \in 2..Len(lines) PROVE Put(token, lines)[l] = lines[l]
      <3>1. l - 1 \in 1..Len(tail) /\ l - 1 + 1 = l
        BY <1>2, <2>4
      <3> QED BY <2>2, <2>3, <2>4, <2>5, <3>1
    <2> QED BY <1>2, <2>1, <2>2, <2>3, <2>4, <2>5, <2>6
  <1> QED BY <1>2, <1>3, <1>4

\* A stretch of a text: what stands in it behind the first off tokens.
Stretch(text, off, part) ==
    /\ off + Len(part) <= Len(text)
    /\ \A i \in 1..Len(part) : part[i] = text[off + i]

\* Every line is a stretch of its text.
LEMMA LinesAreStretches ==
    ASSUME NEW text \in Seq(Tokens), NEW l \in 1..Len(Lines(text))
    PROVE  Lines(text)[l] \in Seq(Tokens) /\ \E off \in Nat : Stretch(text, off, Lines(text)[l])
  <1>1. PICK n \in Nat : n = Len(text)
    BY LenProperties
  <1>2. PICK h \in [1..(n + 1) -> LineSeqs] : Chain(text, h) /\ Lines(text) = h[1]
    BY <1>1, LinesChain
  <1> DEFINE Parts(k) ==
                 \A j \in 1..Len(h[k]) : \E off \in (k - 1)..n :
                    (j = 1 => off = k - 1) /\ Stretch(text, off, h[k][j])
             T == {i \in 0..n : Parts(n + 1 - i)}
  <1>3. Parts(n + 1)
    <2>1. Len(h[n + 1]) = 1 /\ h[n + 1][1] = <<>>
      BY <1>1, <1>2 DEF Chain
    <2>2. Stretch(text, n, <<>>)
      BY <1>1 DEF Stretch
    <2> QED BY <2>1, <2>2
  <1>4. ASSUME NEW k \in 1..n, Parts(k + 1) PROVE Parts(k)
    <2>1. PICK lines \in LineSeqs : lines = h[k + 1]
      <3>1. k + 1 \in 1..(n + 1)
        OBVIOUS
      <3> QED BY <3>1
    <2>2. PICK token \in Tokens : token = text[k]
      BY <1>1, ElementOfSeq
    <2>6. h[k] = Put(token, lines)
      BY <1>1, <1>2, <2>1, <2>2 DEF Chain
    <2>7. /\ Len(lines) \in Nat \ {0} /\ lines[1] \in Seq(Tokens)
          /\ token = NewLine =>
                /\ Len(h[k]) = Len(lines) + 1 /\ h[k][1] = <<>>
                /\ \A j \in 1..Len(lines) : h[k][j + 1] = lines[j]
          /\ token # NewLine =>
                /\ Len(h[k]) = Len(lines) /\ h[k][1] = <<token>> \o lines[1]
                /\ \A j \in 2..Len(lines) : h[k][j] = lines[j]
      <3> HIDE DEF Parts, T
      <3>1. PICK now : now = h[k]
        OBVIOUS
      <3>2. now = Put(token, lines)
        BY <2>6, <3>1
      <3>3. Len(lines) \in Nat \ {0} /\ lines[1] \in Seq(Tokens)
        BY PutProperties
      <3>4. token = NewLine =>
                /\ Len(now) = Len(lines) + 1 /\ now[1] = <<>>
                /\ \A j \in 1..Len(lines) : now[j + 1] = lines[j]
        BY <3>2, PutProperties
      <3>5. token # NewLine =>
                /\ Len(now) = Len(lines) /\ now[1] = <<token>> \o lines[1]
                /\ \A j \in 2..Len(lines) : now[j] = lines[j]
        BY <3>2, PutProperties
      <3> QED BY <3>1, <3>3, <3>4, <3>5
    <2>3. \A j \in 1..Len(lines) : \E off \in k..n : (j = 1 => off = k) /\ Stretch(text, off, lines[j])
      BY <1>4, <2>1
    <2>4. CASE text[k] = NewLine
      <3>1. Len(h[k]) = Len(lines) + 1 /\ h[k][1] = <<>> /\ \A j \in 1..Len(lines) : h[k][j + 1] = lines[j]
        BY <2>2, <2>4, <2>7
      <3>2. Stretch(text, k - 1, <<>>)
        BY <1>1 DEF Stretch
      <3>3. ASSUME NEW j \in 1..Len(h[k]), j # 1 PROVE \E off \in k..n : Stretch(text, off, h[k][j])
        <4>1. PICK i \in 1..Len(lines) : j = i + 1
          <5>1. Len(lines) \in Nat
            BY <2>7
          <5>2. j - 1 \in 1..Len(lines) /\ j = (j - 1) + 1
            BY <3>1, <3>3, <5>1
          <5> QED BY <5>2
        <4> QED BY <2>3, <3>1, <4>1
      <3> QED BY <3>1, <3>2, <3>3
    <2>5. CASE text[k] # NewLine
      <3>1. /\ Len(h[k]) = Len(lines) /\ h[k][1] = <<text[k]>> \o lines[1]
            /\ \A j \in 2..Len(lines) : h[k][j] = lines[j]
            /\ Len(lines) \in Nat \ {0} /\ lines[1] \in Seq(Tokens)
        BY <2>2, <2>5, <2>7
      <3>2. Stretch(text, k, lines[1])
        BY <2>3, <3>1
      <3>3. PICK line \in Seq(Tokens) : line = <<text[k]>> \o lines[1]
        BY <2>2, <3>1, ConsProperties
      <3>4. /\ Len(line) = Len(lines[1]) + 1 /\ line[1] = text[k] /\ Len(lines[1]) \in Nat
            /\ \A i \in 1..Len(lines[1]) : line[i + 1] = lines[1][i]
        BY <2>2, <3>1, <3>3, ConsProperties, LenProperties
      <3>5. Stretch(text, k - 1, line)
        <4>1. k - 1 + Len(line) <= Len(text)
          BY <3>2, <3>4 DEF Stretch
        <4>2. ASSUME NEW i \in 1..Len(line) PROVE line[i] = text[k - 1 + i]
          <5>1. CASE i = 1
            BY <3>4, <5>1
          <5>2. CASE i # 1
            <6>1. i - 1 \in 1..Len(lines[1]) /\ i - 1 + 1 = i /\ k + (i - 1) = k - 1 + i
              BY <3>4, <5>2
            <6>2. lines[1][i - 1] = text[k + (i - 1)]
              BY <3>2, <6>1 DEF Stretch
            <6> QED BY <3>4, <6>1, <6>2
          <5> QED BY <5>1, <5>2
        <4> QED BY <4>1, <4>2 DEF Stretch
      <3>6. ASSUME NEW j \in 2..Len(h[k]) PROVE \E off \in k..n : Stretch(text, off, h[k][j])
        BY <2>3, <3>1
      <3> HIDE DEF T
      <3>7. ASSUME NEW j \in 1..Len(h[k])
            PROVE  \E off \in (k - 1)..n : (j = 1 => off = k - 1) /\ Stretch(text, off, h[k][j])
        <4>1. CASE j = 1
          <5>1. k - 1 \in (k - 1)..n /\ Stretch(text, k - 1, h[k][1])
            BY <2>2, <3>1, <3>3, <3>5, SMTT(30)
          <5> QED BY <4>1, <5>1
        <4>2. CASE j # 1
          <5>1. j \in 2..Len(h[k])
            BY <3>1, <4>2
          <5>2. PICK off \in k..n : Stretch(text, off, h[k][j])
            BY <3>6, <5>1
          <5>3. off \in (k - 1)..n
            OBVIOUS
          <5> QED BY <4>2, <5>2, <5>3
        <4> QED BY <4>1, <4>2
      <3> QED BY <3>7
    <2> QED BY <2>4, <2>5
  <1> HIDE DEF Parts
  <1>5. 0 \in T
    BY <1>3
  <1>6. ASSUME NEW i \in 0..(n - 1), i \in T PROVE i + 1 \in T
    <2>1. n - i \in 1..n /\ n + 1 - i = n - i + 1 /\ n + 1 - (i + 1) = n - i
      OBVIOUS
    <2>2. Parts(n - i + 1)
      BY <1>6, <2>1
    <2>3. Parts(n - i)
      BY <1>4, <2>1, <2>2
    <2> QED BY <2>1, <2>3
  <1> HIDE DEF T
  <1>7. 0..n \subseteq T
    BY <1>5, <1>6, Induction
  <1> USE DEF T
  <1>8. Parts(1)
    <2>1. n \in T
      BY <1>7
    <2> QED BY <2>1
  <1>9. \E off \in Nat : Stretch(text, off, Lines(text)[l])
    BY <1>2, <1>8 DEF Parts
  <1>10. Lines(text)[l] \in Seq(Tokens)
    BY LinesType, ElementOfSeq DEF LineSeqs
  <1> QED BY <1>9, <1>10

-----------------------------------------------------------------------------
\* LongestBacktickRun, token by token.
Scan(run, token) ==
    LET current == IF token = Backtick THEN run.current + 1 ELSE 0
    IN [current |-> current,
        longest |-> IF current > run.longest THEN current ELSE run.longest]

Counts == [current : Nat, longest : Nat]

LEMMA ScanType == ASSUME NEW run \in Counts, NEW token PROVE Scan(run, token) \in Counts
  BY DEF Scan, Counts

LEMMA ScanChain ==
    ASSUME NEW text \in Seq(Tokens)
    PROVE  \E c \in [0..Len(text) -> Counts] :
              /\ c[0] = [current |-> 0, longest |-> 0]
              /\ \A k \in 1..Len(text) : c[k] = Scan(c[k - 1], text[k])
              /\ LongestBacktickRun(text) = c[Len(text)].longest
  <1> DEFINE base == [current |-> 0, longest |-> 0]
  <1>1. PICK n \in Nat : n = Len(text) /\ DOMAIN text = 1..n
    BY LenProperties
  <1>2. PICK G \in [(1..n) \X Counts -> Counts] :
           \A i \in 1..n, run \in Counts : G[i, run] = Scan(run, text[i])
    <2> DEFINE G == [p \in (1..n) \X Counts |-> Scan(p[2], text[p[1]])]
    <2>1. G \in [(1..n) \X Counts -> Counts]
      BY ScanType
    <2>2. \A i \in 1..n, run \in Counts : G[i, run] = Scan(run, text[i])
      OBVIOUS
    <2> QED BY <2>1, <2>2
  <1>3. base \in Counts
    BY DEF Counts
  <1> HIDE DEF base
  <1>4. PICK g \in [SUBSET (1..n) -> Counts] : FoldsLeft(n, base, G, g)
    BY <1>2, <1>3, FoldLeftExists
  <1>5. ASSUME NEW s \in SUBSET (1..n)
        PROVE  g[s] = IF s = {} THEN base ELSE Scan(g[s \ {Max(s)}], text[Max(s)])
    <2>1. CASE s = {}
      BY <1>4, <2>1 DEF FoldsLeft
    <2>2. CASE s # {}
      <3>1. Max(s) \in s
        BY <2>2, EndsOfInterval
      <3>2. s \ {Max(s)} \in SUBSET (1..n)
        OBVIOUS
      <3>3. g[s \ {Max(s)}] \in Counts
        BY <3>2
      <3> QED BY <1>2, <1>4, <2>2, <3>1, <3>3 DEF FoldsLeft
    <2> QED BY <2>1, <2>2
  <1> DEFINE body(it) == [s \in SUBSET (DOMAIN text) |->
                             IF s = {} THEN base ELSE Scan(it[s \ {Max(s)}], text[Max(s)])]
             iter == CHOOSE it : it = body(it)
  <1>6. g = body(g)
    BY <1>1, <1>5
  <1>7. LongestBacktickRun(text) = iter[DOMAIN text].longest
    BY Zenon DEF LongestBacktickRun, FoldLeft, MapThenFoldSet, Scan, base
  <1> HIDE DEF body
  <1>8. iter = body(iter)
    BY <1>6, Zenon
  <1> USE DEF body
  <1> DEFINE c == [k \in 0..n |-> iter[1..k]]
  <1>9. c[0] = base
    <2>1. 1..0 = {} /\ {} \in SUBSET (1..n)
      OBVIOUS
    <2>2. iter[{}] = base
      BY <1>1, <1>8, <2>1
    <2> HIDE DEF iter, base, body
    <2>3. c[0] = iter[1..0]
      BY <1>1
    <2> QED BY <2>1, <2>2, <2>3
  <1>10. ASSUME NEW k \in 1..n PROVE c[k] = Scan(c[k - 1], text[k])
    <2>1. 1..k \in SUBSET (1..n) /\ 1..k # {}
      <3> HIDE DEF c, iter, base, body
      <3>1. k \in 1..k
        OBVIOUS
      <3>2. 1..k \subseteq 1..n
        OBVIOUS
      <3> QED BY <3>1, <3>2
    <2>2. Max(1..k) = k
      <3>1. Max(1..k) \in 1..k /\ \A y \in 1..k : Max(1..k) >= y
        BY <2>1, EndsOfInterval
      <3> QED BY <3>1
    <2>3. (1..k) \ {k} = 1..(k - 1)
      OBVIOUS
    <2>4. iter[1..k] = Scan(iter[1..(k - 1)], text[k])
      BY <1>1, <1>8, <2>1, <2>2, <2>3
    <2> QED BY <2>4
  <1> HIDE DEF c, iter, base
  <1>11. ASSUME NEW k \in 0..n PROVE c[k] \in Counts
    <2> DEFINE T == {i \in 0..n : c[i] \in Counts}
    <2>1. 0 \in T
      BY <1>3, <1>9
    <2>2. ASSUME NEW i \in 0..(n - 1), i \in T PROVE i + 1 \in T
      <3>1. i + 1 \in 1..n /\ (i + 1) - 1 = i
        OBVIOUS
      <3>2. c[i + 1] = Scan(c[i], text[i + 1])
        BY <1>10, <3>1
      <3>3. c[i + 1] \in Counts
        BY <2>2, <3>2, ScanType
      <3> QED BY <3>3
    <2> HIDE DEF T
    <2>3. 0..n \subseteq T
      BY <2>1, <2>2, Induction
    <2> USE DEF T
    <2> QED BY <2>3
  <1>12. c \in [0..n -> Counts]
    BY <1>11 DEF c
  <1>13. LongestBacktickRun(text) = c[n].longest
    BY <1>1, <1>7 DEF c
  <1> QED BY <1>1, <1>9, <1>10, <1>12, <1>13 DEF base

\* r backticks stand behind the first off tokens.
BackticksAt(text, off, r) == \A i \in 1..r : text[off + i] = Backtick

\* LongestBacktickRun returns the length of a run of backticks in the text, and
\* there is no longer one (LongestBacktickRun of fence.go).
THEOREM LongestRun ==
    ASSUME NEW text \in Seq(Tokens)
    PROVE  /\ LongestBacktickRun(text) \in Nat
           /\ \E off \in Nat : /\ off + LongestBacktickRun(text) <= Len(text)
                               /\ BackticksAt(text, off, LongestBacktickRun(text))
           /\ \A off, r \in Nat : off + r <= Len(text) /\ BackticksAt(text, off, r)
                                      => r <= LongestBacktickRun(text)
  <1>1. PICK n \in Nat : n = Len(text)
    BY LenProperties
  <1>2. PICK c \in [0..n -> Counts] :
           /\ c[0] = [current |-> 0, longest |-> 0]
           /\ \A k \in 1..n : c[k] = Scan(c[k - 1], text[k])
           /\ LongestBacktickRun(text) = c[n].longest
    BY <1>1, ScanChain
  <1> DEFINE AtEnd(e, current) ==
                 /\ current \in 0..e /\ BackticksAt(text, e - current, current)
                 /\ \A off, r \in Nat : off + r = e /\ BackticksAt(text, off, r) => r <= current
             Within(e, longest) ==
                 /\ \E off \in Nat : off + longest <= e /\ BackticksAt(text, off, longest)
                 /\ \A off, r \in Nat : off + r <= e /\ BackticksAt(text, off, r) => r <= longest
             T == {e \in 0..n : AtEnd(e, c[e].current) /\ Within(e, c[e].longest)}
  <1>3. 0 \in T
    <2>1. c[0].current = 0 /\ c[0].longest = 0
      BY <1>2
    <2>2. AtEnd(0, 0)
      BY DEF BackticksAt
    <2>3. Within(0, 0)
      BY DEF BackticksAt
    <2> QED BY <2>1, <2>2, <2>3
  <1>4. ASSUME NEW e \in 0..(n - 1), e \in T PROVE e + 1 \in T
    <2>1. PICK run \in Counts : run = c[e]
      OBVIOUS
    <2>2. PICK next \in Counts : next = c[e + 1]
      OBVIOUS
    <2>3. next = Scan(run, text[e + 1])
      <3>1. e + 1 \in 1..n /\ (e + 1) - 1 = e
        OBVIOUS
      <3> QED BY <1>2, <2>1, <2>2, <3>1
    <2>4. AtEnd(e, run.current) /\ Within(e, run.longest)
      BY <1>4, <2>1
    <2>5. AtEnd(e + 1, next.current)
      <3>1. CASE text[e + 1] = Backtick
        <4>1. next.current = run.current + 1
          BY <2>3, <3>1 DEF Scan
        <4>2. next.current \in 0..(e + 1) /\ e + 1 - next.current = e - run.current
          BY <2>4, <4>1
        <4>3. BackticksAt(text, e + 1 - next.current, next.current)
          <5>1. ASSUME NEW i \in 1..next.current PROVE text[e - run.current + i] = Backtick
            <6>1. CASE i = next.current
              <7>1. e - run.current + i = e + 1
                BY <2>4, <4>1, <6>1
              <7> QED BY <3>1, <7>1
            <6>2. CASE i # next.current
              BY <2>4, <4>1, <4>2, <6>2 DEF BackticksAt
            <6> QED BY <6>1, <6>2
          <5> QED BY <4>2, <5>1 DEF BackticksAt
        <4>4. ASSUME NEW off \in Nat, NEW r \in Nat, off + r = e + 1, BackticksAt(text, off, r)
              PROVE  r <= next.current
          <5>1. CASE r = 0
            BY <4>2, <5>1
          <5>2. CASE r # 0
            <6>1. off + (r - 1) = e /\ r - 1 \in Nat /\ BackticksAt(text, off, r - 1)
              BY <4>4, <5>2, SMTT(30) DEF BackticksAt
            <6>2. r - 1 <= run.current
              BY <2>4, <6>1
            <6> QED BY <2>4, <4>1, <6>2
          <5> QED BY <5>1, <5>2
        <4>5. \A off, r \in Nat :
                 off + r = e + 1 /\ BackticksAt(text, off, r) => r <= next.current
          BY <4>4
        <4>6. AtEnd(e + 1, next.current)
          <5> HIDE DEF T, Within
          <5>1. PICK r : r = next.current
            OBVIOUS
          <5>2. r \in 0..(e + 1) /\ BackticksAt(text, e + 1 - r, r)
            BY <4>2, <4>3, <5>1
          <5>3. \A off, i \in Nat : off + i = e + 1 /\ BackticksAt(text, off, i) => i <= r
            BY <4>5, <5>1
          <5>4. AtEnd(e + 1, r)
            BY <5>2, <5>3
          <5> QED BY <5>1, <5>4
        <4> QED BY <4>6
      <3>2. CASE text[e + 1] # Backtick
        <4>1. next.current = 0
          BY <2>3, <3>2 DEF Scan
        <4>2. ASSUME NEW off \in Nat, NEW r \in Nat, off + r = e + 1, BackticksAt(text, off, r)
              PROVE  r <= 0
          BY <3>2, <4>2 DEF BackticksAt
        <4>3. BackticksAt(text, e + 1, 0)
          BY DEF BackticksAt
        <4> QED BY <4>1, <4>2, <4>3
      <3> QED BY <3>1, <3>2
    <2>6. next.longest = IF next.current > run.longest THEN next.current ELSE run.longest
      BY <2>3 DEF Scan
    <2>7. run.longest \in Nat /\ next.current \in Nat
      BY DEF Counts
    <2>8. Within(e + 1, next.longest)
      <3>1. \E off \in Nat : off + next.longest <= e + 1 /\ BackticksAt(text, off, next.longest)
        <4>1. CASE next.current > run.longest
          <5>1. next.longest = next.current /\ e + 1 - next.current \in Nat
            BY <2>5, <2>6, <4>1
          <5> QED BY <2>5, <5>1
        <4>2. CASE ~(next.current > run.longest)
          BY <2>4, <2>6, <2>7, <4>2
        <4> QED BY <4>1, <4>2
      <3>2. ASSUME NEW off \in Nat, NEW r \in Nat, off + r <= e + 1, BackticksAt(text, off, r)
            PROVE  r <= next.longest
        <4>1. CASE off + r = e + 1
          <5>1. r <= next.current
            BY <2>5, <3>2, <4>1
          <5> QED BY <2>6, <2>7, <5>1
        <4>2. CASE off + r # e + 1
          <5>1. off + r <= e
            BY <3>2, <4>2
          <5>2. r <= run.longest
            BY <2>4, <3>2, <5>1
          <5> QED BY <2>6, <2>7, <5>2
        <4> QED BY <4>1, <4>2
      <3> QED BY <3>1, <3>2
    <2> HIDE DEF AtEnd, Within
    <2> QED BY <2>2, <2>5, <2>8
  <1> HIDE DEF T, AtEnd, Within
  <1>5. 0..n \subseteq T
    BY <1>3, <1>4, Induction
  <1> USE DEF T
  <1>6. Within(n, c[n].longest)
    BY <1>5
  <1>7. c[n].longest \in Nat
    BY DEF Counts
  <1> QED BY <1>1, <1>2, <1>6, <1>7 DEF Within

\* The fence is longer than every run of backticks in the source, and not
\* shorter than four (RequiredFenceLength of fence.go).
THEOREM FenceLength ==
    ASSUME NEW text \in Seq(Tokens), NEW minimum \in Nat
    PROVE  /\ RequiredFenceLength(text, minimum) \in Nat
           /\ RequiredFenceLength(text, minimum) >= minimum
           /\ \A off, r \in Nat : off + r <= Len(text) /\ BackticksAt(text, off, r)
                                      => r < RequiredFenceLength(text, minimum)
  BY LongestRun DEF RequiredFenceLength

-----------------------------------------------------------------------------
\* What a line starts with.
StartsWith(token, n, line) ==
    /\ n \in 0..Len(line) /\ \A i \in 1..n : line[i] = token
    /\ n < Len(line) => line[n + 1] # token

LEMMA LeadingStarts ==
    ASSUME NEW token, NEW line \in Seq(Tokens)
    PROVE  StartsWith(token, Leading(token, line), line)
  <1>1. PICK len \in Nat : len = Len(line)
    BY LenProperties
  <1> DEFINE T == {n \in 0..len : n < len => line[n + 1] # token}
  <1>2. T \subseteq Nat /\ len \in T
    OBVIOUS
  <1>3. PICK n \in T : \A k \in T : n <= k
    BY <1>2, LeastNat
  <1>4. ASSUME NEW i \in 1..n PROVE line[i] = token
    <2>1. i - 1 \in 0..len /\ i - 1 < len /\ i - 1 + 1 = i /\ ~(n <= i - 1)
      OBVIOUS
    <2>2. i - 1 \notin T
      BY <1>3, <2>1
    <2> QED BY <2>1, <2>2
  <1>5. StartsWith(token, n, line)
    BY <1>1, <1>4 DEF StartsWith
  <1>6. \E k \in 0..Len(line) : (\A i \in 1..k : line[i] = token) /\ (k < Len(line) => line[k + 1] # token)
    BY <1>5 DEF StartsWith
  <1> QED BY <1>6 DEF StartsWith, Leading

LEMMA LeadingIs ==
    ASSUME NEW token, NEW line \in Seq(Tokens), NEW n, StartsWith(token, n, line)
    PROVE  Leading(token, line) = n
  <1>1. PICK k : k = Leading(token, line)
    OBVIOUS
  <1>2. StartsWith(token, k, line) /\ Len(line) \in Nat
    BY <1>1, LeadingStarts, LenProperties
  <1>3. ~(k < n) /\ ~(n < k)
    BY <1>2 DEF StartsWith
  <1>4. k \in Int /\ n \in Int
    BY <1>2 DEF StartsWith
  <1> QED BY <1>1, <1>3, <1>4

LEMMA AfterProperties ==
    ASSUME NEW line \in Seq(Tokens), NEW n \in 0..Len(line)
    PROVE  /\ After(n, line) \in Seq(Tokens) /\ Len(After(n, line)) = Len(line) - n
           /\ \A i \in 1..(Len(line) - n) : After(n, line)[i] = line[n + i]
           /\ n = 0 => After(n, line) = line
           /\ n = Len(line) => After(n, line) = <<>>
  <1>1. PICK len \in Nat : len = Len(line)
    BY LenProperties
  <1>2. n \in Nat /\ n + 1 \in 1..(len + 1) /\ \A i \in (n + 1)..len : line[i] \in Tokens
    BY <1>1, ElementOfSeq
  <1> DEFINE rest == SubSeq(line, n + 1, len)
  <1>3. /\ rest \in Seq(Tokens) /\ Len(rest) = IF n + 1 <= len THEN len - (n + 1) + 1 ELSE 0
        /\ \A i \in 1..(len - (n + 1) + 1) : rest[i] = line[n + 1 + i - 1]
    BY <1>1, <1>2, SubSeqProperties
  <1>4. n = 0 => rest = line
    BY <1>1, SubSeqFull
  <1> HIDE DEF rest
  <1>5. Len(rest) = len - n /\ \A i \in 1..(len - n) : rest[i] = line[n + i]
    BY <1>1, <1>2, <1>3
  <1>6. n = len => rest = <<>>
    BY <1>3, <1>5, EmptySeq
  <1> QED BY <1>1, <1>3, <1>4, <1>5, <1>6 DEF After, rest

LEMMA TokensDiffer ==
    /\ Blank # Backtick /\ NewLine # Backtick /\ NewLine # Blank /\ Tilde # Backtick
  BY Zenon DEF Blank, Backtick, NewLine, Tilde

\* A line opens no block unless it has three tokens and starts with a blank, a
\* backtick or a tilde.
LEMMA OpensNone ==
    ASSUME NEW line \in Seq(Tokens),
           Len(line) < 3 \/ (Len(line) > 0 /\ line[1] \notin {Blank, Backtick, Tilde})
    PROVE  ~Opens(line)
  <1>1. PICK len \in Nat : len = Len(line)
    BY LenProperties
  <1>2. PICK indent : indent = Leading(Blank, line)
    OBVIOUS
  <1>3. StartsWith(Blank, indent, line)
    BY <1>2, LeadingStarts
  <1>4. indent \in 0..Len(line)
    BY <1>3 DEF StartsWith
  <1>5. PICK rest \in Seq(Tokens) : rest = After(indent, line)
    BY <1>4, AfterProperties
  <1>6. Len(rest) = len - indent /\ (indent = 0 => rest = line)
    BY <1>1, <1>4, <1>5, AfterProperties
  <1>7. ASSUME NEW marker \in {Backtick, Tilde} PROVE ~(Leading(marker, rest) >= 3)
    <2>1. PICK run : run = Leading(marker, rest)
      OBVIOUS
    <2>2. StartsWith(marker, run, rest)
      BY <2>1, LeadingStarts
    <2>3. run < 3
      <3>1. CASE Len(line) < 3
        BY <1>1, <1>4, <1>6, <2>2, <3>1 DEF StartsWith
      <3>2. CASE Len(line) > 0 /\ line[1] \notin {Blank, Backtick, Tilde}
        <4>1. indent = 0
          BY <1>1, <1>3, <3>2 DEF StartsWith
        <4>2. line[1] # marker
          BY <3>2
        <4> QED BY <1>1, <1>6, <2>2, <3>2, <4>1, <4>2 DEF StartsWith
      <3> QED BY <3>1, <3>2
    <2>4. run \in Int
      BY <1>1, <1>4, <1>6, <2>2 DEF StartsWith
    <2> QED BY <2>1, <2>3, <2>4
  <1>8. ~(Leading(Backtick, rest) >= 3) /\ ~(Leading(Tilde, rest) >= 3)
    BY <1>7
  <1> QED BY <1>2, <1>5, <1>8 DEF Opens

Fence(m) == [i \in 1..m |-> Backtick]

\* A fence opens a block, and ends it.
LEMMA FenceOpensAndCloses ==
    ASSUME NEW m \in Nat, m >= 4
    PROVE  /\ Fence(m) \in Seq(Tokens) /\ Lines(Fence(m)) = <<Fence(m)>>
           /\ After(Leading(Blank, Fence(m)), Fence(m)) = Fence(m)
           /\ Head(Fence(m)) = Backtick /\ Leading(Backtick, Fence(m)) = m
           /\ Opens(Fence(m)) /\ Closes(Fence(m), Fence(m))
  <1>1. PICK fence \in Seq(Tokens) : fence = Fence(m) /\ Len(fence) = m /\ \A i \in 1..m : fence[i] = Backtick
    <2>1. Fence(m) \in Seq(Tokens) /\ Len(Fence(m)) = m /\ \A i \in 1..m : Fence(m)[i] = Backtick
      BY DEF Fence, Tokens
    <2> QED BY <2>1
  <1>2. Lines(fence) = <<fence>>
    BY <1>1, TokensDiffer, LinesOfOne
  <1>3. StartsWith(Blank, 0, fence)
    <2>1. fence[1] # Blank
      BY <1>1, TokensDiffer
    <2> QED BY <1>1, <2>1 DEF StartsWith
  <1>4. Leading(Blank, fence) = 0
    BY <1>3, LeadingIs
  <1>5. After(0, fence) = fence /\ After(m, fence) = <<>>
    <2>1. 0 \in 0..Len(fence) /\ m \in 0..Len(fence)
      BY <1>1
    <2> QED BY <1>1, <2>1, AfterProperties
  <1>6. StartsWith(Backtick, m, fence)
    BY <1>1 DEF StartsWith
  <1>7. Leading(Backtick, fence) = m
    BY <1>6, LeadingIs
  <1>8. ToSet(After(0 + m, fence)) = {}
    <2>1. 0 + m = m
      OBVIOUS
    <2>2. \A x \in ToSet(<<>>) : FALSE
      <3>1. <<>> \in Seq(Tokens) /\ Len(<<>>) = 0
        BY EmptySeq
      <3> QED BY <3>1, LenProperties DEF ToSet
    <2> QED BY <1>5, <2>1, <2>2
  <1>9. 0 <= 3 /\ m >= 3 /\ m >= m
    OBVIOUS
  <1>10. Opens(fence)
    BY <1>4, <1>5, <1>7, <1>8, <1>9 DEF Opens
  <1>11. Head(fence) = Backtick
    BY <1>1
  <1>12. Closes(fence, fence)
    BY <1>4, <1>5, <1>7, <1>8, <1>9, <1>11 DEF Closes
  <1> QED BY <1>1, <1>2, <1>4, <1>5, <1>7, <1>10, <1>11, <1>12

\* No line of a text ends a block whose fence is longer than every run of
\* backticks in the text.
LEMMA NoLineCloses ==
    ASSUME NEW text \in Seq(Tokens), NEW m \in Nat, m >= 4,
           \A off, r \in Nat : off + r <= Len(text) /\ BackticksAt(text, off, r) => r < m,
           NEW l \in 1..Len(Lines(text))
    PROVE  ~Closes(Lines(text)[l], Fence(m))
  <1> SUFFICES ASSUME Closes(Lines(text)[l], Fence(m)) PROVE FALSE
    OBVIOUS
  <1>1. PICK line \in Seq(Tokens) : line = Lines(text)[l]
    BY LinesAreStretches
  <1>2. PICK start \in Nat : Stretch(text, start, line)
    BY <1>1, LinesAreStretches
  <1>3. PICK len \in Nat : len = Len(line)
    BY LenProperties
  <1>4. PICK indent : indent = Leading(Blank, line)
    OBVIOUS
  <1>5. indent \in 0..len
    BY <1>3, <1>4, LeadingStarts DEF StartsWith
  <1>6. PICK rest \in Seq(Tokens) : rest = After(indent, line)
    BY <1>3, <1>5, AfterProperties
  <1>7. Len(rest) = len - indent /\ \A i \in 1..(len - indent) : rest[i] = line[indent + i]
    BY <1>3, <1>5, <1>6, AfterProperties
  <1>8. PICK run : run = Leading(Backtick, rest)
    OBVIOUS
  <1>9. run \in 0..(len - indent) /\ \A i \in 1..run : rest[i] = Backtick
    BY <1>7, <1>8, LeadingStarts DEF StartsWith
  <1>10. run >= m
    <2>1. /\ After(Leading(Blank, Fence(m)), Fence(m)) = Fence(m)
          /\ Head(Fence(m)) = Backtick /\ Leading(Backtick, Fence(m)) = m
      BY FenceOpensAndCloses
    <2> QED BY <1>1, <1>4, <1>6, <1>8, <2>1 DEF Closes
  <1>11. start + indent \in Nat /\ start + indent + run <= Len(text) /\ Len(text) \in Nat
    BY <1>2, <1>3, <1>5, <1>9, LenProperties DEF Stretch
  <1>12. BackticksAt(text, start + indent, run)
    <2>1. ASSUME NEW i \in 1..run PROVE text[start + indent + i] = Backtick
      <3>1. i \in 1..(len - indent) /\ indent + i \in 1..len /\ start + (indent + i) = start + indent + i
        BY <1>5, <1>9
      <3>2. line[indent + i] = Backtick
        BY <1>7, <1>9, <3>1
      <3> QED BY <1>2, <1>3, <3>1, <3>2 DEF Stretch
    <2> QED BY <2>1 DEF BackticksAt
  <1>13. run \in Nat
    BY <1>5, <1>9
  <1>14. run < m
    BY <1>11, <1>12, <1>13
  <1> QED BY <1>10, <1>13, <1>14

-----------------------------------------------------------------------------
\* FlattenSeq, piece by piece.
LEMMA Flattens ==
    ASSUME NEW S, NEW pieces \in Seq(Seq(S))
    PROVE  \E f \in [0..Len(pieces) -> Seq(S)] :
              /\ f[0] = <<>> /\ \A i \in 1..Len(pieces) : f[i] = f[i - 1] \o pieces[i]
              /\ FlattenSeq(pieces) = f[Len(pieces)]
  <1>1. PICK n \in Nat : n = Len(pieces) /\ DOMAIN pieces = 1..n
    BY LenProperties
  <1>2. \A i \in 1..n : pieces[i] \in Seq(S)
    BY <1>1, ElementOfSeq
  <1>3. <<>> \in Seq(S)
    BY EmptySeq
  <1> DEFINE A == Seq(S)
  <1>4. PICK none \in A : none = <<>>
    BY <1>3
  <1>5. PICK G \in [(1..n) \X A -> A] : \A i \in 1..n, x \in A : G[i, x] = x \o pieces[i]
    <2> DEFINE G == [p \in (1..n) \X A |-> p[2] \o pieces[p[1]]]
    <2>1. G \in [(1..n) \X A -> A]
      BY <1>2, ConcatProperties
    <2>2. \A i \in 1..n, x \in A : G[i, x] = x \o pieces[i]
      OBVIOUS
    <2> QED BY <2>1, <2>2
  <1> HIDE DEF A
  <1>6. PICK g \in [SUBSET (1..n) -> A] : FoldsLeft(n, none, G, g)
    BY <1>4, <1>5, FoldLeftExists
  <1> DEFINE f == [i \in 0..n |-> g[1..i]]
  <1>7. f \in [0..n -> A]
    OBVIOUS
  <1>8. f[0] = none
    <2>1. 1..0 = {} /\ {} \in SUBSET (1..n)
      OBVIOUS
    <2>2. g[{}] = none
      BY <1>6, <2>1 DEF FoldsLeft
    <2> QED BY <2>1, <2>2
  <1>9. ASSUME NEW i \in 1..n PROVE f[i] = f[i - 1] \o pieces[i]
    <2>1. 1..i \subseteq 1..n
      OBVIOUS
    <2>2. i \in 1..i
      OBVIOUS
    <2>3. Max(1..i) = i
      <3>1. Max(1..i) \in 1..i /\ \A y \in 1..i : Max(1..i) >= y
        BY <2>1, <2>2, EndsOfInterval
      <3> QED BY <3>1
    <2>4. (1..i) \ {i} = 1..(i - 1)
      OBVIOUS
    <2>5. g[1..i] = G[i, g[1..(i - 1)]]
      BY <1>6, <2>1, <2>2, <2>3, <2>4 DEF FoldsLeft
    <2>6. 1..(i - 1) \in SUBSET (1..n)
      OBVIOUS
    <2>7. PICK x \in A : x = g[1..(i - 1)]
      BY <2>6
    <2>8. f[i] = g[1..i] /\ f[i - 1] = x
      BY <2>7
    <2> HIDE DEF f
    <2>9. G[i, x] = x \o pieces[i]
      BY <1>5
    <2> QED BY <2>5, <2>7, <2>8, <2>9
  <1> HIDE DEF f
  <1>10. CASE n = 0
    <2>1. FlattenSeq(pieces) = <<>>
      BY <1>1, <1>10, EmptySeq DEF FlattenSeq
    <2> QED BY <1>1, <1>4, <1>7, <1>8, <1>9, <1>10, <2>1 DEF A
  <1>11. CASE n # 0
    <2> DEFINE body(it) == [i \in 1..Len(pieces) |-> IF i = 1 THEN pieces[i] ELSE it[i - 1] \o pieces[i]]
               iter == CHOOSE it : it = body(it)
    <2>1. FlattenSeq(pieces) = iter[Len(pieces)]
      BY <1>1, <1>11, Zenon DEF FlattenSeq
    <2> DEFINE h == [i \in 1..n |-> f[i]]
    <2>2. f[1] = pieces[1]
      <3>1. 1 \in 1..n /\ 1 - 1 = 0
        BY <1>11
      <3>2. f[1] = none \o pieces[1]
        BY <1>8, <1>9, <3>1
      <3> QED BY <1>2, <1>4, <3>1, <3>2, ConcatEmptySeq
    <2>3. ASSUME NEW i \in 1..n PROVE h[i] = IF i = 1 THEN pieces[i] ELSE h[i - 1] \o pieces[i]
      <3>1. CASE i = 1
        BY <2>2, <3>1
      <3>2. CASE i # 1
        <4>1. i - 1 \in 1..n
          BY <3>2
        <4>2. h[i] = f[i] /\ h[i - 1] = f[i - 1]
          BY <4>1
        <4> HIDE DEF h
        <4>3. f[i] = f[i - 1] \o pieces[i]
          BY <1>9
        <4> QED BY <3>2, <4>2, <4>3
      <3> QED BY <3>1, <3>2
    <2>4. h = body(h)
      BY <1>1, <2>3
    <2> HIDE DEF body, h
    <2>5. iter = body(iter)
      BY <2>4, Zenon
    <2> USE DEF body
    <2> HIDE DEF iter
    <2> DEFINE T == {i \in 0..n : i # 0 => iter[i] = f[i]}
    <2>6. 0 \in T
      OBVIOUS
    <2>7. ASSUME NEW i \in 0..(n - 1), i \in T PROVE i + 1 \in T
      <3>1. i + 1 \in 1..n /\ (i + 1) - 1 = i
        OBVIOUS
      <3>2. iter[i + 1] = IF i + 1 = 1 THEN pieces[i + 1] ELSE iter[i] \o pieces[i + 1]
        BY <1>1, <2>5, <3>1
      <3>3. f[i + 1] = f[i] \o pieces[i + 1]
        BY <1>9, <3>1
      <3>4. CASE i = 0
        BY <2>2, <3>2, <3>4
      <3>5. CASE i # 0
        <4>1. iter[i] = f[i] /\ i + 1 # 1
          BY <2>7, <3>5
        <4>2. iter[i + 1] = f[i + 1]
          <5> HIDE DEF T
          <5> QED BY <3>2, <3>3, <4>1
        <4> QED BY <4>2
      <3> QED BY <3>4, <3>5
    <2> HIDE DEF T
    <2>8. 0..n \subseteq T
      BY <2>6, <2>7, Induction
    <2> USE DEF T
    <2>9. iter[n] = f[n]
      <3>1. n \in 0..n
        OBVIOUS
      <3> QED BY <1>11, <2>8, <3>1
    <2> QED BY <1>1, <1>4, <1>7, <1>8, <1>9, <2>1, <2>9 DEF A
  <1> QED BY <1>10, <1>11

LEMMA FlattenType ==
    ASSUME NEW S, NEW pieces \in Seq(Seq(S))
    PROVE  FlattenSeq(pieces) \in Seq(S)
  <1>1. PICK n \in Nat : n = Len(pieces)
    BY LenProperties
  <1>2. PICK f \in [0..n -> Seq(S)] : FlattenSeq(pieces) = f[n]
    BY <1>1, Flattens
  <1>3. n \in 0..n
    OBVIOUS
  <1> QED BY <1>2, <1>3

\* A text none of whose lines opens a block.
Harmless(text) == text \in Seq(Tokens) /\ \A l \in 1..Len(Lines(text)) : ~Opens(Lines(text)[l])

LEMMA ShortIsHarmless ==
    ASSUME NEW text \in Seq(Tokens), Len(text) < 3
    PROVE  Harmless(text)
  <1>1. ASSUME NEW l \in 1..Len(Lines(text)) PROVE ~Opens(Lines(text)[l])
    <2>1. PICK line \in Seq(Tokens) : line = Lines(text)[l]
      BY LinesAreStretches
    <2>2. PICK off \in Nat : off + Len(line) <= Len(text)
      BY <2>1, LinesAreStretches DEF Stretch
    <2>3. Len(line) < 3
      BY <2>2, LenProperties
    <2> QED BY <2>1, <2>3, OpensNone
  <1> QED BY <1>1 DEF Harmless

LEMMA HeadingIsHarmless ==
    ASSUME NEW heading \in Tokens \ {NewLine, Backtick, Tilde, Blank}, NEW text, Harmless(text)
    PROVE  Harmless(<<heading>> \o text)
  <1>1. text \in Seq(Tokens)
    BY DEF Harmless
  <1>2. PICK more \in Seq(Tokens) : more = <<heading>> \o text
    BY <1>1, ConsProperties
  <1>3. PICK lines \in LineSeqs : lines = Lines(text)
    BY <1>1, LinesType
  <1>4. PICK now : now = Lines(more)
    OBVIOUS
  <1>5. now = Put(heading, lines)
    BY <1>1, <1>2, <1>3, <1>4, LinesOfPut
  <1>6. /\ Len(now) = Len(lines) /\ now[1] = <<heading>> \o lines[1] /\ lines[1] \in Seq(Tokens)
        /\ Len(lines) \in Nat /\ \A l \in 2..Len(lines) : now[l] = lines[l]
    BY <1>5, PutProperties
  <1>7. PICK first \in Seq(Tokens) : first = now[1] /\ Len(first) > 0 /\ first[1] = heading
    <2>1. PICK first \in Seq(Tokens) : first = <<heading>> \o lines[1]
      BY <1>6, ConsProperties
    <2>2. Len(first) = Len(lines[1]) + 1 /\ first[1] = heading /\ Len(lines[1]) \in Nat
      BY <1>6, <2>1, ConsProperties, LenProperties
    <2>3. Len(first) > 0
      BY <2>2
    <2> QED BY <1>6, <2>1, <2>2, <2>3
  <1>8. ~Opens(now[1])
    BY <1>7, OpensNone
  <1>9. ASSUME NEW l \in 1..Len(now) PROVE ~Opens(now[l])
    <2>1. CASE l = 1
      BY <1>8, <2>1
    <2>2. CASE l # 1
      <3>1. l \in 1..Len(lines) /\ l \in 2..Len(lines)
        BY <1>6, <2>2
      <3>2. ~Opens(lines[l])
        BY <1>3, <3>1 DEF Harmless
      <3> QED BY <1>6, <3>1, <3>2
    <2> QED BY <2>1, <2>2
  <1>10. \A l \in 1..Len(Lines(more)) : ~Opens(Lines(more)[l])
    BY <1>4, <1>9
  <1> QED BY <1>2, <1>10 DEF Harmless

LEMMA OneLineIsHarmless ==
    ASSUME NEW heading \in Tokens \ {NewLine, Backtick, Tilde, Blank}, NEW text \in Seq(Tokens \ {NewLine})
    PROVE  Harmless(<<heading>> \o text)
  <1> DEFINE S == Tokens \ {NewLine}
  <1>1. PICK more \in Seq(S) : more = <<heading>> \o text /\ Len(more) > 0 /\ more[1] = heading
    <2> HIDE DEF S
    <2>1. heading \in S /\ text \in Seq(S)
      BY DEF S
    <2>2. PICK more \in Seq(S) : more = <<heading>> \o text
      BY <2>1, ConsProperties
    <2>3. Len(more) = Len(text) + 1 /\ more[1] = heading /\ Len(text) \in Nat
      BY <2>1, <2>2, ConsProperties, LenProperties
    <2>4. Len(more) > 0
      BY <2>3
    <2> QED BY <2>2, <2>3, <2>4
  <1>2. \A k \in 1..Len(more) : more[k] \in S
    BY ElementOfSeq
  <1>3. more \in Seq(Tokens) /\ \A k \in 1..Len(more) : more[k] # NewLine
    BY <1>2
  <1>4. Lines(more) = <<more>>
    BY <1>3, LinesOfOne
  <1>5. ~Opens(more)
    BY <1>1, <1>3, OpensNone
  <1>6. Len(<<more>>) = 1 /\ <<more>>[1] = more
    OBVIOUS
  <1>7. \A l \in 1..Len(Lines(more)) : ~Opens(Lines(more)[l])
    <2>1. \A l \in 1..1 : l = 1
      OBVIOUS
    <2> QED BY <1>4, <1>5, <1>6, <2>1
  <1> QED BY <1>1, <1>3, <1>7 DEF Harmless

\* Lines that open no block, joined as strings.Join does, and what follows them.
LEMMA JoinedHarmless ==
    ASSUME NEW sections \in Seq(Seq(Tokens)), \A i \in 1..Len(sections) : Harmless(sections[i])
    PROVE  LET joined == FlattenSeq([i \in 1..Len(sections) |-> sections[i] \o <<NewLine>>])
           IN /\ joined \in Seq(Tokens)
              /\ \E front \in Seq(Seq(Tokens)) :
                    /\ \A l \in 1..Len(front) : ~Opens(front[l])
                    /\ \A rest \in Seq(Tokens) : Lines(joined \o rest) = front \o Lines(rest)
  <1> DEFINE pieces == [i \in 1..Len(sections) |-> sections[i] \o <<NewLine>>]
  <1>1. PICK n \in Nat : n = Len(sections)
    BY LenProperties
  <1>2. <<NewLine>> \in Seq(Tokens)
    BY NewLineToken, ConsProperties
  <1>3. \A i \in 1..n : sections[i] \in Seq(Tokens) /\ Harmless(sections[i])
    BY <1>1, ElementOfSeq
  <1>4. \A i \in 1..n : sections[i] \o <<NewLine>> \in Seq(Tokens)
    BY <1>2, <1>3, ConcatProperties
  <1>5. pieces \in Seq(Seq(Tokens)) /\ Len(pieces) = n /\ \A i \in 1..n : pieces[i] = sections[i] \o <<NewLine>>
    BY <1>1, <1>4
  <1> HIDE DEF pieces
  <1>6. PICK f \in [0..n -> Seq(Tokens)] :
           /\ f[0] = <<>> /\ \A i \in 1..n : f[i] = f[i - 1] \o pieces[i]
           /\ FlattenSeq(pieces) = f[n]
    BY <1>5, Flattens
  <1> DEFINE Splits(k, front) ==
                 /\ \A l \in 1..Len(front) : ~Opens(front[l])
                 /\ \A rest \in Seq(Tokens) : Lines(f[k] \o rest) = front \o Lines(rest)
             T == {k \in 0..n : \E front \in Seq(Seq(Tokens)) : Splits(k, front)}
  <1>7. 0 \in T
    <2>1. <<>> \in Seq(Seq(Tokens)) /\ Len(<<>>) = 0
      BY EmptySeq
    <2>2. ASSUME NEW rest \in Seq(Tokens) PROVE Lines(f[0] \o rest) = <<>> \o Lines(rest)
      <3>1. Lines(rest) \in Seq(Seq(Tokens))
        BY LinesType DEF LineSeqs
      <3>2. <<>> \o rest = rest /\ <<>> \o Lines(rest) = Lines(rest)
        BY <3>1, ConcatEmptySeq
      <3> QED BY <1>6, <3>2
    <2>3. Splits(0, <<>>)
      BY <2>1, <2>2
    <2> HIDE DEF Splits
    <2>4. 0 \in 0..n
      OBVIOUS
    <2> QED BY <2>1, <2>3, <2>4
  <1>8. ASSUME NEW i \in 0..(n - 1), i \in T PROVE i + 1 \in T
    <2>1. PICK front \in Seq(Seq(Tokens)) : Splits(i, front)
      BY <1>8
    <2>2. i + 1 \in 1..n /\ (i + 1) - 1 = i
      OBVIOUS
    <2>3. PICK section \in Seq(Tokens) : section = sections[i + 1] /\ Harmless(section)
      BY <1>3, <2>2
    <2>4. PICK lines \in Seq(Seq(Tokens)) : lines = Lines(section)
      BY LinesType DEF LineSeqs
    <2>5. PICK more \in Seq(Seq(Tokens)) : more = front \o lines
      BY ConcatProperties
    <2>6. ASSUME NEW l \in 1..Len(more) PROVE ~Opens(more[l])
      <3>1. PICK a \in Nat, b \in Nat : a = Len(front) /\ b = Len(lines)
        BY LenProperties
      <3>2. Len(more) = a + b /\ \A j \in 1..(a + b) : more[j] = IF j <= a THEN front[j] ELSE lines[j - a]
        BY <2>5, <3>1, ConcatProperties
      <3>3. CASE l <= a
        <4>1. l \in 1..a /\ more[l] = front[l]
          BY <3>2, <3>3
        <4> QED BY <2>1, <3>1, <4>1
      <3>4. CASE ~(l <= a)
        <4>1. l - a \in 1..b /\ more[l] = lines[l - a]
          BY <3>2, <3>4
        <4> QED BY <2>3, <2>4, <3>1, <4>1 DEF Harmless
      <3> QED BY <3>3, <3>4
    <2>7. ASSUME NEW rest \in Seq(Tokens) PROVE Lines(f[i + 1] \o rest) = more \o Lines(rest)
      <3>0. \A x \in Seq(Tokens) : Lines(f[i] \o x) = front \o Lines(x)
        BY <2>1
      <3> HIDE DEF Splits, T
      <3>1. PICK so \in Seq(Tokens) : so = f[i]
        OBVIOUS
      <3>2. f[i + 1] = so \o (section \o <<NewLine>>)
        BY <1>5, <1>6, <2>2, <2>3, <3>1
      <3>3. PICK piece \in Seq(Tokens) : piece = section \o <<NewLine>>
        BY <1>2, ConcatProperties
      <3>4. (so \o piece) \o rest = so \o (piece \o rest)
        BY TextsAssociate, ZenonT(60)
      <3>5. PICK tail \in Seq(Tokens) : tail = piece \o rest
        BY ConcatProperties
      <3>6. Lines(so \o tail) = front \o Lines(tail)
        BY <3>0, <3>1
      <3>7. Lines(tail) = lines \o Lines(rest)
        BY <2>4, <3>3, <3>5, LinesOfTwo
      <3>8. Lines(rest) \in Seq(Seq(Tokens))
        BY LinesType DEF LineSeqs
      <3>9. front \o (lines \o Lines(rest)) = (front \o lines) \o Lines(rest)
        <4>0. PICK rests \in Seq(Seq(Tokens)) : rests = Lines(rest)
          BY <3>8
        <4>1. (front \o lines) \o rests = front \o (lines \o rests)
          BY LinesAssociate, ZenonT(60)
        <4> QED BY <4>0, <4>1
      <3>10. f[i + 1] \o rest = so \o tail
        BY <3>2, <3>3, <3>4, <3>5
      <3>11. Lines(so \o tail) = more \o Lines(rest)
        BY <2>5, <3>6, <3>7, <3>9
      <3> QED BY <3>10, <3>11
    <2>8. Splits(i + 1, more)
      BY <2>6, <2>7
    <2> HIDE DEF Splits
    <2> QED BY <2>2, <2>8
  <1> HIDE DEF T
  <1>9. 0..n \subseteq T
    BY <1>7, <1>8, Induction
  <1> USE DEF T
  <1> HIDE DEF Splits
  <1>10. n \in 0..n
    OBVIOUS
  <1>11. PICK front \in Seq(Seq(Tokens)) : Splits(n, front)
    BY <1>9, <1>10
  <1>12. FlattenSeq(pieces) \in Seq(Tokens)
    BY <1>5, FlattenType
  <1>13. /\ \A l \in 1..Len(front) : ~Opens(front[l])
         /\ \A rest \in Seq(Tokens) : Lines(FlattenSeq(pieces) \o rest) = front \o Lines(rest)
    BY <1>6, <1>11 DEF Splits
  <1> QED BY <1>12, <1>13 DEF pieces

LEMMA LeastIs ==
    ASSUME NEW s, s \subseteq Nat, NEW x \in s, \A y \in s : x <= y
    PROVE  Min(s) = x
  <1>1. Min(s) \in s /\ \A y \in s : Min(s) <= y
    BY DEF Min
  <1>2. PICK z \in Nat : z = Min(s)
    BY <1>1
  <1>3. z <= x /\ x <= z /\ x \in Nat
    BY <1>1, <1>2
  <1> QED BY <1>2, <1>3

\* A fence, other lines and the fence again are a block.
LEMMA FirstBlockIs ==
    ASSUME NEW text \in Seq(Tokens), NEW front \in Seq(Seq(Tokens)),
           NEW inner \in Seq(Seq(Tokens)), NEW fence \in Seq(Tokens),
           Lines(text) = front \o (<<fence>> \o (inner \o <<fence>>)),
           \A l \in 1..Len(front) : ~Opens(front[l]),
           Opens(fence), Closes(fence, fence),
           \A l \in 1..Len(inner) : ~Closes(inner[l], fence)
    PROVE  FirstBlock(text) = [lines |-> inner, after |-> 0]
  <1>1. PICK a \in Nat, b \in Nat : a = Len(front) /\ b = Len(inner)
    BY LenProperties
  <1>2. PICK lines : lines = Lines(text)
    OBVIOUS
  <1> DEFINE n == a + b + 2
  <1>3. /\ lines \in Seq(Seq(Tokens)) /\ Len(lines) = n
        /\ \A k \in 1..a : lines[k] = front[k]
        /\ lines[a + 1] = fence /\ lines[n] = fence
        /\ \A k \in 1..b : lines[a + 1 + k] = inner[k]
    <2>1. PICK block \in Seq(Seq(Tokens)) :
             /\ block = inner \o <<fence>> /\ Len(block) = b + 1 /\ block[b + 1] = fence
             /\ \A k \in 1..b : block[k] = inner[k]
      <3>1. <<fence>> \in Seq(Seq(Tokens)) /\ Len(<<fence>>) = 1 /\ <<fence>>[1] = fence
        OBVIOUS
      <3>2. PICK block \in Seq(Seq(Tokens)) : block = inner \o <<fence>>
        BY <3>1, ConcatProperties
      <3>3. /\ Len(block) = b + 1
            /\ \A k \in 1..(b + 1) : block[k] = IF k <= b THEN inner[k] ELSE <<fence>>[k - b]
        BY <1>1, <3>1, <3>2, ConcatProperties
      <3>4. b + 1 \in 1..(b + 1) /\ ~(b + 1 <= b) /\ b + 1 - b = 1
        OBVIOUS
      <3>5. block[b + 1] = fence
        BY <3>1, <3>3, <3>4
      <3>6. ASSUME NEW k \in 1..b PROVE block[k] = inner[k]
        BY <3>3
      <3> QED BY <3>2, <3>3, <3>5, <3>6
    <2>2. PICK fenced \in Seq(Seq(Tokens)) :
             /\ fenced = <<fence>> \o block /\ Len(fenced) = b + 2 /\ fenced[1] = fence
             /\ \A k \in 1..(b + 1) : fenced[k + 1] = block[k]
      <3>1. PICK fenced \in Seq(Seq(Tokens)) : fenced = <<fence>> \o block
        BY ConsProperties
      <3>2. /\ Len(fenced) = Len(block) + 1 /\ fenced[1] = fence
            /\ \A k \in 1..Len(block) : fenced[k + 1] = block[k]
        BY <3>1, ConsProperties
      <3>3. Len(fenced) = b + 2
        BY <2>1, <3>2
      <3> QED BY <2>1, <3>1, <3>2, <3>3
    <2>3. lines = front \o fenced
      BY <1>2, <2>1, <2>2
    <2>4. /\ lines \in Seq(Seq(Tokens)) /\ Len(lines) = Len(front) + Len(fenced)
          /\ \A k \in 1..Len(front) : lines[k] = front[k]
          /\ \A k \in 1..Len(fenced) : lines[Len(front) + k] = fenced[k]
      BY <2>3, LinesConcat, ZenonT(60)
    <2>5. \A k \in 1..a : lines[k] = front[k]
      BY <1>1, <2>4
    <2>6. Len(lines) = a + (b + 2) /\ \A k \in 1..(b + 2) : lines[a + k] = fenced[k]
      BY <1>1, <2>2, <2>4
    <2>7. lines[a + 1] = fence
      <3>1. 1 \in 1..(b + 2)
        OBVIOUS
      <3> QED BY <2>2, <2>6, <3>1
    <2>8. lines[n] = fence
      <3>1. b + 2 \in 1..(b + 2) /\ a + (b + 2) = n /\ b + 1 \in 1..(b + 1) /\ (b + 1) + 1 = b + 2
        OBVIOUS
      <3> HIDE DEF n
      <3>2. lines[n] = fenced[b + 2]
        BY <2>6, <3>1
      <3>3. fenced[b + 2] = block[b + 1]
        BY <2>2, <3>1
      <3> QED BY <2>1, <3>2, <3>3
    <2>9. ASSUME NEW k \in 1..b PROVE lines[a + 1 + k] = inner[k]
      <3>1. k + 1 \in 1..(b + 2) /\ a + (k + 1) = a + 1 + k /\ k \in 1..(b + 1)
        OBVIOUS
      <3>2. lines[a + (k + 1)] = fenced[k + 1]
        BY <2>6, <3>1
      <3>3. fenced[k + 1] = block[k]
        BY <2>2, <3>1
      <3>4. block[k] = inner[k]
        BY <2>1
      <3> QED BY <3>1, <3>2, <3>3, <3>4
    <2>10. a + (b + 2) = n
      OBVIOUS
    <2> QED BY <2>4, <2>5, <2>6, <2>7, <2>8, <2>9, <2>10
  <1>4. n \in Nat /\ a + 1 \in 1..n /\ n \in (a + 2)..n /\ (a + 1) + 1 = a + 2
    OBVIOUS
  <1>5. Min({k \in 1..n : Opens(lines[k])} \cup {n}) = a + 1
    <2> DEFINE s == {k \in 1..n : Opens(lines[k])} \cup {n}
    <2>1. s \subseteq Nat
      OBVIOUS
    <2>2. a + 1 \in s
      BY <1>3, <1>4
    <2>3. ASSUME NEW k \in s PROVE a + 1 <= k
      <3>1. k \notin 1..a
        BY <1>1, <1>3
      <3> QED BY <3>1
    <2> HIDE DEF s
    <2>4. Min(s) = a + 1
      BY <2>1, <2>2, <2>3, LeastIs
    <2> QED BY <2>4 DEF s
  <1>6. Min({k \in (a + 2)..n : Closes(lines[k], fence)} \cup {n + 1}) = n
    <2> DEFINE s == {k \in (a + 2)..n : Closes(lines[k], fence)} \cup {n + 1}
    <2>1. s \subseteq Nat
      OBVIOUS
    <2>2. n \in s
      BY <1>3, <1>4
    <2>3. ASSUME NEW k \in s PROVE n <= k
      <3>1. CASE k \in (a + 2)..(n - 1)
        <4>1. k - a - 1 \in 1..b /\ a + 1 + (k - a - 1) = k
          BY <3>1
        <4>2. lines[k] = inner[k - a - 1] /\ ~Closes(inner[k - a - 1], fence)
          BY <1>1, <1>3, <4>1
        <4>3. k # n + 1
          BY <3>1
        <4> QED BY <4>2, <4>3
      <3>2. CASE k \notin (a + 2)..(n - 1)
        BY <3>2
      <3> QED BY <3>1, <3>2
    <2> HIDE DEF s
    <2>4. Min(s) = n
      BY <1>4, <2>1, <2>2, <2>3, LeastIs
    <2> QED BY <2>4 DEF s
  <1>7. SubSeq(lines, a + 2, n - 1) = inner
    <2>1. \A k \in (a + 2)..(n - 1) : lines[k] \in Seq(Tokens)
      <3>1. \A k \in 1..n : lines[k] \in Seq(Tokens)
        BY <1>3, ElementOfSeq
      <3> QED BY <3>1
    <2>2. a + 2 \in Int /\ n - 1 \in Int
      OBVIOUS
    <2> DEFINE part == SubSeq(lines, a + 2, n - 1)
    <2>3. /\ part \in Seq(Seq(Tokens))
          /\ Len(part) = IF a + 2 <= n - 1 THEN (n - 1) - (a + 2) + 1 ELSE 0
          /\ \A k \in 1..((n - 1) - (a + 2) + 1) : part[k] = lines[a + 2 + k - 1]
      BY <2>1, <2>2, SubSeqProperties
    <2> HIDE DEF part
    <2>4. Len(part) = b /\ \A k \in 1..b : part[k] = lines[a + 1 + k]
      <3>1. (n - 1) - (a + 2) + 1 = b /\ (~(a + 2 <= n - 1) => b = 0)
        OBVIOUS
      <3>2. \A k \in 1..b : a + 2 + k - 1 = a + 1 + k
        OBVIOUS
      <3> HIDE DEF n
      <3> QED BY <2>3, <3>1, <3>2
    <2>5. \A k \in 1..b : part[k] = inner[k]
      BY <1>3, <2>4
    <2>6. part = inner
      BY <1>1, <2>3, <2>4, <2>5, SeqEqual
    <2> QED BY <2>6 DEF part
  <1>8. n - n = 0 /\ Len(lines) = n /\ lines[a + 1] = fence
    BY <1>3
  <1> HIDE DEF n
  <1> DEFINE first == Min({k \in 1..Len(lines) : Opens(lines[k])} \cup {Len(lines)})
             last == Min({k \in (first + 1)..Len(lines) : Closes(lines[k], lines[first])}
                            \cup {Len(lines) + 1})
  <1>9. FirstBlock(text) = [lines |-> SubSeq(lines, first + 1, last - 1), after |-> Len(lines) - last]
    BY <1>2, Zenon DEF FirstBlock
  <1>10. first = a + 1
    BY <1>5, <1>8, Zenon
  <1> HIDE DEF first
  <1>11. first + 1 = a + 2
    BY <1>4, <1>10, Zenon
  <1>12. last = n
    BY <1>6, <1>8, <1>10, <1>11, Zenon
  <1> HIDE DEF last
  <1>13. SubSeq(lines, first + 1, last - 1) = inner /\ Len(lines) - last = 0
    BY <1>7, <1>8, <1>11, <1>12, Zenon
  <1> QED BY <1>9, <1>13, Zenon

\* A source in its fence is the first fenced block of a text none of whose
\* other lines opens one (FenceSource of fence.go).
THEOREM SourceInFence ==
    ASSUME NEW sections \in Seq(Seq(Tokens)), \A i \in 1..Len(sections) : Harmless(sections[i]),
           NEW source \in Seq(Tokens)
    PROVE  FirstBlock(FlattenSeq([i \in 1..Len(sections) |-> sections[i] \o <<NewLine>>])
                          \o FenceSource(source))
              = [lines |-> Lines(source), after |-> 0]
  <1>1. PICK joined \in Seq(Tokens), front \in Seq(Seq(Tokens)) :
           /\ joined = FlattenSeq([i \in 1..Len(sections) |-> sections[i] \o <<NewLine>>])
           /\ \A l \in 1..Len(front) : ~Opens(front[l])
           /\ \A rest \in Seq(Tokens) : Lines(joined \o rest) = front \o Lines(rest)
    BY JoinedHarmless
  <1>2. PICK m \in Nat : m = RequiredFenceLength(source, 4)
    BY FenceLength
  <1>3. m >= 4 /\ \A off, r \in Nat : off + r <= Len(source) /\ BackticksAt(source, off, r) => r < m
    BY <1>2, FenceLength
  <1>4. PICK fence \in Seq(Tokens) :
           /\ fence = Fence(m) /\ Lines(fence) = <<fence>> /\ Opens(fence) /\ Closes(fence, fence)
    BY <1>3, FenceOpensAndCloses
  <1>5. PICK inner \in Seq(Seq(Tokens)) : inner = Lines(source)
    BY LinesType DEF LineSeqs
  <1>6. \A l \in 1..Len(inner) : ~Closes(inner[l], fence)
    BY <1>3, <1>4, <1>5, NoLineCloses
  <1>7. PICK rest \in Seq(Tokens) :
           rest = FenceSource(source) /\ Lines(rest) = <<fence>> \o (inner \o <<fence>>)
    <2>1. FenceSource(source) = (((fence \o <<NewLine>>) \o source) \o <<NewLine>>) \o fence
      BY <1>2, <1>4, Zenon DEF FenceSource, Fence
    <2>2. PICK break \in Seq(Tokens) : break = <<NewLine>>
      BY NewLineToken, ConsProperties
    <2>3. PICK open \in Seq(Tokens) : open = fence \o break
      BY ConcatProperties
    <2>4. PICK body \in Seq(Tokens) : body = source \o break
      BY ConcatProperties
    <2>5. PICK close \in Seq(Tokens) : close = body \o fence
      BY ConcatProperties
    <2>6. (open \o source) \o break = open \o body
      BY <2>4, TextsAssociate, ZenonT(60)
    <2>7. (open \o body) \o fence = open \o close
      BY <2>5, TextsAssociate, ZenonT(60)
    <2>8. FenceSource(source) = open \o close
      BY <2>1, <2>2, <2>3, <2>6, <2>7, Zenon
    <2>9. Lines(close) = inner \o <<fence>>
      <3>1. close = (source \o <<NewLine>>) \o fence
        BY <2>2, <2>4, <2>5
      <3>2. Lines((source \o <<NewLine>>) \o fence) = Lines(source) \o Lines(fence)
        BY LinesOfBroken, ZenonT(60)
      <3> QED BY <1>4, <1>5, <3>1, <3>2
    <2>10. Lines(open \o close) = <<fence>> \o (inner \o <<fence>>)
      <3>1. open \o close = (fence \o <<NewLine>>) \o close
        BY <2>2, <2>3
      <3> QED BY <1>4, <2>9, <3>1, LinesOfBroken, ZenonT(60)
    <2>11. open \o close \in Seq(Tokens)
      BY ConcatProperties
    <2> QED BY <2>8, <2>10, <2>11
  <1>8. PICK text \in Seq(Tokens) : text = joined \o rest
    BY ConcatProperties
  <1>9. Lines(text) = front \o (<<fence>> \o (inner \o <<fence>>))
    BY <1>1, <1>7, <1>8, Zenon
  <1>10. FirstBlock(text) = [lines |-> inner, after |-> 0]
    BY <1>1, <1>4, <1>6, <1>9, FirstBlockIs
  <1> QED BY <1>1, <1>5, <1>7, <1>8, <1>10

-----------------------------------------------------------------------------
LEMMA PromptWordsAreTokens == PromptWords \subseteq Tokens \ {NewLine, Backtick, Tilde, Blank}
  BY Zenon DEF Tokens, PromptWords, NewLine, Backtick, Tilde, Blank

LEMMA Pair == \A a, b \in Tokens : <<a>> \o <<b>> = <<a, b>>
  <1> SUFFICES ASSUME NEW a \in Tokens, NEW b \in Tokens PROVE <<a>> \o <<b>> = <<a, b>>
    OBVIOUS
  <1>1. /\ <<a>> \in Seq(Tokens) /\ Len(<<a>>) = 1 /\ <<a>>[1] = a
        /\ <<b>> \in Seq(Tokens) /\ Len(<<b>>) = 1 /\ <<b>>[1] = b
        /\ <<a, b>> \in Seq(Tokens) /\ Len(<<a, b>>) = 2 /\ <<a, b>>[1] = a /\ <<a, b>>[2] = b
    OBVIOUS
  <1>2. PICK pair \in Seq(Tokens) : pair = <<a>> \o <<b>>
    BY <1>1, ConcatProperties
  <1>3. Len(pair) = 2 /\ pair[1] = a /\ pair[2] = b
    <2>1. /\ Len(pair) = Len(<<b>>) + 1 /\ pair[1] = a
          /\ \A k \in 1..Len(<<b>>) : pair[k + 1] = <<b>>[k]
      BY <1>1, <1>2, ConsProperties
    <2> QED BY <1>1, <2>1
  <1>4. PICK other \in Seq(Tokens) : other = <<a, b>> /\ Len(other) = 2 /\ other[1] = a /\ other[2] = b
    BY <1>1
  <1>5. \A i \in 1..2 : pair[i] = other[i]
    <2>1. \A i \in 1..2 : i = 1 \/ i = 2
      OBVIOUS
    <2> QED BY <1>3, <1>4, <2>1
  <1>6. pair = other
    BY <1>3, <1>4, <1>5, SeqEqual
  <1> QED BY <1>2, <1>4, <1>6

HarmlessTexts == {text \in Seq(Tokens) : Harmless(text)}

LEMMA HarmlessHeadings ==
    /\ <<>> \in HarmlessTexts
    /\ \A heading \in PromptWords : /\ <<heading>> \in HarmlessTexts
                              /\ \A text \in HarmlessTexts : <<heading>> \o text \in HarmlessTexts
    /\ \A a, b \in Tokens : <<a>> \in HarmlessTexts /\ <<a, b>> \in HarmlessTexts
  <1>1. <<>> \in HarmlessTexts
    <2>1. <<>> \in Seq(Tokens) /\ Len(<<>>) < 3
      BY EmptySeq
    <2> QED BY <2>1, ShortIsHarmless DEF HarmlessTexts
  <1>2. ASSUME NEW a \in Tokens, NEW b \in Tokens PROVE <<a>> \in HarmlessTexts /\ <<a, b>> \in HarmlessTexts
    <2>1. <<a>> \in Seq(Tokens) /\ Len(<<a>>) < 3 /\ <<a, b>> \in Seq(Tokens) /\ Len(<<a, b>>) < 3
      OBVIOUS
    <2> QED BY <2>1, ShortIsHarmless DEF HarmlessTexts
  <1>3. ASSUME NEW heading \in PromptWords, NEW text \in HarmlessTexts PROVE <<heading>> \o text \in HarmlessTexts
    <2>1. heading \in Tokens \ {NewLine, Backtick, Tilde, Blank}
      BY PromptWordsAreTokens
    <2>2. Harmless(text)
      BY DEF HarmlessTexts
    <2>3. Harmless(<<heading>> \o text)
      BY <2>1, <2>2, HeadingIsHarmless
    <2> QED BY <2>3 DEF HarmlessTexts, Harmless
  <1>4. \A heading \in PromptWords : <<heading>> \in HarmlessTexts
    BY <1>2, PromptWordsAreTokens
  <1> QED BY <1>1, <1>2, <1>3, <1>4

LEMMA SectionIsHarmless ==
    ASSUME NEW present \in BOOLEAN, NEW heading \in PromptWords,
           NEW content, present => <<heading>> \o content \in HarmlessTexts
    PROVE  Section(present, heading, content) \in Seq(HarmlessTexts)
  <1>1. CASE present
    <2>1. PICK line \in HarmlessTexts : line = <<heading>> \o content
      BY <1>1
    <2>2. PICK none \in HarmlessTexts : none = <<>>
      BY HarmlessHeadings
    <2>3. <<none, line>> \in Seq(HarmlessTexts)
      OBVIOUS
    <2> QED BY <1>1, <2>1, <2>2, <2>3 DEF Section
  <1>2. CASE ~present
    BY <1>2, EmptySeq DEF Section
  <1> QED BY <1>1, <1>2

\* A line break in a delimiter is quoted, so that all of them are on one line.
LEMMA QuotedHarmless ==
    ASSUME NEW delimiters \in Seq(Seq(Tokens))
    PROVE  <<"Exact segment delimiters:">>
               \o FlattenSeq([i \in DOMAIN delimiters |-> Quoted(delimiters[i])]) \in HarmlessTexts
  <1> DEFINE S == Tokens \ {NewLine}
             pieces == [i \in DOMAIN delimiters |-> Quoted(delimiters[i])]
  <1>1. PICK heading \in Tokens \ {NewLine, Backtick, Tilde, Blank} : heading = "Exact segment delimiters:"
    BY PromptWordsAreTokens DEF PromptWords
  <1>2. "\\n" \in S
    BY PromptWordsAreTokens DEF PromptWords
  <1>3. ASSUME NEW text \in Seq(Tokens) PROVE Quoted(text) \in Seq(S)
    <2>1. PICK n \in Nat : n = Len(text) /\ DOMAIN text = 1..n
      BY LenProperties
    <2>2. ASSUME NEW i \in 1..n PROVE (IF text[i] = NewLine THEN "\\n" ELSE text[i]) \in S
      BY <1>2, <2>1, ElementOfSeq
    <2> DEFINE quoted == [i \in 1..n |-> IF text[i] = NewLine THEN "\\n" ELSE text[i]]
    <2> HIDE DEF S
    <2>3. quoted \in [1..n -> S]
      BY <2>2
    <2> HIDE DEF quoted
    <2>4. quoted \in Seq(S)
      BY <2>3
    <2>5. Quoted(text) = quoted
      BY <2>1, Zenon DEF Quoted, quoted
    <2> QED BY <2>4, <2>5
  <1> HIDE DEF S
  <1>4. pieces \in Seq(Seq(S))
    <2>1. PICK n \in Nat : n = Len(delimiters) /\ DOMAIN delimiters = 1..n
      BY LenProperties
    <2>2. \A i \in 1..n : Quoted(delimiters[i]) \in Seq(S)
      BY <1>3, <2>1, ElementOfSeq
    <2>3. pieces \in [1..n -> Seq(S)]
      BY <2>1, <2>2
    <2> HIDE DEF pieces
    <2> QED BY <2>3
  <1> HIDE DEF pieces
  <1>5. PICK text \in Seq(S) : text = FlattenSeq(pieces)
    BY <1>4, FlattenType
  <1>6. Harmless(<<heading>> \o text)
    BY <1>5, OneLineIsHarmless DEF S
  <1> QED BY <1>1, <1>5, <1>6 DEF HarmlessTexts, Harmless, pieces

LEMMA TermsAreHarmless ==
    ASSUME NEW glossary \in SUBSET HarmlessTexts, IsFiniteSet(glossary)
    PROVE  LET terms == SetToSeq(glossary)
           IN [i \in DOMAIN terms |-> <<"-">> \o terms[i]] \in Seq(HarmlessTexts)
  <1>1. PICK n \in Nat : n = Cardinality(glossary) /\ ExistsBijection(1..n, glossary)
    BY FS_CardinalityType
  <1>2. PICK f \in [1..n -> glossary] : IsInjective(f)
    <2>1. PICK f \in Bijection(1..n, glossary) : TRUE
      BY <1>1 DEF ExistsBijection
    <2> QED BY <2>1 DEF Bijection, Injection
  <1>3. PICK terms : terms = SetToSeq(glossary)
    OBVIOUS
  <1>4. terms \in [1..n -> glossary]
    BY <1>1, <1>2, <1>3 DEF SetToSeq
  <1>5. \A i \in 1..n : <<"-">> \o terms[i] \in HarmlessTexts
    BY <1>4, HarmlessHeadings DEF PromptWords
  <1>6. DOMAIN terms = 1..n
    BY <1>4
  <1> DEFINE lines == [i \in 1..n |-> <<"-">> \o terms[i]]
  <1>7. lines \in [1..n -> HarmlessTexts]
    BY <1>5
  <1> HIDE DEF lines
  <1>8. lines \in Seq(HarmlessTexts)
    BY <1>7
  <1> QED BY <1>3, <1>6, <1>8 DEF lines

\* Whatever a request asks for, the first fenced block in the prompt holds the
\* lines of its source, and nothing comes after it: the glossary, the style, the
\* audience and the attributes, which are not quoted, must open none (BuildPrompt
\* and promptOptions of prompt.go).
THEOREM PromptCarriesSource ==
    ASSUME NEW request,
           request.source \in Seq(Tokens), request.sourceLanguage \in Tokens,
           request.target \in Tokens, Kind(request) \in Tokens,
           request.glossary \in SUBSET HarmlessTexts, IsFiniteSet(request.glossary),
           request.style \in HarmlessTexts, request.audience \in HarmlessTexts,
           request.attributes \in HarmlessTexts, request.delimiters \in Seq(Seq(Tokens))
    PROVE  FirstBlock(BuildPrompt(request)) = [lines |-> Lines(request.source), after |-> 0]
  <1> DEFINE H == HarmlessTexts
             task == <<"Translate">> \o (IF request.sourceLanguage = NoLanguage THEN <<>>
                                         ELSE <<request.sourceLanguage>>) \o <<request.target>>
             begin == <<task, <<>>, <<"Translation contract:">>, <<"CommonContract">>, <<>>,
                        <<"Format-specific rules:">>, <<"FormatRules", Kind(request)>>>>
             end == <<(<<>>), <<"Source:">>, <<>>>>
             options == promptOptions(request)
             sections == (begin \o options) \o end
  <1>1. <<>> \in H
    BY HarmlessHeadings
  <1>2. task \in H
    <2>1. PICK translate \in PromptWords : translate = "Translate"
      BY DEF PromptWords
    <2>2. PICK target \in Tokens, from \in Tokens : target = request.target /\ from = request.sourceLanguage
      OBVIOUS
    <2>3. translate \in Tokens
      BY PromptWordsAreTokens
    <2>4. CASE request.sourceLanguage = NoLanguage
      <3>1. task = <<translate, target>>
        <4>1. task = (<<translate>> \o <<>>) \o <<target>>
          BY <2>1, <2>2, <2>4
        <4>2. <<translate>> \o <<>> = <<translate>>
          BY <2>3, ConcatEmptySeq
        <4> HIDE DEF task
        <4>3. task = <<translate>> \o <<target>>
          BY <4>1, <4>2
        <4> QED BY <2>3, <4>3, Pair, Zenon
      <3> QED BY <2>3, <3>1, HarmlessHeadings
    <2>5. CASE request.sourceLanguage # NoLanguage
      <3>1. task = <<translate>> \o <<from, target>>
        <4>1. task = (<<translate>> \o <<from>>) \o <<target>>
          BY <2>1, <2>2, <2>5
        <4> QED BY <4>1
      <3> QED BY <3>1, HarmlessHeadings
    <2> QED BY <2>4, <2>5
  <1>3. /\ <<"Translation contract:">> \in H /\ <<"CommonContract">> \in H
        /\ <<"Format-specific rules:">> \in H /\ <<"Source:">> \in H
    BY HarmlessHeadings DEF PromptWords
  <1>4. <<"FormatRules", Kind(request)>> \in H
    <2>1. "FormatRules" \in Tokens
      BY PromptWordsAreTokens DEF PromptWords
    <2> QED BY <2>1, HarmlessHeadings
  <1>5. options \in Seq(H)
    <2> DEFINE terms == SetToSeq(request.glossary)
               lines == [i \in DOMAIN terms |-> <<"-">> \o terms[i]]
               attributes == IF request.attributes = <<>> THEN <<"(none)">> ELSE request.attributes
               quoted == FlattenSeq([i \in DOMAIN request.delimiters |-> Quoted(request.delimiters[i])])
               glossarySection == Section(request.glossary # {}, "Glossary", <<>>)
               styleSection == Section(request.style # <<>>, "Required style:", request.style)
               audienceSection == Section(request.audience # <<>>, "Intended audience:", request.audience)
               attributesSection == Section(request.kind = "html_xml", "Translatable attributes:", attributes)
               delimitersSection == Section(request.delimiters # <<>>, "Exact segment delimiters:", quoted)
    <2>1. lines \in Seq(H)
      BY TermsAreHarmless
    <2>2. attributes \in H
      BY HarmlessHeadings DEF PromptWords
    <2>3. <<"Exact segment delimiters:">> \o quoted \in H
      BY QuotedHarmless
    <2>4. /\ <<"Glossary">> \o <<>> \in H
          /\ <<"Required style:">> \o request.style \in H
          /\ <<"Intended audience:">> \o request.audience \in H
          /\ <<"Translatable attributes:">> \o attributes \in H
      <3> HIDE DEF attributes
      <3> QED BY <1>1, <2>2, HarmlessHeadings DEF PromptWords
    <2>5. /\ "Glossary" \in PromptWords /\ "Required style:" \in PromptWords /\ "Intended audience:" \in PromptWords
          /\ "Translatable attributes:" \in PromptWords /\ "Exact segment delimiters:" \in PromptWords
      BY DEF PromptWords
    <2> HIDE DEF H, attributes, quoted, lines
    <2>6. glossarySection \in Seq(H)
      BY <2>4, <2>5, SectionIsHarmless DEF H
    <2>7. styleSection \in Seq(H)
      BY <2>4, <2>5, SectionIsHarmless DEF H
    <2>8. audienceSection \in Seq(H)
      BY <2>4, <2>5, SectionIsHarmless DEF H
    <2>9. attributesSection \in Seq(H)
      BY <2>4, <2>5, SectionIsHarmless DEF H
    <2>10. delimitersSection \in Seq(H)
      BY <2>3, <2>5, SectionIsHarmless DEF H
    <2>11. options = ((((glossarySection \o lines) \o styleSection) \o audienceSection)
                         \o attributesSection) \o delimitersSection
      BY Zenon DEF promptOptions, attributes, quoted, lines
    <2> HIDE DEF options, glossarySection, styleSection, audienceSection, attributesSection, delimitersSection
    <2>12. PICK a \in Seq(H) : a = glossarySection \o lines
      BY <2>1, <2>6, ConcatProperties
    <2>13. PICK b \in Seq(H) : b = a \o styleSection
      BY <2>7, ConcatProperties
    <2>14. PICK c \in Seq(H) : c = b \o audienceSection
      BY <2>8, ConcatProperties
    <2>15. PICK d \in Seq(H) : d = c \o attributesSection
      BY <2>9, ConcatProperties
    <2>16. d \o delimitersSection \in Seq(H)
      BY <2>10, ConcatProperties
    <2> QED BY <2>11, <2>12, <2>13, <2>14, <2>15, <2>16
  <1> HIDE DEF H, options, task
  <1>6. begin \in Seq(H) /\ end \in Seq(H)
    <2>1. PICK none \in H, what \in H, contract \in H, common \in H, format \in H, rules \in H, from \in H :
             /\ none = <<>> /\ what = task /\ contract = <<"Translation contract:">>
             /\ common = <<"CommonContract">> /\ format = <<"Format-specific rules:">>
             /\ rules = <<"FormatRules", Kind(request)>> /\ from = <<"Source:">>
      BY <1>1, <1>2, <1>3, <1>4
    <2>2. <<what, none, contract, common, none, format, rules>> \in Seq(H) /\ <<none, from, none>> \in Seq(H)
      OBVIOUS
    <2> QED BY <2>1, <2>2, Zenon
  <1>7. BuildPrompt(request) = FlattenSeq([i \in 1..Len(sections) |-> sections[i] \o <<NewLine>>])
                                  \o FenceSource(request.source)
    BY Zenon DEF BuildPrompt, task, options
  <1> HIDE DEF begin, end
  <1>8. PICK all \in Seq(H) : all = sections
    <2>1. PICK a \in Seq(H) : a = begin \o options
      BY <1>5, <1>6, ConcatProperties
    <2>2. a \o end \in Seq(H)
      BY <1>6, ConcatProperties
    <2> QED BY <2>1, <2>2
  <1> HIDE DEF sections
  <1>9. all \in Seq(Seq(Tokens)) /\ \A i \in 1..Len(all) : Harmless(all[i])
    <2>1. PICK n \in Nat : n = Len(all) /\ DOMAIN all = 1..n
      BY LenProperties
    <2>2. \A i \in 1..n : all[i] \in H
      BY <2>1, ElementOfSeq
    <2>3. \A i \in 1..n : all[i] \in Seq(Tokens) /\ Harmless(all[i])
      BY <2>2 DEF H, HarmlessTexts
    <2>4. H \subseteq Seq(Tokens)
      BY DEF H, HarmlessTexts
    <2>5. all \in Seq(Seq(Tokens))
      BY <2>4, SeqMonotonic
    <2> QED BY <2>1, <2>3, <2>5
  <1>10. FirstBlock(FlattenSeq([i \in 1..Len(all) |-> all[i] \o <<NewLine>>]) \o FenceSource(request.source))
            = [lines |-> Lines(request.source), after |-> 0]
    BY <1>9, SourceInFence
  <1> QED BY <1>7, <1>8, <1>10 DEF sections

-----------------------------------------------------------------------------
Input(request) == BuildInput(request.catalog, request.translation)

Payload(request, default) ==
    EncodeRequest(ModelName(request.model, default), Input(request),
                  Options(request.catalog, Profile(request)))

\* What each phase knows of the steps that led to it.
PipelineInv ==
    /\ phase # "new" => job \in JobRequests /\ preview = PreviewModel(job)
    /\ phase \notin {"new", "previewed"} => (phase = "refused" <=> ~validateJobRequest(job))
    /\ phase = "unsent" =>
          \E default \in DefaultModels : ~Encodes(ModelName(job.model, default), Input(job))
    /\ phase = "sent" => \E default \in DefaultModels : payload = Payload(job, default)

\* A worker that builds the job makes the same checks as the admission.
LEMMA BuildsWhatIsAdmitted ==
    ASSUME NEW request PROVE Builds(request) <=> validateJobRequest(request)
  BY DEF Builds, validateJobRequest

LEMMA PipelineInvInit == Init => PipelineInv
  BY DEF Init, PipelineInv

LEMMA PipelineInvNext == PipelineInv /\ [Next]_vars => PipelineInv'
  <1> SUFFICES ASSUME PipelineInv, [Next]_vars PROVE PipelineInv'
    OBVIOUS
  <1> USE DEF PipelineInv
  <1>1. ASSUME NEW request \in JobRequests, Preview(request) PROVE PipelineInv'
    BY <1>1 DEF Preview
  <1>2. CASE Submit
    BY <1>2 DEF Submit
  <1>3. ASSUME NEW default \in DefaultModels, Process(default) PROVE PipelineInv'
    <2>1. validateJobRequest(job) /\ Builds(job)
      BY <1>3, BuildsWhatIsAdmitted DEF Process
    <2>2. CASE Encodes(ModelName(job.model, default), Input(job))
      BY <1>3, <2>1, <2>2 DEF Process, Payload, Input
    <2>3. CASE ~Encodes(ModelName(job.model, default), Input(job))
      BY <1>3, <2>1, <2>3 DEF Process, Input
    <2> QED BY <2>2, <2>3
  <1>4. CASE phase = "sent" /\ Answer
    BY <1>4 DEF Answer, GenerateFails, Generate
  <1>5. CASE Check
    BY <1>5 DEF Check
  <1>6. CASE UNCHANGED vars
    BY <1>6 DEF vars
  <1> QED BY <1>1, <1>2, <1>3, <1>4, <1>5, <1>6 DEF Next

THEOREM Invariant == Spec => []PipelineInv
  BY PipelineInvInit, PipelineInvNext, PTL DEF Spec

-----------------------------------------------------------------------------
\* Every language of TranslateGemma's table has a code, which is no token that
\* means something else in the template.
LEMMA Codes ==
    ASSUME NEW language \in GemmaLanguages
    PROVE  LanguageCode(language) \notin {"", "text:", EndOfTurn}
  <1>1. ASSUME NEW name, NEW code, <<name, code>> \in GemmaTable
        PROVE  code \notin {"", "text:", EndOfTurn}
    <2>1. code # ""
      BY <1>1, Zenon DEF GemmaTable
    <2>2. code # "text:"
      BY <1>1, Zenon DEF GemmaTable
    <2>3. code # EndOfTurn
      BY <1>1, Zenon DEF GemmaTable, EndOfTurn
    <2> QED BY <2>1, <2>2, <2>3, Zenon
  <1>2. PICK entry \in GemmaTable : entry[1] = language
    BY DEF GemmaLanguages
  <1>3. PICK chosen \in GemmaTable : LanguageCode(language) = chosen[2]
    BY <1>2 DEF LanguageCode
  <1>4. \E name, code : chosen = <<name, code>>
    BY DEF GemmaTable
  <1>5. PICK name, code : chosen = <<name, code>>
    BY <1>4
  <1>6. chosen[2] = code
    BY <1>5
  <1> QED BY <1>1, <1>3, <1>5, <1>6, Zenon

\* No field is set to it; named, since the SMT backend takes no empty string.
Unset == ""

\* The input of Hy-MT2 is a text, which the client sends as a chat ...
LEMMA HymtChats ==
    ASSUME NEW request, request.catalog \in HymtModels
    PROVE  ~requiresCompletionBypass(Input(request)) /\ Marshals(Input(request))
  <1>1. Input(request).parts = <<>>
    BY DEF Input, BuildInput, HymtInput, PlainInput
  <1>2. DOMAIN <<>> = {}
    BY EmptySeq, LenProperties
  <1> QED BY <1>1, <1>2, Zenon DEF requiresCompletionBypass, Marshals

\* ... and always encodes.
LEMMA HymtEncodes ==
    ASSUME NEW request, request.catalog \in HymtModels, NEW name, name # Unset
    PROVE  Encodes(name, Input(request))
  BY HymtChats, Zenon DEF Encodes, Unset

\* The one message of TranslateGemma's input.
Part(request) ==
    [text |-> request.translation.source,
     sourceCode |-> LanguageCode(request.translation.sourceLanguage),
     targetCode |-> LanguageCode(request.translation.target)]

LEMMA OnePart ==
    ASSUME NEW request, request.catalog \notin HymtModels
    PROVE  /\ Input(request) = [text |-> <<>>, parts |-> <<Part(request)>>]
           /\ Len(Input(request).parts) = 1 /\ 1 \in DOMAIN Input(request).parts
           /\ Input(request).parts[1] = Part(request)
  <1>1. Input(request) = [text |-> <<>>, parts |-> <<Part(request)>>]
    BY DEF Input, BuildInput, GemmaInput, Part
  <1>2. ASSUME NEW part
        PROVE  Len(<<part>>) = 1 /\ 1 \in DOMAIN <<part>> /\ <<part>>[1] = part
    OBVIOUS
  <1>3. Input(request).parts = <<Part(request)>>
    BY <1>1
  <1> QED BY <1>1, <1>2, <1>3

\* It has codes, so it goes through the template ...
LEMMA GemmaBypasses ==
    ASSUME NEW request, request.catalog \notin HymtModels, GemmaTakes(request.translation)
    PROVE  /\ Part(request).sourceCode # Unset /\ Part(request).targetCode # Unset
           /\ requiresCompletionBypass(Input(request))
  <1>1. Part(request).sourceCode # Unset /\ Part(request).targetCode # Unset
    <2>1. /\ LanguageCode(request.translation.sourceLanguage) # Unset
          /\ LanguageCode(request.translation.target) # Unset
      BY Codes, Zenon DEF GemmaTakes, GemmaSupportsLanguage, Unset
    <2> QED BY <2>1 DEF Part
  <1> QED BY <1>1, OnePart, Zenon DEF requiresCompletionBypass, Unset

\* ... which refuses only an empty text.
LEMMA GemmaEncodes ==
    ASSUME NEW request, request.catalog \notin HymtModels, GemmaTakes(request.translation),
           request.translation.source # <<>>, NEW name, name # Unset
    PROVE  Encodes(name, Input(request))
  <1>1. Input(request).text = <<>>
    BY OnePart
  <1>2. Part(request).text = request.translation.source
    BY DEF Part
  <1> QED BY <1>1, <1>2, OnePart, GemmaBypasses, Zenon DEF Encodes, Renders, Unset

\* An admitted job is sent, unless TranslateGemma is to translate an empty text
\* or neither the job nor the server names a model (Process of processor.go).
THEOREM Admitted == Spec => []AdmittedReachesInference
  <1>1. PipelineInv => AdmittedReachesInference
    <2> SUFFICES ASSUME PipelineInv, phase = "unsent"
                 PROVE  \/ job.catalog \in GemmaModels /\ job.translation.source = <<>>
                        \/ job.model = Unset /\ Unset \in DefaultModels
      BY Zenon DEF AdmittedReachesInference, Unset
    <2>1. validateJobRequest(job)
      BY DEF PipelineInv
    <2>2. PICK default \in DefaultModels : ~Encodes(ModelName(job.model, default), Input(job))
      BY DEF PipelineInv
    <2>3. CASE ModelName(job.model, default) = Unset
      BY <2>3, Zenon DEF ModelName, Unset
    <2>4. CASE ModelName(job.model, default) # Unset /\ job.catalog \in HymtModels
      BY <2>2, <2>4, HymtEncodes
    <2>5. CASE ModelName(job.model, default) # Unset /\ job.catalog \notin HymtModels
      BY <2>1, <2>2, <2>5, GemmaEncodes DEF validateJobRequest, Find, Takes
    <2> QED BY <2>3, <2>4, <2>5
  <1> QED BY <1>1, Invariant, PTL

-----------------------------------------------------------------------------
\* No table has the empty name.
LEMMA NamesAreNotEmpty ==
    NoLanguage \notin SupportedLanguages /\ NoLanguage \notin HymtLanguages
  BY DEF NoLanguage, SupportedLanguages, HymtLanguages

\* The catalog describes what the preview takes.
LEMMA CatalogDescribes ==
    ASSUME NEW request
    PROVE  PreviewStatus(request) = 200 <=> Find(request.catalog) /\ Described(request)
  <1> DEFINE translation == request.translation
             taken == /\ Find(request.catalog) /\ ValidateTranslationRequest(translation)
                      /\ HasOptions(Profile(request)) /\ Takes(request.catalog, translation)
  <1>1. PreviewStatus(request) = 200 <=> taken
    BY DEF PreviewStatus
  <1>2. CASE request.catalog \in HymtModels
    <2>1. Described(request) =>
             HasOptions(Profile(request)) /\ ValidateTranslationRequest(translation) /\ HymtTakes(translation)
      BY <1>2, NamesAreNotEmpty DEF Described, Detail, Capabilities, HasOptions, Takes, HymtTakes,
         ValidateTranslationRequest, SupportsLanguage, HymtSupportsLanguage, Valid
    <2>2. taken => Described(request)
      BY <1>2, NamesAreNotEmpty DEF Described, Detail, Capabilities, HasOptions, Takes, HymtTakes,
         ValidateTranslationRequest, SupportsLanguage, HymtSupportsLanguage, Valid
    <2> QED BY <1>1, <1>2, <2>1, <2>2 DEF Find, Takes
  <1>3. CASE request.catalog \notin HymtModels
    <2>1. Described(request) =>
             HasOptions(Profile(request)) /\ ValidateTranslationRequest(translation) /\ GemmaTakes(translation)
      BY <1>3, NamesAreNotEmpty DEF Described, Detail, Capabilities, HasOptions, Takes, GemmaTakes,
         ValidateTranslationRequest, SupportsLanguage, GemmaSupportsLanguage, Valid,
         hasExtendedInstructions, PromptKinds
    <2>2. taken => Described(request)
      BY <1>3, NamesAreNotEmpty DEF Described, Detail, Capabilities, HasOptions, Takes, GemmaTakes,
         ValidateTranslationRequest, SupportsLanguage, GemmaSupportsLanguage, Valid,
         hasExtendedInstructions
    <2> QED BY <1>1, <1>3, <2>1, <2>2 DEF Takes
  <1> QED BY <1>2, <1>3

\* What the preview takes, the admission takes, and the reverse.
LEMMA AdmissionAgrees ==
    ASSUME NEW request
    PROVE  PreviewStatus(request) = 200 <=> validateJobRequest(request)
  BY DEF PreviewStatus, validateJobRequest, Takes, HymtTakes, GemmaTakes, SupportsLanguage

\* What the preview knows of a request that was admitted.
LEMMA PreviewShows ==
    ASSUME PipelineInv, phase \notin {"new", "previewed", "refused"}
    PROVE  /\ validateJobRequest(job)
           /\ preview.input = Input(job)
           /\ preview.options = Options(job.catalog, Profile(job))
  <1>1. validateJobRequest(job) /\ preview = PreviewModel(job)
    BY DEF PipelineInv
  <1>2. PreviewStatus(job) = 200
    BY <1>1, AdmissionAgrees
  <1> QED BY <1>1, <1>2 DEF PreviewModel, Input

-----------------------------------------------------------------------------
\* A text between two others.
LEMMA Framed ==
    ASSUME NEW S, NEW head \in Seq(S), NEW text \in Seq(S), NEW tail \in Seq(S), Len(tail) # 0,
           NEW prompt, prompt = (head \o text) \o tail
    PROVE  /\ prompt \in Seq(S) /\ Len(prompt) = Len(head) + Len(text) + Len(tail)
           /\ \A i \in 1..Len(head) : prompt[i] = head[i]
           /\ \A i \in 1..Len(text) : prompt[Len(head) + i] = text[i]
           /\ prompt[Len(head) + Len(text) + 1] = tail[1]
  <1>0. /\ Len(head) \in Nat /\ Len(text) \in Nat /\ Len(tail) \in Nat \ {0}
    BY LenProperties
  <1>1. /\ head \o text \in Seq(S)
        /\ Len(head \o text) = Len(head) + Len(text)
        /\ \A i \in 1 .. Len(head) + Len(text) : (head \o text)[i] =
                     IF i <= Len(head) THEN head[i] ELSE text[i - Len(head)]
    BY ConcatProperties
  <1> DEFINE front == head \o text
  <1> HIDE DEF front
  <1>2. /\ front \o tail \in Seq(S)
        /\ Len(front \o tail) = Len(front) + Len(tail)
        /\ \A i \in 1 .. Len(front) + Len(tail) : (front \o tail)[i] =
                     IF i <= Len(front) THEN front[i] ELSE tail[i - Len(front)]
    BY <1>1, ConcatProperties DEF front
  <1>3. /\ Len(front) = Len(head) + Len(text)
        /\ \A i \in 1 .. Len(front) : front[i] = IF i <= Len(head) THEN head[i] ELSE text[i - Len(head)]
        /\ prompt \in Seq(S)
        /\ Len(prompt) = Len(front) + Len(tail)
        /\ \A i \in 1 .. Len(front) + Len(tail) : prompt[i] = IF i <= Len(front) THEN front[i] ELSE tail[i - Len(front)]
    BY <1>1, <1>2 DEF front
  <1>4. \A i \in 1..Len(head) : prompt[i] = head[i]
    BY <1>0, <1>3
  <1>5. \A i \in 1..Len(text) : prompt[Len(head) + i] = text[i]
    BY <1>0, <1>3
  <1>6. prompt[Len(head) + Len(text) + 1] = tail[1]
    BY <1>0, <1>3
  <1> QED BY <1>3, <1>4, <1>5, <1>6

\* What the worker sends to TranslateGemma: the codes and the text are in it,
\* and the text between the marks.
LEMMA TemplateHolds ==
    ASSUME NEW request \in JobRequests, request.catalog \notin HymtModels,
           GemmaTakes(request.translation)
    PROVE  LET prompt == renderStructuredCompletionPrompt(Input(request))
               text   == request.translation.source
           IN /\ ToSet(text) \cup {Part(request).sourceCode, Part(request).targetCode} \subseteq ToSet(prompt)
              /\ EndOfTurn \notin ToSet(text) =>
                    SubSeq(prompt, Min({i \in DOMAIN prompt : prompt[i] = "text:"}) + 1,
                                   Min({i \in DOMAIN prompt : prompt[i] \in {EndOfTurn}}) - 1) = text
  <1> DEFINE user == "<bos><start_of_turn>user"
             from == "source_lang_code:"
             to == "target_lang_code:"
             begin == "text:"
             model == "<start_of_turn>model"
             source == LanguageCode(request.translation.sourceLanguage)
             target == LanguageCode(request.translation.target)
             S == STRING \cup {user, NewLine, from, source, to, target, begin, EndOfTurn, model}
             text == request.translation.source
             prompt == renderStructuredCompletionPrompt(Input(request))
  <1>1. /\ Part(request).text = text /\ Part(request).sourceCode = source
        /\ Part(request).targetCode = target /\ Input(request).parts[1] = Part(request)
    BY OnePart DEF Part
  <1>2. source \notin {begin, EndOfTurn} /\ target \notin {begin, EndOfTurn}
    BY Codes, Zenon DEF GemmaTakes, GemmaSupportsLanguage
  <1>3. \A token \in {user, NewLine, from, source, to, target} : token # begin /\ token # EndOfTurn
    BY <1>2, Zenon DEF NewLine, EndOfTurn
  <1>4. begin # EndOfTurn
    BY Zenon DEF EndOfTurn
  <1> HIDE DEF user, from, to, begin, model
  <1> DEFINE head == <<user, NewLine, from, source, NewLine, to, target, NewLine, begin>>
             tail == <<EndOfTurn, NewLine, model, NewLine>>
             n == Len(text)
  <1>5. prompt = (head \o text) \o tail
    BY <1>1, Zenon DEF renderStructuredCompletionPrompt, user, from, to, begin, model
  <1> HIDE DEF prompt, source, target
  <1>6. text \in Seq(S) /\ n \in Nat
    <2>1. text \in Seq(STRING)
      BY RequestsAssumption DEF Translations
    <2> QED BY <2>1, SeqMonotonic, LenProperties
  <1>7. /\ user \in S /\ NewLine \in S /\ from \in S /\ source \in S /\ to \in S /\ target \in S
        /\ begin \in S /\ EndOfTurn \in S /\ model \in S
    BY Zenon
  <1> HIDE DEF S, text
  <1>8. /\ prompt \in Seq(S) /\ Len(prompt) = n + 13
        /\ prompt[4] = source /\ prompt[7] = target
        /\ prompt[9] = begin /\ \A i \in 1..8 : prompt[i] # begin
        /\ \A i \in 1..n : prompt[9 + i] = text[i]
        /\ prompt[n + 10] = EndOfTurn /\ \A i \in 1..9 : prompt[i] # EndOfTurn
    <2>1. /\ head \in Seq(S) /\ Len(head) = 9
          /\ head[1] = user /\ head[2] = NewLine /\ head[3] = from /\ head[4] = source
          /\ head[5] = NewLine /\ head[6] = to /\ head[7] = target /\ head[8] = NewLine
          /\ head[9] = begin
      BY <1>7
    <2>2. tail \in Seq(S) /\ Len(tail) = 4 /\ tail[1] = EndOfTurn
      BY <1>7
    <2> HIDE DEF head, tail
    <2>3. /\ prompt \in Seq(S) /\ Len(prompt) = Len(head) + Len(text) + Len(tail)
          /\ \A i \in 1..Len(head) : prompt[i] = head[i]
          /\ \A i \in 1..Len(text) : prompt[Len(head) + i] = text[i]
          /\ prompt[Len(head) + Len(text) + 1] = tail[1]
      <3>1. text \in Seq(S) /\ head \in Seq(S) /\ tail \in Seq(S) /\ Len(tail) # 0
        BY <1>6, <2>1, <2>2
      <3> QED BY <1>5, <3>1, Framed
    <2> HIDE DEF n
    <2>4. /\ Len(prompt) = n + 13 /\ prompt[n + 10] = EndOfTurn
          /\ \A i \in 1..9 : prompt[i] = head[i]
          /\ \A i \in 1..n : prompt[9 + i] = text[i]
      BY <1>6, <2>1, <2>2, <2>3 DEF n
    <2>5. \A i \in 1..8 : head[i] \in {user, NewLine, from, source, to, target}
      <3> SUFFICES ASSUME NEW i \in 1..8
                   PROVE  head[i] \in {user, NewLine, from, source, to, target}
        OBVIOUS
      <3>1. i = 1 \/ i = 2 \/ i = 3 \/ i = 4 \/ i = 5 \/ i = 6 \/ i = 7 \/ i = 8
        OBVIOUS
      <3> QED BY <2>1, <3>1
    <2>6. \A i \in 1..8 : prompt[i] # begin /\ prompt[i] # EndOfTurn
      BY <1>3, <2>4, <2>5
    <2>7. prompt[9] = begin /\ prompt[4] = source /\ prompt[7] = target
      BY <2>1, <2>4
    <2>8. \A i \in 1..9 : prompt[i] # EndOfTurn
      BY <1>4, <2>6, <2>7
    <2> QED BY <2>3, <2>4, <2>6, <2>7, <2>8
  <1> DEFINE begins == {i \in DOMAIN prompt : prompt[i] = begin}
             ends == {i \in DOMAIN prompt : prompt[i] \in {EndOfTurn}}
  <1>9. ASSUME EndOfTurn \notin ToSet(text)
        PROVE  SubSeq(prompt, Min(begins) + 1, Min(ends) - 1) = text
    <2>1. DOMAIN text = 1..n /\ DOMAIN prompt = 1..(n + 13)
      BY <1>6, <1>8, LenProperties
    <2>2. \A i \in 1..n : text[i] # EndOfTurn
      BY <1>9, <2>1 DEF ToSet
    <2> HIDE DEF n
    <2>3. Min(begins) = 9
      <3>1. 9 \in begins /\ \A i \in begins : i \in Int /\ 9 <= i
        BY <1>6, <1>8, <2>1
      <3> QED BY <3>1 DEF Min
    <2>4. Min(ends) = n + 10
      <3>1. n + 10 \in ends
        BY <1>6, <1>8, <2>1
      <3>2. ASSUME NEW i \in ends PROVE i \in Int /\ n + 10 <= i
        <4>1. i \in 1..(n + 13) /\ prompt[i] = EndOfTurn
          BY <2>1
        <4>2. CASE i \in 10..(n + 9)
          <5>1. i - 9 \in 1..n /\ i = 9 + (i - 9)
            BY <1>6, <4>2
          <5>2. prompt[i] = text[i - 9]
            BY <1>8, <5>1
          <5> QED BY <2>2, <4>1, <5>1, <5>2
        <4> QED BY <1>6, <1>8, <4>1, <4>2
      <3> QED BY <1>6, <3>1, <3>2 DEF Min
    <2>5. \A i \in 10..(n + 9) : prompt[i] \in S
      BY <1>6, <1>8, <2>1, ElementOfSeq
    <2> DEFINE part == SubSeq(prompt, 10, n + 9)
    <2>6. /\ part \in Seq(S) /\ Len(part) = IF 10 <= n + 9 THEN (n + 9) - 10 + 1 ELSE 0
          /\ \A i \in 1..((n + 9) - 10 + 1) : part[i] = prompt[10 + i - 1]
      BY <1>6, <2>5, SubSeqProperties
    <2> HIDE DEF part
    <2>7. Len(part) = n /\ \A i \in 1..n : part[i] = text[i]
      BY <1>6, <1>8, <2>6
    <2>8. part = text
      BY <1>6, <2>6, <2>7, SeqEqual DEF n
    <2>9. Min(begins) + 1 = 10 /\ Min(ends) - 1 = n + 9
      BY <1>6, <2>3, <2>4
    <2> QED BY <2>8, <2>9 DEF part
  <1>10. ToSet(text) \cup {source, target} \subseteq ToSet(prompt)
    <2>1. /\ Len(text) \in Nat /\ DOMAIN text = 1..Len(text)
          /\ DOMAIN prompt = 1..(Len(text) + 13)
      BY <1>6, <1>8, LenProperties DEF n
    <2>2. source \in ToSet(prompt) /\ target \in ToSet(prompt)
      <3>1. 4 \in DOMAIN prompt /\ 7 \in DOMAIN prompt
        BY <2>1
      <3> QED BY <1>8, <3>1 DEF ToSet
    <2>3. ASSUME NEW i \in DOMAIN text PROVE text[i] \in ToSet(prompt)
      <3>1. 9 + i \in DOMAIN prompt /\ prompt[9 + i] = text[i]
        BY <1>8, <2>1
      <3> QED BY <3>1 DEF ToSet
    <2> QED BY <2>2, <2>3 DEF ToSet
  <1> QED BY <1>1, <1>9, <1>10, Zenon DEF prompt, text, begin

\* The one stop sequence of a payload that goes through the template.
LEMMA OneStop == ToSet(completionStopSequences(<<>>)) = {EndOfTurn}
  <1>1. EndOfTurn \notin ToSet(<<>>)
    <2>1. <<>> \in Seq({EndOfTurn}) /\ Len(<<>>) = 0
      BY EmptySeq
    <2> QED BY <2>1, LenProperties DEF ToSet
  <1>2. completionStopSequences(<<>>) = <<EndOfTurn>>
    BY <1>1 DEF completionStopSequences
  <1> QED BY <1>2 DEF ToSet

\* What the worker sends is what the preview showed, whichever way it goes.
LEMMA Sent ==
    ASSUME PipelineInv, phase = "sent"
    PROVE  LET bypass == requiresCompletionBypass(Input(job))
           IN /\ bypass <=> job.catalog \notin HymtModels
              /\ bypass <=> payload.path # "/chat/completions"
              /\ payload.prompt = IF bypass THEN renderStructuredCompletionPrompt(Input(job))
                                  ELSE Input(job).text
              /\ payload.options = IF bypass
                                   THEN [preview.options EXCEPT !.stop = completionStopSequences(<<>>)]
                                   ELSE preview.options
              /\ bypass => GemmaTakes(job.translation) /\ preview.options.stop = <<>>
  <1>1. /\ validateJobRequest(job) /\ preview.input = Input(job)
        /\ preview.options = Options(job.catalog, Profile(job))
    BY PreviewShows
  <1>2. PICK default \in DefaultModels : payload = Payload(job, default)
    BY DEF PipelineInv
  <1>3. job.catalog \notin HymtModels => GemmaTakes(job.translation)
    BY <1>1 DEF validateJobRequest, Takes
  <1>4. requiresCompletionBypass(Input(job)) <=> job.catalog \notin HymtModels
    BY <1>3, HymtChats, GemmaBypasses
  <1>5. Options(job.catalog, Profile(job)).stop = <<>>
    BY DEF Options, HymtOptions, GemmaOptions
  <1> QED BY <1>1, <1>2, <1>3, <1>4, <1>5 DEF Payload, EncodeRequest, RequestPath

\* The catalog, the preview and the admission agree on every request, and what
\* any worker sends later is what the preview showed.
THEOREM Predicted == Spec => []PreviewPredicts
  <1>1. PipelineInv => PreviewPredicts
    <2> SUFFICES ASSUME PipelineInv PROVE PreviewPredicts
      OBVIOUS
    <2>1. ASSUME phase # "new" PROVE preview.status = PreviewStatus(job)
      BY <2>1 DEF PipelineInv, PreviewModel
    <2>2. phase = "previewed" => (preview.status = 200 <=> Find(job.catalog) /\ Described(job))
      BY <2>1, CatalogDescribes
    <2>3. phase \notin {"new", "previewed"} => (phase = "refused" <=> preview.status # 200)
      BY <2>1, AdmissionAgrees DEF PipelineInv
    <2>4. ASSUME phase = "sent"
          PROVE  /\ [payload.options EXCEPT !.stop = <<>>] = [preview.options EXCEPT !.stop = <<>>]
                 /\ IF payload.path = "/chat/completions"
                    THEN payload.prompt = preview.input.text
                    ELSE \A token \in ToSet(preview.input.parts[1].text)
                                     \cup {preview.input.parts[1].sourceCode, preview.input.parts[1].targetCode} :
                            token \in ToSet(payload.prompt)
      <3>1. preview.input = Input(job) /\ job \in JobRequests
        BY <2>4, PreviewShows DEF PipelineInv
      <3>2. [payload.options EXCEPT !.stop = <<>>] = [preview.options EXCEPT !.stop = <<>>]
        BY <2>4, Sent
      <3>3. CASE payload.path = "/chat/completions"
        BY <2>4, <3>1, <3>2, <3>3, Sent
      <3>4. CASE payload.path # "/chat/completions"
        <4>1. /\ job.catalog \notin HymtModels /\ GemmaTakes(job.translation)
              /\ payload.prompt = renderStructuredCompletionPrompt(Input(job))
          BY <2>4, <3>4, Sent
        <4>2. Part(job).text = job.translation.source
          BY DEF Part
        <4>3. Input(job).parts[1] = Part(job)
          BY <4>1, OnePart
        <4>4. ToSet(Part(job).text) \cup {Part(job).sourceCode, Part(job).targetCode}
                 \subseteq ToSet(payload.prompt)
          BY <3>1, <4>1, <4>2, TemplateHolds
        <4> QED BY <3>1, <3>2, <3>4, <4>3, <4>4
      <3> QED BY <3>3, <3>4
    <2> QED BY <2>2, <2>3, <2>4 DEF PreviewPredicts
  <1> QED BY <1>1, Invariant, PTL

\* Whatever the source and however long, it stands whole between the marks of
\* TranslateGemma's template ...
LEMMA CarriedByTemplate ==
    ASSUME PipelineInv, phase = "sent", payload.path # "/chat/completions"
    PROVE  CarriedInTemplate
  <1>1. /\ job.catalog \notin HymtModels /\ GemmaTakes(job.translation) /\ job \in JobRequests
        /\ payload.prompt = renderStructuredCompletionPrompt(Input(job))
    BY Sent DEF PipelineInv
  <1>2. payload.options.stop = completionStopSequences(<<>>)
    <2>1. preview.options = GemmaOptions
      BY <1>1, PreviewShows DEF Options
    <2>2. payload.options = [preview.options EXCEPT !.stop = completionStopSequences(<<>>)]
      BY Sent
    <2> QED BY <2>1, <2>2 DEF GemmaOptions
  <1>3. ToSet(payload.options.stop) = {EndOfTurn}
    BY <1>2, OneStop
  <1> QED BY <1>1, <1>3, TemplateHolds, Zenon DEF CarriedInTemplate

\* A text of a request opens a block or is harmless.
LEMMA OpensOrHarmless ==
    ASSUME NEW text \in Seq(STRING), ~\E line \in ToSet(Lines(text)) : Opens(line)
    PROVE  text \in HarmlessTexts
  <1>1. text \in Seq(Tokens)
    <2>1. STRING \subseteq Tokens
      BY DEF Tokens
    <2> QED BY <2>1, SeqMonotonic
  <1>2. PICK lines \in LineSeqs : lines = Lines(text)
    BY <1>1, LinesType
  <1>3. DOMAIN lines = 1..Len(lines)
    BY LenProperties DEF LineSeqs
  <1>4. \A l \in 1..Len(lines) : ~Opens(lines[l])
    BY <1>2, <1>3 DEF ToSet
  <1> QED BY <1>1, <1>2, <1>4 DEF HarmlessTexts, Harmless

\* ... and in the fence of Hy-MT2's prompt, unless the request opens another.
LEMMA CarriedByFence ==
    ASSUME PipelineInv, phase = "sent", payload.path = "/chat/completions"
    PROVE  CarriedInFence
  <1> DEFINE translation == job.translation
  <1> SUFFICES ASSUME ~\E text \in Unquoted(translation) : \E line \in ToSet(Lines(text)) : Opens(line)
               PROVE  FirstBlock(payload.prompt) = [lines |-> Lines(translation.source), after |-> 0]
    BY Zenon DEF CarriedInFence
  <1>1. job.catalog \in HymtModels /\ job \in JobRequests /\ payload.prompt = Input(job).text
    BY Sent DEF PipelineInv
  <1>2. payload.prompt = BuildPrompt(translation)
    BY <1>1 DEF Input, BuildInput, HymtInput, PlainInput
  <1>3. translation \in Translations /\ IsFiniteSet(translation.glossary)
    BY <1>1, RequestsAssumption
  <1>4. /\ translation.source \in Seq(STRING) /\ translation.target \in STRING
        /\ translation.sourceLanguage \in STRING /\ translation.kind \in STRING
        /\ translation.glossary \in SUBSET Seq(STRING) /\ translation.style \in Seq(STRING)
        /\ translation.audience \in Seq(STRING) /\ translation.attributes \in Seq(STRING)
        /\ translation.delimiters \in Seq(Seq(STRING))
    BY <1>3 DEF Translations
  <1> HIDE DEF translation
  <1>5. \A text \in Unquoted(translation) : text \in HarmlessTexts
    <2>1. \A text \in Unquoted(translation) : text \in Seq(STRING)
      BY <1>4 DEF Unquoted
    <2> QED BY <2>1, OpensOrHarmless
  <1>6. /\ translation.glossary \in SUBSET HarmlessTexts /\ translation.style \in HarmlessTexts
        /\ translation.audience \in HarmlessTexts /\ translation.attributes \in HarmlessTexts
    BY <1>5 DEF Unquoted
  <1>7. STRING \subseteq Tokens
    BY DEF Tokens
  <1>8. translation.source \in Seq(Tokens) /\ translation.delimiters \in Seq(Seq(Tokens))
    <2>1. Seq(STRING) \subseteq Seq(Tokens)
      BY <1>7, SeqMonotonic
    <2> QED BY <1>4, <2>1, SeqMonotonic
  <1>9. Kind(translation) \in Tokens
    <2>1. Kind(translation) \in {"text", translation.kind}
      BY Zenon DEF Kind
    <2>2. "text" \in Tokens
      BY Zenon DEF Tokens, PromptWords
    <2> QED BY <1>4, <1>7, <2>1, <2>2
  <1>10. translation.target \in Tokens /\ translation.sourceLanguage \in Tokens
    BY <1>4, <1>7
  <1>11. FirstBlock(BuildPrompt(translation)) = [lines |-> Lines(translation.source), after |-> 0]
    BY <1>3, <1>6, <1>8, <1>9, <1>10, PromptCarriesSource
  <1> QED BY <1>2, <1>11 DEF translation

\* Either kind of payload carries the source whole, whatever the source and
\* however long (FenceSource of fence.go, renderStructuredCompletionPrompt).
THEOREM SourceCarried == Spec => []SourceCarriedWhole
  <1>1. PipelineInv => SourceCarriedWhole
    BY CarriedByFence, CarriedByTemplate DEF SourceCarriedWhole
  <1> QED BY <1>1, Invariant, PTL

-----------------------------------------------------------------------------
\* Counts of one text are those of the other when as many tokens are counted
\* and those of the left one are found in the right one, as often.
LEMMA EqualCountsEqual ==
    ASSUME NEW left, left = [token \in DOMAIN left |-> left[token]], IsFiniteSet(DOMAIN left),
           NEW right, right = [token \in DOMAIN right |-> right[token]], IsFiniteSet(DOMAIN right)
    PROVE  equalCounts(left, right) <=> left = right
  <1>1. ASSUME equalCounts(left, right) PROVE left = right
    <2>1. /\ Cardinality(DOMAIN left) = Cardinality(DOMAIN right)
          /\ \A token \in DOMAIN left : token \in DOMAIN right /\ right[token] = left[token]
      BY <1>1 DEF equalCounts, BagIn, BagToSet
    <2>2. DOMAIN left = DOMAIN right
      BY <2>1, FS_Subset
    <2> QED BY <2>1, <2>2
  <1>2. ASSUME left = right PROVE equalCounts(left, right)
    BY <1>2 DEF equalCounts, BagIn, BagToSet
  <1> QED BY <1>1, <1>2

LEMMA OccurrencesOf ==
    ASSUME NEW text \in Seq(STRING), NEW token
    PROVE  /\ Occurrences(token, text) \in Nat
           /\ token \in ToSet(text) <=> Occurrences(token, text) # 0
           /\ IsFiniteSet(ToSet(text))
  <1> DEFINE places == {i \in DOMAIN text : text[i] = token}
  <1>1. PICK n \in Nat : DOMAIN text = 1..n
    BY LenProperties
  <1>2. IsFiniteSet(DOMAIN text)
    BY <1>1, FS_Interval
  <1>3. IsFiniteSet(places)
    BY <1>2, FS_Subset
  <1>4. Cardinality(places) \in Nat /\ (Cardinality(places) = 0 <=> places = {})
    BY <1>3, FS_CardinalityType, FS_EmptySet
  <1>5. token \in ToSet(text) <=> places # {}
    BY DEF ToSet
  <1>6. IsFiniteSet(ToSet(text))
    <2>1. text \in Surjection(1..n, ToSet(text))
      BY <1>1 DEF Surjection, ToSet
    <2> QED BY <2>1, FS_NatSurjection DEF ExistsSurjection
  <1> QED BY <1>4, <1>5, <1>6 DEF Occurrences

\* What matchCounts returns: of the tokens, those that stand in the text.
Counted(tokens, text, counts) ==
    /\ counts = [token \in DOMAIN counts |-> counts[token]]
    /\ IsFiniteSet(DOMAIN counts)
    /\ \A token \in DOMAIN counts : token \in tokens /\ counts[token] = Occurrences(token, text)
    /\ \A token \in tokens : token \in DOMAIN counts <=> Occurrences(token, text) # 0

LEMMA CountsAreCounted ==
    ASSUME NEW text \in Seq(STRING), NEW tokens
    PROVE  Counted(tokens, text, matchCounts(tokens, text))
  <1>1. PICK S : S = tokens \cap ToSet(text)
    OBVIOUS
  <1>2. PICK counts : counts = [token \in S |-> Occurrences(token, text)]
    OBVIOUS
  <1>3. DOMAIN counts = S /\ \A token \in S : counts[token] = Occurrences(token, text)
    BY <1>2
  <1>4. counts = [token \in DOMAIN counts |-> counts[token]]
    BY <1>2
  <1>5. IsFiniteSet(ToSet(text)) /\ \A token : token \in ToSet(text) <=> Occurrences(token, text) # 0
    BY OccurrencesOf
  <1>6. IsFiniteSet(S)
    BY <1>1, <1>5, FS_Intersection
  <1>7. Counted(tokens, text, counts)
    BY <1>1, <1>3, <1>4, <1>5, <1>6 DEF Counted
  <1> QED BY <1>1, <1>2, <1>7 DEF matchCounts

\* A pattern finds a change if and only if a token of it stands more or less
\* often in the translation.
LEMMA PatternCompares ==
    ASSUME NEW source \in Seq(STRING), NEW target \in Seq(STRING), NEW tokens
    PROVE  comparePattern(tokens, source, target)
              <=> \A token \in tokens : Occurrences(token, source) = Occurrences(token, target)
  <1>1. PICK left : left = matchCounts(tokens, source)
    OBVIOUS
  <1>2. PICK right : right = matchCounts(tokens, target)
    OBVIOUS
  <1>3. Counted(tokens, source, left) /\ Counted(tokens, target, right)
    BY <1>1, <1>2, CountsAreCounted
  <1>4. comparePattern(tokens, source, target) <=> left = right
    BY <1>1, <1>2, <1>3, EqualCountsEqual DEF comparePattern, Counted
  <1>5. ASSUME left = right, NEW token \in tokens
        PROVE  Occurrences(token, source) = Occurrences(token, target)
    <2>1. CASE token \in DOMAIN left
      BY <1>3, <1>5, <2>1 DEF Counted
    <2>2. CASE token \notin DOMAIN left
      BY <1>3, <1>5, <2>2 DEF Counted
    <2> QED BY <2>1, <2>2
  <1>6. ASSUME \A token \in tokens : Occurrences(token, source) = Occurrences(token, target)
        PROVE  left = right
    <2>1. DOMAIN left = DOMAIN right
      BY <1>3, <1>6 DEF Counted
    <2>2. \A token \in DOMAIN left : left[token] = right[token]
      BY <1>3, <1>6, <2>1 DEF Counted
    <2> QED BY <1>3, <2>1, <2>2 DEF Counted
  <1> QED BY <1>4, <1>5, <1>6

LEMMA PatternsAndWords ==
    /\ Percentage \in Words
    /\ \A name \in DOMAIN Patterns : Patterns[name] \cap Words \subseteq {Percentage}
  <1>1. DOMAIN Patterns = {"placeholders_changed", "urls_changed", "emails_changed",
                           "windows_paths_changed", "posix_paths_changed"}
    BY DEF Patterns
  <1>2. /\ Patterns["placeholders_changed"] = {"{{name}}", Percentage}
        /\ Patterns["urls_changed"] = {"https://x.io/a/b"}
        /\ Patterns["emails_changed"] = {"a@x.io"}
        /\ Patterns["windows_paths_changed"] = {"C:\\a"}
        /\ Patterns["posix_paths_changed"] = {"/etc/hosts", "https://x.io/a/b"}
    BY DEF Patterns
  <1>3. {"{{name}}", "https://x.io/a/b", "a@x.io", "C:\\a", "/etc/hosts"} \cap Words = {}
    BY Zenon DEF Words, Percentage, Label
  <1>4. Percentage \in Words
    BY DEF Words
  <1> QED BY <1>1, <1>2, <1>3, <1>4, Zenon

NameIssues == DOMAIN Patterns \cup {"identifier_changed"}

LEMMA IssuesOfNames ==
    ASSUME NEW source \in Seq(STRING), NEW target \in Seq(STRING), NEW options
    PROVE  /\ \A name \in DOMAIN Patterns :
                 name \in GeneralIssues(source, target, options)
                    <=> ~comparePattern(Patterns[name], source, target)
           /\ "identifier_changed" \in GeneralIssues(source, target, options)
                 <=> \E identifier \in options.identifiers :
                        ~comparePattern({identifier}, source, target)
  <1>1. DOMAIN Patterns = {"placeholders_changed", "urls_changed", "emails_changed",
                           "windows_paths_changed", "posix_paths_changed"}
    BY DEF Patterns
  <1>2. DOMAIN Patterns \cap {"empty_source_output", "unexpected_prefix", "markdown_fences_changed",
                              "identifier_changed", "delimiters_changed"} = {}
    BY <1>1, Zenon
  <1>3. ASSUME NEW name \in DOMAIN Patterns
        PROVE  name \in GeneralIssues(source, target, options)
                  <=> ~comparePattern(Patterns[name], source, target)
    BY <1>2, Zenon DEF GeneralIssues
  <1>4. "identifier_changed" \in GeneralIssues(source, target, options)
           <=> \E identifier \in options.identifiers : ~comparePattern({identifier}, source, target)
    BY <1>2, Zenon DEF GeneralIssues
  <1> QED BY <1>3, <1>4

\* The check of a text reports a change of placeholders, addresses, paths or
\* identifiers if and only if one of them was lost, added or said twice; but a
\* percentage, which is a word, counts as a placeholder too (comparePattern and
\* equalCounts of validate.go, which looks up the tokens of the source only).
THEOREM NamesJudged ==
    ASSUME NEW source \in Seq(STRING), NEW target \in Seq(STRING), NEW options
    PROVE  GeneralIssues(source, target, options) \cap NameIssues = {}
              <=> /\ KeepsNames(source, target, options.identifiers)
                  /\ Occurrences(Percentage, source) = Occurrences(Percentage, target)
  <1> DEFINE Same(token) == Occurrences(token, source) = Occurrences(token, target)
  <1>1. GeneralIssues(source, target, options) \cap NameIssues = {}
           <=> /\ \A name \in DOMAIN Patterns : comparePattern(Patterns[name], source, target)
               /\ \A identifier \in options.identifiers : comparePattern({identifier}, source, target)
    BY IssuesOfNames, Zenon DEF NameIssues
  <1>2. \A tokens : comparePattern(tokens, source, target) <=> \A token \in tokens : Same(token)
    BY PatternCompares
  <1>3. KeepsNames(source, target, options.identifiers)
           <=> /\ \A name \in DOMAIN Patterns : \A token \in Patterns[name] \ Words : Same(token)
               /\ \A identifier \in options.identifiers : Same(identifier)
    BY Zenon DEF KeepsNames
  <1>4. "placeholders_changed" \in DOMAIN Patterns /\ Percentage \in Patterns["placeholders_changed"]
    BY DEF Patterns
  <1> HIDE DEF Same
  <1>5. (\A identifier \in options.identifiers : comparePattern({identifier}, source, target))
           <=> \A identifier \in options.identifiers : Same(identifier)
    BY <1>2, Zenon
  <1>6. (\A name \in DOMAIN Patterns : comparePattern(Patterns[name], source, target))
           <=> /\ \A name \in DOMAIN Patterns : \A token \in Patterns[name] \ Words : Same(token)
               /\ Same(Percentage)
    <2>1. ASSUME \A name \in DOMAIN Patterns : comparePattern(Patterns[name], source, target)
          PROVE  /\ \A name \in DOMAIN Patterns : \A token \in Patterns[name] \ Words : Same(token)
                 /\ Same(Percentage)
      BY <1>2, <1>4, <2>1
    <2>2. ASSUME \A name \in DOMAIN Patterns : \A token \in Patterns[name] \ Words : Same(token),
                 Same(Percentage), NEW name \in DOMAIN Patterns
          PROVE  comparePattern(Patterns[name], source, target)
      BY <1>2, <2>2, PatternsAndWords
    <2> QED BY <2>1, <2>2
  <1> QED BY <1>1, <1>3, <1>5, <1>6 DEF Same

\* Words may change: a translation of nothing else is not refused for its names,
\* unless a caller wants a word to be kept or a percentage was translated.
THEOREM WordsMayChange ==
    ASSUME NEW source \in Seq(STRING), NEW target \in Seq(STRING), NEW options,
           Faithful(source, target), options.identifiers \cap Words = {},
           ~Misread(source, target, options)
    PROVE  GeneralIssues(source, target, options) \cap NameIssues = {}
  <1>1. PICK n \in Nat : DOMAIN source = 1..n /\ DOMAIN target = 1..n
    BY LenProperties DEF Faithful
  <1>2. ASSUME NEW token, token \notin Words
        PROVE  Occurrences(token, source) = Occurrences(token, target)
    <2>1. \A i \in 1..n : source[i] = token <=> target[i] = token
      BY <1>1, <1>2 DEF Faithful
    <2>2. {i \in DOMAIN source : source[i] = token} = {i \in DOMAIN target : target[i] = token}
      BY <1>1, <2>1
    <2> QED BY <2>2 DEF Occurrences
  <1>3. KeepsNames(source, target, options.identifiers)
    BY <1>2, Zenon DEF KeepsNames
  <1>4. Occurrences(Percentage, source) = Occurrences(Percentage, target)
    BY DEF Misread
  <1> QED BY <1>3, <1>4, NamesJudged

\* What the caller checks is a text, and what the check said of it.
OutputInv ==
    /\ phase # "new" => job \in JobRequests
    /\ phase \in {"succeeded", "checked"} => output \in Seq(STRING)
    /\ phase = "checked" => issues = ValidateTranslation(job.translation.source, output, CheckOptions)

LEMMA OutputInvNext == OutputInv /\ [Next]_vars => OutputInv'
  <1> SUFFICES ASSUME OutputInv, [Next]_vars PROVE OutputInv'
    OBVIOUS
  <1> USE DEF OutputInv
  <1>1. ASSUME NEW request \in JobRequests, Preview(request) PROVE OutputInv'
    BY <1>1 DEF Preview
  <1>2. CASE Submit
    BY <1>2 DEF Submit
  <1>3. ASSUME NEW default \in DefaultModels, Process(default) PROVE OutputInv'
    BY <1>3 DEF Process
  <1>4. ASSUME NEW answer, GenerateFails(answer) PROVE OutputInv'
    BY <1>4 DEF GenerateFails
  <1>5. ASSUME phase = "sent", NEW text \in Answers(job.translation.source),
               Generate(Choice(text, <<>>)) \/ Generate(Choice(<<>>, text))
        PROVE  OutputInv'
    <2>1. text \in Seq(STRING)
      BY <1>5, AnswersAssumption
    <2>2. output' \in Seq(STRING)
      BY <1>5, <2>1 DEF Generate, DecodeResponse, Choice
    <2> QED BY <1>5, <2>2 DEF Generate
  <1>6. CASE Check
    BY <1>6 DEF Check, CheckOptions
  <1>7. CASE UNCHANGED vars
    BY <1>7 DEF vars, CheckOptions
  <1> QED BY <1>1, <1>2, <1>3, <1>4, <1>5, <1>6, <1>7 DEF Next, Answer

\* A translation that passes the check has every name, address, path and
\* identifier of its source, each as often, and no others, whatever the model
\* answered (ValidateTranslation of validate.go).
THEOREM NamesKept ==
    Spec => [](phase = "checked" /\ issues = {}
                  => KeepsNames(job.translation.source, output, Identifiers))
  <1>1. Init => OutputInv
    BY DEF Init, OutputInv
  <1>2. OutputInv => (phase = "checked" /\ issues = {}
                         => KeepsNames(job.translation.source, output, Identifiers))
    <2> SUFFICES ASSUME OutputInv, phase = "checked", issues = {}
                 PROVE  KeepsNames(job.translation.source, output, Identifiers)
      OBVIOUS
    <2>1. job.translation.source \in Seq(STRING) /\ output \in Seq(STRING)
      BY RequestsAssumption DEF OutputInv, Translations
    <2>2. GeneralIssues(job.translation.source, output, CheckOptions) = {}
      BY DEF OutputInv, ValidateTranslation
    <2>3. CheckOptions.identifiers = Identifiers
      BY DEF CheckOptions
    <2> QED BY <2>1, <2>2, <2>3, NamesJudged
  <1> QED BY <1>1, <1>2, OutputInvNext, PTL DEF Spec
=============================================================================
