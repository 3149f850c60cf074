-------------------------- MODULE JobHistoryProofs --------------------------
(***************************************************************************)
(* What holds of a caller's history and of a client that pages through it, *)
(* for every set of jobs, all retentions, every unit of time and page      *)
(* size: the invariants of the steps of JobHistory and HistoryPager, from  *)
(* which JobReadersProofs proves the theorems.                             *)
(***************************************************************************)
EXTENDS HistoryPager, TLAPS, FiniteSetTheorems, SequenceTheorems

Born == {j \in Jobs : rows[j].state # "unborn"}

\* The creation time of a job as its store compares it.
Age(j) == Cut(rows[j].created)

\* The types, and that time passes and only finitely many jobs were drawn.
HistoryInv ==
    /\ HistoryTypeOK
    /\ index \in [members : SUBSET Born, expires : Nat]
    /\ \A j \in Jobs : rows[j].since <= now
    /\ IsFiniteSet(Born)

\* The index ends with the job that was stored last.
IndexInv ==
    backend = "redis" /\ index.members # {} =>
        \E k \in Jobs : /\ rows[k].state \in {"stored", "gone"}
                        /\ Ends(k) = index.expires
                        /\ \A j \in Jobs : Stored(j) => rows[j].since <= rows[k].since

-----------------------------------------------------------------------------
\* The times that the stores compare: a cut time is at most a tick too early,
\* and cutting keeps the order.
LEMMA CutTime ==
    ASSUME NEW t \in Int
    PROVE  Cut(t) \in Int /\ Cut(t) <= t /\ t < Cut(t) + Tick /\ Cut(Cut(t)) = Cut(t)
  <1>1. Tick \in Nat \ {0}
    BY HistoryAssumption
  <1>2. PICK q : q = t \div Tick
    OBVIOUS
  <1>3. q \in Int /\ q * Tick <= t /\ t < q * Tick + Tick
    BY <1>1, <1>2, Z3
  <1>4. (q * Tick) \div Tick = q /\ q * Tick \in Int
    BY <1>1, <1>3, Z3
  <1>5. CASE backend \in {"memory", "sqlite"}
    BY <1>1, <1>5 DEF Cut
  <1>6. CASE backend \notin {"memory", "sqlite"}
    BY <1>2, <1>3, <1>4, <1>6 DEF Cut
  <1> QED BY <1>5, <1>6

LEMMA CutOrder ==
    ASSUME NEW s \in Int, NEW t \in Int, s <= t
    PROVE  Cut(s) <= Cut(t)
  <1>1. Tick \in Nat \ {0}
    BY HistoryAssumption
  <1>2. (s \div Tick) * Tick <= (t \div Tick) * Tick
    BY <1>1, Z3
  <1> QED BY <1>2 DEF Cut

\* A TTL is a whole number of units, and at least one.
LEMMA WholeSecondsType ==
    ASSUME NEW ttl \in Int
    PROVE  WholeSeconds(ttl) \in Nat
  <1>1. Second \in Nat \ {0}
    BY HistoryAssumption
  <1>2. ttl >= Second => (ttl \div Second) * Second \in Nat
    BY <1>1, Z3
  <1>3. CASE ttl < Second
    BY <1>1, <1>3 DEF WholeSeconds
  <1>4. CASE ~(ttl < Second)
    BY <1>1, <1>2, <1>4 DEF WholeSeconds
  <1> QED BY <1>3, <1>4

\* Times that int64 holds are encoded as themselves.
LEMMA EncodeRange ==
    ASSUME NEW t \in Nat
    PROVE  EncodeTime(t) \in Int /\ (t < Horizon => EncodeTime(t) = t)
  <1>1. Horizon \in Nat \ {0}
    BY HistoryAssumption
  <1>2. PICK m : m = (t + Horizon) % (2 * Horizon)
    OBVIOUS
  <1>3. m \in Int
    BY <1>1, <1>2, Z3
  <1>4. t < Horizon => m = t + Horizon
    BY <1>1, <1>2, Z3
  <1> QED BY <1>1, <1>2, <1>3, <1>4 DEF EncodeTime

\* The rows and the index, in a form the proofs use.
LEMMA Rows ==
    ASSUME HistoryInv
    PROVE  /\ backend \in Backends /\ now \in 0..MaxTime /\ MaxTime \in Nat
           /\ rows \in [Jobs -> Row]
           /\ index \in [members : SUBSET Born, expires : Nat]
           /\ \A j \in Jobs : /\ rows[j].created \in 0..MaxTime /\ rows[j].since \in 0..now
                              /\ rows[j].expires \in Nat /\ rows[j].state \in RowStates
                              /\ Age(j) \in Int /\ Ends(j) \in Nat
           /\ IsFiniteSet(Born)
  <1>1. /\ backend \in Backends /\ now \in 0..MaxTime /\ MaxTime \in Nat
        /\ rows \in [Jobs -> Row]
        /\ index \in [members : SUBSET Born, expires : Nat]
        /\ \A j \in Jobs : rows[j].since <= now
        /\ IsFiniteSet(Born)
    BY HistoryAssumption DEF HistoryInv, HistoryTypeOK
  <1>2. ASSUME NEW j \in Jobs
        PROVE  /\ rows[j].created \in 0..MaxTime /\ rows[j].since \in 0..now
               /\ rows[j].expires \in Nat /\ rows[j].state \in RowStates
    BY <1>1 DEF Row
  <1>3. \A j \in Jobs : Age(j) \in Int
    BY <1>1, <1>2, CutTime DEF Age
  <1>4. ASSUME NEW j \in Jobs PROVE Ends(j) \in Nat
    <2>1. rows[j].since \in Nat /\ rows[j].expires \in Nat
      BY <1>1, <1>2
    <2>2. rows[j].expires - rows[j].since \in Int
      BY <2>1
    <2>3. WholeSeconds(rows[j].expires - rows[j].since) \in Nat
      BY <2>2, WholeSecondsType
    <2> QED BY <2>1, <2>3 DEF Ends
  <1> QED BY <1>1, <1>2, <1>3, <1>4

\* Initially no job was drawn.
LEMMA HistoryInvInit == HistoryInit => HistoryInv /\ IndexInv
  <1> SUFFICES ASSUME HistoryInit PROVE HistoryInv /\ IndexInv
    OBVIOUS
  <1>1. Born = {} /\ IsFiniteSet(Born)
    BY FS_EmptySet DEF HistoryInit, Born
  <1> QED
    BY <1>1, HistoryAssumption
    DEF HistoryInit, HistoryInv, HistoryTypeOK, IndexInv, Row, RowStates

\* What Enter and Without make of the rows, row by row.
LEMMA EnterRow ==
    ASSUME rows \in [Jobs -> Row], now \in 0..MaxTime, NEW k \in Jobs
    PROVE  /\ Enter(k) \in [Jobs -> Row]
           /\ Enter(k)[k] = [state |-> "stored", created |-> rows[k].created,
                             expires |-> rows[k].expires, since |-> now]
           /\ \A j \in Jobs : j # k => Enter(k)[j] = rows[j]
  <1>1. PICK row : row = [state |-> "stored", created |-> rows[k].created,
                          expires |-> rows[k].expires, since |-> now]
    OBVIOUS
  <1>2. rows[k] \in Row
    OBVIOUS
  <1>3. row \in Row
    BY <1>1, <1>2 DEF Row, RowStates
  <1>4. PICK first : first = [rows EXCEPT ![k].state = "stored"]
    OBVIOUS
  <1>5. first[k] = [state |-> "stored", created |-> rows[k].created,
                    expires |-> rows[k].expires, since |-> rows[k].since]
    BY <1>2, <1>4 DEF Row
  <1>6. Enter(k) = [first EXCEPT ![k].since = now]
    BY <1>4 DEF Enter
  <1>7. [first[k] EXCEPT !.since = now] = row
    BY <1>1, <1>5
  <1>8. first \in [Jobs -> Row] /\ \A j \in Jobs : j # k => first[j] = rows[j]
    <2>1. [rows[k] EXCEPT !.state = "stored"] \in Row
      BY <1>2 DEF Row, RowStates
    <2>2. first = [rows EXCEPT ![k] = [rows[k] EXCEPT !.state = "stored"]]
      BY <1>4
    <2> QED BY <2>1, <2>2
  <1>9. Enter(k) = [first EXCEPT ![k] = row]
    BY <1>6, <1>7, <1>8
  <1>10. Enter(k) \in [Jobs -> Row] /\ Enter(k)[k] = row
    BY <1>3, <1>8, <1>9
  <1>11. \A j \in Jobs : j # k => Enter(k)[j] = rows[j]
    BY <1>8, <1>9
  <1> QED BY <1>1, <1>10, <1>11

LEMMA WithoutRow ==
    ASSUME rows \in [Jobs -> Row], NEW S
    PROVE  /\ Without(S) \in [Jobs -> Row]
           /\ \A j \in Jobs :
                 /\ Without(S)[j].created = rows[j].created
                 /\ Without(S)[j].expires = rows[j].expires
                 /\ Without(S)[j].since = rows[j].since
                 /\ Without(S)[j].state = IF j \in S THEN "gone" ELSE rows[j].state
  <1>1. ASSUME NEW j \in Jobs
        PROVE  /\ Without(S)[j] \in Row
               /\ Without(S)[j].created = rows[j].created
               /\ Without(S)[j].expires = rows[j].expires
               /\ Without(S)[j].since = rows[j].since
               /\ Without(S)[j].state = IF j \in S THEN "gone" ELSE rows[j].state
    <2>1. rows[j] \in Row
      OBVIOUS
    <2>2. Without(S)[j] = IF j \in S THEN [rows[j] EXCEPT !.state = "gone"] ELSE rows[j]
      BY DEF Without
    <2> QED BY <2>1, <2>2 DEF Row, RowStates
  <1>2. Without(S) = [j \in Jobs |-> Without(S)[j]]
    BY DEF Without
  <1> QED BY <1>1, <1>2

\* How one step moves a row: a drawn one is stored or dropped, a stored one may
\* be gone, and the times of a row stay.
LEMMA RowsMove ==
    ASSUME HistoryInv, [HistoryStep]_historyVars
    PROVE  /\ UNCHANGED backend /\ now <= now' /\ now' \in 0..MaxTime
           /\ rows' \in [Jobs -> Row]
           /\ \A j \in Jobs :
                 \/ rows[j].state = "unborn" /\ rows'[j].state = "drawn" /\ rows'[j].since = 0
                 \/ /\ rows'[j].created = rows[j].created
                    /\ rows'[j].expires = rows[j].expires
                    /\ \/ rows'[j].state = rows[j].state /\ rows'[j].since = rows[j].since
                       \/ /\ rows[j].state = "drawn" /\ rows'[j].state = "stored"
                          /\ rows'[j].since = now
                       \/ /\ rows[j].state \in {"drawn", "stored"} /\ rows'[j].state = "gone"
                          /\ rows'[j].since = rows[j].since
  <1> DEFINE Moved(j) ==
                 \/ rows[j].state = "unborn" /\ rows'[j].state = "drawn" /\ rows'[j].since = 0
                 \/ /\ rows'[j].created = rows[j].created
                    /\ rows'[j].expires = rows[j].expires
                    /\ \/ rows'[j].state = rows[j].state /\ rows'[j].since = rows[j].since
                       \/ /\ rows[j].state = "drawn" /\ rows'[j].state = "stored"
                          /\ rows'[j].since = now
                       \/ /\ rows[j].state \in {"drawn", "stored"} /\ rows'[j].state = "gone"
                          /\ rows'[j].since = rows[j].since
  <1>1. now \in 0..MaxTime /\ MaxTime \in Nat /\ rows \in [Jobs -> Row]
    BY Rows
  <1> SUFFICES /\ UNCHANGED backend /\ now <= now' /\ now' \in 0..MaxTime
               /\ rows' \in [Jobs -> Row] /\ \A j \in Jobs : Moved(j)
    OBVIOUS
  <1>2. ASSUME NEW k \in Jobs, NEW retention \in Retentions, Draw(k, retention)
        PROVE  rows' \in [Jobs -> Row] /\ \A j \in Jobs : Moved(j)
    <2>1. PICK row : row = [state |-> "drawn", created |-> now, expires |-> now + retention,
                            since |-> 0]
      OBVIOUS
    <2>2. row \in Row
      BY <1>1, <2>1, HistoryAssumption DEF Row, RowStates
    <2>3. rows[k].state = "unborn" /\ rows' = [rows EXCEPT ![k] = row]
      BY <1>2, <2>1 DEF Draw
    <2> QED BY <1>1, <2>1, <2>2, <2>3
  <1>3. ASSUME NEW k \in Jobs, rows[k].state = "drawn", rows' = Enter(k)
        PROVE  rows' \in [Jobs -> Row] /\ \A j \in Jobs : Moved(j)
    <2>1. /\ rows'[k].state = "stored" /\ rows'[k].created = rows[k].created
          /\ rows'[k].expires = rows[k].expires /\ rows'[k].since = now
          /\ rows' \in [Jobs -> Row] /\ \A j \in Jobs : j # k => rows'[j] = rows[j]
      <3>1. PICK row : row = [state |-> "stored", created |-> rows[k].created,
                              expires |-> rows[k].expires, since |-> now]
        OBVIOUS
      <3>2. /\ Enter(k)[k] = row /\ Enter(k) \in [Jobs -> Row]
            /\ \A j \in Jobs : j # k => Enter(k)[j] = rows[j]
        BY <1>1, <3>1, EnterRow
      <3> QED BY <1>3, <3>1, <3>2
    <2> QED BY <1>3, <2>1
  <1>4. ASSUME NEW k \in Jobs, rows[k].state = "drawn", rows' = [rows EXCEPT ![k].state = "gone"]
        PROVE  rows' \in [Jobs -> Row] /\ \A j \in Jobs : Moved(j)
    <2>1. PICK row : row = [rows[k] EXCEPT !.state = "gone"]
      OBVIOUS
    <2>2. /\ row \in Row /\ row.state = "gone" /\ row.created = rows[k].created
          /\ row.expires = rows[k].expires /\ row.since = rows[k].since
      <3>1. rows[k] \in Row
        BY <1>1
      <3> QED BY <2>1, <3>1 DEF Row, RowStates
    <2>3. rows' = [rows EXCEPT ![k] = row]
      BY <1>4, <2>1
    <2> QED BY <1>1, <1>4, <2>2, <2>3
  <1>5. ASSUME NEW t, rows' \in {rows, Without(Expired(t))}
        PROVE  rows' \in [Jobs -> Row] /\ \A j \in Jobs : Moved(j)
    BY <1>1, <1>5, WithoutRow DEF Expired, Stored
  <1>6. ASSUME NEW k \in Jobs, NEW retention \in Retentions, Draw(k, retention)
        PROVE  UNCHANGED <<backend, now>>
    BY <1>6 DEF Draw
  <1>7. CASE \E k \in Jobs : Insert(k) \/ RedisInsert(k)
    <2>1. PICK k \in Jobs : Insert(k) \/ RedisInsert(k)
      BY <1>7
    <2>2. /\ rows[k].state = "drawn" /\ UNCHANGED <<backend, now>>
          /\ rows' \in {Enter(k), [rows EXCEPT ![k].state = "gone"]}
      BY <2>1 DEF Insert, RedisInsert
    <2> QED BY <1>1, <1>3, <1>4, <2>2
  <1>8. CASE Advance
    <2>1. now < MaxTime /\ now' = now + 1 /\ UNCHANGED backend
      BY <1>8 DEF Advance
    <2>2. rows' \in {rows, Without(Expired(now'))}
      BY <1>8 DEF Advance
    <2>3. now <= now' /\ now' \in 0..MaxTime
      BY <1>1, <2>1
    <2> QED BY <1>5, <2>1, <2>2, <2>3
  <1>9. CASE DeleteExpired
    BY <1>1, <1>5, <1>9 DEF DeleteExpired
  <1>10. CASE UNCHANGED historyVars
    BY <1>1, <1>10 DEF historyVars
  <1> QED BY <1>1, <1>2, <1>6, <1>7, <1>8, <1>9, <1>10 DEF HistoryStep

\* The end of a job that was stored stays.
LEMMA EndsStays ==
    ASSUME HistoryInv, [HistoryStep]_historyVars,
           NEW k \in Jobs, rows[k].state \in {"stored", "gone"}
    PROVE  /\ rows'[k].state \in {"stored", "gone"}
           /\ rows'[k].created = rows[k].created /\ rows'[k].expires = rows[k].expires
           /\ rows'[k].since = rows[k].since /\ Ends(k)' = Ends(k)
  <1>1. /\ rows'[k].state \in {"stored", "gone"} /\ rows'[k].created = rows[k].created
        /\ rows'[k].expires = rows[k].expires /\ rows'[k].since = rows[k].since
        /\ UNCHANGED backend
    BY RowsMove
  <1> QED BY <1>1 DEF Ends, WholeSeconds

\* The index as one step leaves it.
LEMMA IndexMoves ==
    ASSUME HistoryInv, [HistoryStep]_historyVars
    PROVE  index' \in [members : SUBSET Born', expires : Nat]
  <1>1. /\ index \in [members : SUBSET Born, expires : Nat] /\ rows \in [Jobs -> Row]
        /\ now \in Nat
    BY Rows
  <1>2. Born \subseteq Born'
    BY RowsMove DEF Born
  <1>3. CASE UNCHANGED index
    BY <1>1, <1>2, <1>3
  <1>4. ASSUME NEW k \in Jobs, RedisInsert(k), rows[k].expires - now > 0
        PROVE  index' \in [members : SUBSET Born', expires : Nat]
    <2>1. PICK young \in SUBSET index.members :
             index' = [members |-> young \cup {k},
                       expires |-> now + WholeSeconds(rows[k].expires - now)]
      BY <1>4 DEF RedisInsert
    <2>2. rows[k].state = "drawn" /\ rows[k].expires \in Nat
      BY <1>1, <1>4, Rows DEF RedisInsert
    <2>3. now + WholeSeconds(rows[k].expires - now) \in Nat
      <3>1. WholeSeconds(rows[k].expires - now) \in Nat
        BY <1>1, <2>2, WholeSecondsType
      <3> QED BY <1>1, <3>1
    <2>4. k \in Born'
      BY <1>2, <2>2 DEF Born
    <2>5. young \cup {k} \in SUBSET Born'
      BY <1>1, <1>2, <2>4
    <2> QED BY <2>1, <2>3, <2>5
  <1>5. ASSUME NEW k \in Jobs, RedisInsert(k), ~(rows[k].expires - now > 0)
        PROVE  UNCHANGED index
    BY <1>5 DEF RedisInsert
  <1>6. ASSUME Advance PROVE index' \in {index, [index EXCEPT !.members = {}]}
    BY <1>6 DEF Advance
  <1>7. [index EXCEPT !.members = {}] \in [members : SUBSET Born', expires : Nat]
    BY <1>1
  <1>8. CASE Advance
    BY <1>3, <1>6, <1>7, <1>8
  <1>9. CASE ~Advance /\ ~\E k \in Jobs : RedisInsert(k)
    BY <1>3, <1>9 DEF HistoryStep, Draw, Insert, DeleteExpired, historyVars
  <1> QED BY <1>3, <1>4, <1>5, <1>8, <1>9

\* Every step keeps the types; only a job that is drawn now is new.
LEMMA HistoryInvNext ==
    ASSUME HistoryInv, [HistoryStep]_historyVars
    PROVE  HistoryInv'
  <1>1. /\ backend \in Backends /\ now \in 0..MaxTime /\ MaxTime \in Nat
        /\ \A j \in Jobs : rows[j].since \in 0..now
        /\ IsFiniteSet(Born)
    BY Rows
  <1>2. IsFiniteSet(Born')
    <2>1. CASE \E k \in Jobs, retention \in Retentions : Draw(k, retention)
      <3>1. PICK k \in Jobs : \A j \in Jobs : j # k => rows'[j] = rows[j]
        <4>1. PICK k \in Jobs, retention \in Retentions : Draw(k, retention)
          BY <2>1
        <4>2. \A j \in Jobs : j # k => rows'[j] = rows[j]
          BY <4>1, Rows DEF Draw
        <4> QED BY <4>2
      <3>2. Born' \subseteq Born \cup {k}
        BY <3>1 DEF Born
      <3> QED BY <1>1, <3>2, FS_AddElement, FS_Subset
    <2>2. CASE ~\E k \in Jobs, retention \in Retentions : Draw(k, retention)
      <3>1. \A j \in Jobs : rows[j].state = "unborn" => rows'[j].state = "unborn"
        <4>1. rows \in [Jobs -> Row]
          BY Rows
        <4>2. ASSUME NEW k \in Jobs, Insert(k) \/ RedisInsert(k), NEW j \in Jobs,
                     rows[j].state = "unborn"
              PROVE  rows'[j].state = "unborn"
          <5>1. now \in 0..MaxTime
            BY Rows
          <5>2. rows[k].state = "drawn" /\ j # k
            BY <4>2 DEF Insert, RedisInsert
          <5>3. rows' \in {Enter(k), [rows EXCEPT ![k].state = "gone"]}
            BY <4>2 DEF Insert, RedisInsert
          <5> QED BY <4>1, <4>2, <5>1, <5>2, <5>3, EnterRow
        <4>3. ASSUME Advance \/ DeleteExpired, NEW j \in Jobs, rows[j].state = "unborn"
              PROVE  rows'[j].state = "unborn"
          <5>1. PICK t : rows' \in {rows, Without(Expired(t))}
            BY <4>3 DEF Advance, DeleteExpired
          <5> QED BY <4>1, <4>3, <5>1, WithoutRow DEF Expired, Stored
        <4> QED BY <2>2, <4>2, <4>3 DEF HistoryStep, historyVars
      <3>2. Born' \subseteq Born
        BY <3>1 DEF Born
      <3> QED BY <1>1, <3>2, FS_Subset
    <2> QED BY <2>1, <2>2
  <1>3. backend' \in Backends /\ now' \in 0..MaxTime /\ rows' \in [Jobs -> Row]
    BY <1>1, RowsMove
  <1>4. \A j \in Jobs : rows'[j].since <= now'
    <2>1. now \in Nat /\ now' \in Nat /\ now <= now'
      BY <1>1, <1>3, RowsMove
    <2>2. \A j \in Jobs : rows'[j].since \in {0, now, rows[j].since}
      BY RowsMove
    <2> QED BY <1>1, <2>1, <2>2
  <1>5. index' \in [members : SUBSET Born', expires : Nat]
    BY IndexMoves
  <1>6. index'.members \subseteq Jobs /\ index'.expires \in Nat
    BY <1>5 DEF Born
  <1> QED BY <1>2, <1>3, <1>4, <1>5, <1>6 DEF HistoryInv, HistoryTypeOK

-----------------------------------------------------------------------------
\* The TTL of the index stays that of the job stored last.
LEMMA IndexInvNext ==
    ASSUME HistoryInv, IndexInv, [HistoryStep]_historyVars
    PROVE  IndexInv'
  <1>1. /\ now \in Nat /\ rows \in [Jobs -> Row] /\ UNCHANGED backend
        /\ \A j \in Jobs : rows[j].since \in 0..now /\ rows[j].expires \in Nat
    BY Rows, RowsMove
  <1>2. CASE index'.members \subseteq index.members /\ index'.expires = index.expires
             /\ \A j \in Jobs : Stored(j)' => Stored(j)
    <2>1. SUFFICES ASSUME backend = "redis", index.members # {}
                   PROVE  \E k \in Jobs : /\ rows'[k].state \in {"stored", "gone"}
                                          /\ Ends(k)' = index'.expires
                                          /\ \A j \in Jobs : Stored(j)' =>
                                                rows'[j].since <= rows'[k].since
      BY <1>1, <1>2 DEF IndexInv
    <2>2. PICK k \in Jobs : /\ rows[k].state \in {"stored", "gone"}
                           /\ Ends(k) = index.expires
                           /\ \A j \in Jobs : Stored(j) => rows[j].since <= rows[k].since
      BY <2>1 DEF IndexInv
    <2>3. /\ rows'[k].state \in {"stored", "gone"}
          /\ Ends(k)' = index'.expires /\ rows'[k].since = rows[k].since
      BY <1>2, <2>2, EndsStays
    <2>4. \A j \in Jobs : Stored(j)' => Stored(j) /\ rows'[j].since = rows[j].since
      BY <1>2, RowsMove DEF Stored
    <2> QED BY <2>2, <2>3, <2>4
  <1>3. ASSUME NEW k \in Jobs, RedisInsert(k), rows[k].expires - now > 0 PROVE IndexInv'
    <2>1. /\ rows' = Enter(k) /\ backend = "redis"
          /\ index'.expires = now + WholeSeconds(rows[k].expires - now)
      BY <1>3 DEF RedisInsert
    <2>2. /\ rows'[k].state = "stored" /\ rows'[k].expires = rows[k].expires
          /\ rows'[k].since = now
          /\ \A j \in Jobs : j # k => rows'[j] = rows[j]
      <3>1. now \in 0..MaxTime
        BY Rows
      <3>2. PICK row : row = [state |-> "stored", created |-> rows[k].created,
                              expires |-> rows[k].expires, since |-> now]
        OBVIOUS
      <3>3. Enter(k)[k] = row /\ \A j \in Jobs : j # k => Enter(k)[j] = rows[j]
        BY <1>1, <3>1, <3>2, EnterRow
      <3> QED BY <2>1, <3>2, <3>3
    <2>3. Ends(k)' = index'.expires
      BY <1>1, <2>1, <2>2 DEF Ends, WholeSeconds
    <2>4. \A j \in Jobs : rows'[j].since <= rows'[k].since
      BY <1>1, <2>2
    <2> QED BY <2>2, <2>3, <2>4 DEF IndexInv
  <1>4. ASSUME NEW k \in Jobs, RedisInsert(k), ~(rows[k].expires - now > 0) PROVE IndexInv'
    <2>1. UNCHANGED index /\ rows' = [rows EXCEPT ![k].state = "gone"]
      BY <1>4 DEF RedisInsert
    <2>2. \A j \in Jobs : Stored(j)' => Stored(j)
      BY <1>1, <2>1 DEF Stored
    <2> QED BY <1>2, <2>1, <2>2
  <1>5. CASE Advance
    <2>1. /\ index' \in {index, [index EXCEPT !.members = {}]}
          /\ \E S : rows' \in {rows, Without(S)}
      BY <1>5 DEF Advance
    <2>2. index'.members \subseteq index.members /\ index'.expires = index.expires
      BY <2>1, Rows
    <2>3. \A j \in Jobs : Stored(j)' => Stored(j)
      BY <1>1, <2>1, WithoutRow DEF Stored
    <2> QED BY <1>2, <2>2, <2>3
  <1>6. CASE DeleteExpired \/ UNCHANGED historyVars
    <2>1. UNCHANGED index /\ \E S : rows' \in {rows, Without(S)}
      BY <1>6 DEF DeleteExpired, historyVars
    <2>2. \A j \in Jobs : Stored(j)' => Stored(j)
      BY <1>1, <2>1, WithoutRow DEF Stored
    <2> QED BY <1>2, <2>1, <2>2
  <1>7. ASSUME NEW k \in Jobs, NEW retention \in Retentions, Draw(k, retention) PROVE IndexInv'
    <2>1. UNCHANGED index /\ \A j \in Jobs : Stored(j)' => Stored(j)
      BY <1>1, <1>7 DEF Draw, Stored
    <2> QED BY <1>2, <2>1
  <1>8. ASSUME NEW k \in Jobs, Insert(k) PROVE IndexInv'
    BY <1>1, <1>8 DEF Insert, IndexInv
  <1> QED BY <1>3, <1>4, <1>5, <1>6, <1>7, <1>8 DEF HistoryStep

\* A job trimmed from the index by one of a retention that is no shorter is in
\* the last unit of its life.
LEMMA Trimmed ==
    ASSUME NEW t \in Nat, NEW created \in Nat, NEW lasts \in Int, NEW other \in Int,
           lasts <= other, Cut(created) <= Cut(t - other)
    PROVE  created + lasts - t < Tick
  <1>1. PICK cutoff : cutoff = t - other
    OBVIOUS
  <1>2. cutoff \in Int /\ Tick \in Nat
    BY <1>1, HistoryAssumption
  <1>3. Cut(cutoff) \in Int /\ Cut(cutoff) <= cutoff
    BY <1>2, CutTime
  <1>4. Cut(created) \in Int /\ created < Cut(created) + Tick
    BY CutTime
  <1>5. Cut(created) <= Cut(cutoff)
    BY <1>1
  <1> QED BY <1>1, <1>2, <1>3, <1>4, <1>5

\* What an insertion takes out of the index.
LEMMA IndexTrims ==
    ASSUME HistoryInv, NEW k \in Jobs, RedisInsert(k), rows[k].expires - now > 0,
           NEW j, j \notin index'.members
    PROVE  /\ rows[k].state = "drawn" /\ rows' = Enter(k) /\ now' = now /\ j # k
           /\ j \in index.members =>
                 Cut(rows[j].created) <= Cut(rows[k].created - (rows[k].expires - now))
  <1>1. PICK cutoff : cutoff = rows[k].created - (rows[k].expires - now)
    OBVIOUS
  <1>2. /\ rows[k].state = "drawn" /\ rows' = Enter(k) /\ now' = now
        /\ index'.members = {i \in index.members : Cut(rows[i].created) > Cut(cutoff)} \cup {k}
    BY <1>1 DEF RedisInsert
  <1>3. j # k /\ (j \in index.members => ~(Cut(rows[j].created) > Cut(cutoff)))
    BY <1>2
  <1>4. j \in index.members => Cut(rows[j].created) \in Int /\ Cut(cutoff) \in Int
    <2>1. j \in index.members => j \in Jobs
      BY Rows DEF Born
    <2>2. cutoff \in Int
      BY <1>1, Rows
    <2>3. j \in index.members => rows[j].created \in Int
      BY <2>1, Rows
    <2> QED BY <2>2, <2>3, CutTime
  <1> QED BY <1>1, <1>2, <1>3, <1>4

\* The index covers what lives, but for the exceptions that IndexCoversLive
\* names: trimming and the TTL of the index take no other job.
LEMMA IndexCoversNext ==
    ASSUME HistoryInv, IndexInv, IndexCoversLive, [HistoryStep]_historyVars
    PROVE  IndexCoversLive'
  <1> DEFINE Later(j) == \E k \in Jobs :
                 /\ rows[k].state \in {"stored", "gone"} /\ rows[k].since >= rows[j].since
                 /\ Retention(k) < Retention(j) \/ Ends(k) <= now
  <1>1. /\ now \in Nat /\ now' \in Nat /\ now <= now' /\ UNCHANGED backend
        /\ rows \in [Jobs -> Row] /\ Tick \in Nat
        /\ \A j \in Jobs : /\ rows[j].since \in 0..now /\ rows[j].expires \in Nat
                           /\ rows[j].created \in Nat
    BY Rows, RowsMove, HistoryAssumption
  <1>2. SUFFICES ASSUME backend = "redis", NEW j \in Jobs, Stored(j)', j \notin index'.members
                 PROVE  rows'[j].expires - now' < Tick \/ Later(j)'
    BY <1>1 DEF IndexCoversLive
  <1>3. ASSUME Stored(j) PROVE /\ rows'[j].expires = rows[j].expires
                               /\ rows'[j].created = rows[j].created
                               /\ rows'[j].since = rows[j].since
                               /\ Retention(j)' = Retention(j)
    BY <1>3, RowsMove DEF Stored, Retention
  <1>4. ASSUME NEW k \in Jobs, rows[k].state \in {"stored", "gone"}
        PROVE  /\ rows'[k].state \in {"stored", "gone"} /\ rows'[k].since = rows[k].since
               /\ Ends(k)' = Ends(k) /\ Ends(k) \in Nat /\ Retention(k)' = Retention(k)
    BY <1>4, EndsStays, Rows DEF Retention
  <1>5. ASSUME Stored(j), Later(j) PROVE Later(j)'
    <2>1. PICK k \in Jobs :
             /\ rows[k].state \in {"stored", "gone"} /\ rows[k].since >= rows[j].since
             /\ Retention(k) < Retention(j) \/ Ends(k) <= now
      BY <1>5
    <2>2. Ends(k) <= now => Ends(k)' <= now'
      BY <1>1, <1>4, <2>1
    <2> QED BY <1>3, <1>4, <1>5, <2>1, <2>2
  <1>6. ASSUME Stored(j), j \notin index.members
        PROVE  rows'[j].expires - now' < Tick \/ Later(j)'
    <2>1. rows[j].expires - now < Tick \/ Later(j)
      BY <1>2, <1>6 DEF IndexCoversLive
    <2> QED BY <1>1, <1>3, <1>5, <1>6, <2>1
  <1>7. ASSUME NEW k \in Jobs, RedisInsert(k), rows[k].expires - now > 0
        PROVE  rows'[j].expires - now' < Tick \/ Later(j)'
    <2>1. /\ rows[k].state = "drawn" /\ rows' = Enter(k) /\ now' = now /\ j # k
          /\ j \in index.members => Cut(rows[j].created)
                <= Cut(rows[k].created - (rows[k].expires - now))
      BY <1>1, <1>2, <1>7, IndexTrims
    <2>2. rows'[k].state = "stored" /\ rows'[k].since = now /\ Retention(k)' = Retention(k)
          /\ Stored(j)
      <3>1. now \in 0..MaxTime
        BY Rows
      <3>2. PICK row : row = [state |-> "stored", created |-> rows[k].created,
                              expires |-> rows[k].expires, since |-> now]
        OBVIOUS
      <3>3. Enter(k)[k] = row /\ Enter(k)[j] = rows[j]
        BY <1>1, <2>1, <3>1, <3>2, EnterRow
      <3> QED BY <1>2, <2>1, <3>2, <3>3 DEF Retention, Stored
    <2>3. CASE j \notin index.members
      BY <1>6, <2>2, <2>3
    <2>4. CASE j \in index.members /\ Retention(k) < Retention(j)
      BY <1>1, <1>3, <2>2, <2>4
    <2>5. CASE j \in index.members /\ ~(Retention(k) < Retention(j))
      <3>1. /\ Retention(j) \in Int /\ Retention(k) \in Int
            /\ rows[k].created - (rows[k].expires - now) = now - Retention(k)
            /\ rows[j].expires = rows[j].created + Retention(j)
        BY <1>1 DEF Retention
      <3>2. Retention(j) <= Retention(k) /\ Cut(rows[j].created) <= Cut(now - Retention(k))
        BY <2>1, <2>5, <3>1
      <3>3. rows[j].created + Retention(j) - now < Tick
        BY <1>1, <3>1, <3>2, Trimmed
      <3> QED BY <1>1, <1>3, <2>1, <2>2, <3>1, <3>3
    <2> QED BY <2>3, <2>4, <2>5
  <1>8. ASSUME NEW k \in Jobs, RedisInsert(k), ~(rows[k].expires - now > 0)
        PROVE  Stored(j) /\ j \notin index.members
    <2>1. UNCHANGED index /\ rows' = [rows EXCEPT ![k].state = "gone"]
      BY <1>8 DEF RedisInsert
    <2> QED BY <1>1, <1>2, <2>1 DEF Stored
  <1>9. ASSUME Advance
        PROVE  rows'[j].expires - now' < Tick \/ Later(j)'
    <2>1. /\ rows' = Without(Expired(now'))
          /\ \/ UNCHANGED index
             \/ index.expires <= now'
      BY <1>2, <1>9 DEF Advance
    <2>2. Stored(j)
      BY <1>1, <1>2, <2>1, WithoutRow DEF Stored
    <2>3. CASE j \notin index.members
      BY <1>6, <2>2, <2>3
    <2>4. CASE j \in index.members
      <3>1. index.expires <= now' /\ index.expires \in Nat
        BY <1>2, <2>1, <2>4, Rows
      <3>2. PICK k \in Jobs : /\ rows[k].state \in {"stored", "gone"}
                             /\ Ends(k) = index.expires
                             /\ rows[j].since <= rows[k].since
        BY <1>2, <2>2, <2>4 DEF IndexInv
      <3>3. Ends(k)' <= now' /\ rows'[k].since >= rows'[j].since
        BY <1>1, <1>3, <1>4, <2>2, <3>1, <3>2
      <3> QED BY <1>4, <3>2, <3>3
    <2> QED BY <2>3, <2>4
  <1>10. CASE UNCHANGED historyVars \/ \E k \in Jobs, retention \in Retentions : Draw(k, retention)
    <2>1. UNCHANGED index
      BY <1>10 DEF historyVars, Draw
    <2>2. Stored(j)
      BY <1>1, <1>2, <1>10 DEF historyVars, Draw, Stored
    <2> QED BY <1>2, <1>6, <2>1, <2>2
  <1> QED
    BY <1>2, <1>6, <1>7, <1>8, <1>9, <1>10 DEF HistoryStep, Insert, DeleteExpired

-----------------------------------------------------------------------------
\* A sequence of jobs as a page has them: newest first, none twice.
Descends(s) ==
    \A i, k \in 1..Len(s) : i < k => s[i] # s[k] /\ Age(s[k]) <= Age(s[i])

PagerType ==
    [pc : {"start", "ask", "fetch", "done"}, bound : Nat \cup {NoBound},
     ids : Seq(Jobs), page : Seq(Jobs), seen : Seq(Jobs),
     bounds : SUBSET Nat, present : SUBSET Jobs, hollow : BOOLEAN]

\* What a client holds: nothing twice, and nothing of what is still to come.
PagerOK(x) ==
    /\ x \in PagerType
    /\ ToSet(x.seen) \cup ToSet(x.page) \cup ToSet(x.ids) \subseteq Born
    /\ x.pc = "start" => x.present = {} /\ x.seen = <<>>
    /\ x.pc \in {"start", "ask"} => x.page = <<>> /\ x.ids = <<>>
    /\ x.pc = "fetch" => backend = "redis" /\ x.ids # <<>>
    /\ x.bound # NoBound => x.bound \in x.bounds
    /\ x.hollow => x.pc = "done"
    /\ Descends(x.page) /\ Descends(x.ids) /\ IsInjective(x.seen)
    /\ \A j \in ToSet(x.page), k \in ToSet(x.ids) : j # k /\ Age(k) <= Age(j)
    /\ x.seen # <<>> =>
          /\ x.bound \in 0..MaxTime
          /\ \A j \in ToSet(x.seen) : Cut(x.bound) <= Age(j)
          /\ \A j \in ToSet(x.page) \cup ToSet(x.ids) : Age(j) < Cut(x.bound)

\* AtPageEnd and OutOfReach.
Excused(x, j) ==
    \/ \E b \in x.bounds : Cut(b) = Age(j)
    \/ backend = "redis" /\ (x.hollow \/ j \notin index.members)
    \/ backend = "sqlite" /\ \E b \in x.bounds : b >= Horizon

\* Where a job is that the client has yet to see.
Ahead(x, j) == x.bound = NoBound \/ Age(j) < Cut(x.bound)

Fetching(x, j) ==
    j \in ToSet(x.page) \cup ToSet(x.ids) \/ \A k \in ToSet(x.ids) : Age(j) <= Age(k)

\* Every job of a complete history is excused, was seen, or is yet to come.
Covered(x) == \A j \in x.present :
    /\ rows[j].state \in {"stored", "gone"}
    /\ Stored(j) => \/ Excused(x, j)
                    \/ j \in ToSet(x.seen)
                    \/ x.pc = "ask" /\ Ahead(x, j)
                    \/ x.pc = "fetch" /\ Fetching(x, j)

PagerInv == PagerOK(pager) /\ Covered(pager)

-----------------------------------------------------------------------------
\* A created_at in an answer is a time the clock showed, and the store compares
\* it as it compares the job.
LEMMA CreatedTimes ==
    ASSUME HistoryInv, NEW j \in Jobs
    PROVE  CreatedAt(j) \in 0..MaxTime /\ Cut(CreatedAt(j)) = Age(j)
  <1>1. PICK t : t = rows[j].created
    OBVIOUS
  <1>2. t \in 0..MaxTime /\ MaxTime \in Nat
    BY <1>1, Rows
  <1>3. Cut(t) \in Int /\ Cut(t) <= t /\ Cut(Cut(t)) = Cut(t)
    BY <1>2, CutTime
  <1>4. Cut(0) = 0
    <2>1. (0 \div Tick) * Tick = 0
      BY HistoryAssumption, Z3
    <2> QED BY <2>1 DEF Cut
  <1>5. 0 <= Cut(t)
    BY <1>2, <1>4, CutOrder
  <1>6. CreatedAt(j) \in {t, Cut(t)}
    BY <1>1 DEF CreatedAt
  <1>7. Age(j) = Cut(t)
    BY <1>1 DEF Age
  <1> QED BY <1>2, <1>3, <1>5, <1>6, <1>7

\* The selection of every store ...
LEMMA SelectedBorn ==
    ASSUME HistoryInv, NEW bound
    PROVE  Selected(bound) \subseteq Born
  BY Rows DEF Selected, Stored, RedisSelects, Born

\* ... is before the bound, as the store compares times ...
LEMMA SelectedBelow ==
    ASSUME HistoryInv, NEW bound \in 0..MaxTime, NEW j \in Selected(bound)
    PROVE  Age(j) < Cut(bound)
  <1>1. /\ j \in Jobs /\ bound # NoBound /\ bound \in Nat /\ bound < Horizon
        /\ rows[j].created \in Nat /\ rows[j].created < Horizon
        /\ backend \in Backends
    <2>1. j \in Jobs /\ MaxTime \in Nat /\ rows[j].created \in 0..MaxTime /\ backend \in Backends
      BY Rows DEF Selected
    <2>2. MaxTime < Horizon
      BY HistoryAssumption, Z3
    <2> QED BY <2>1, <2>2, PagerAssumption, HistoryAssumption
  <1>2. CASE backend = "memory"
    BY <1>1, <1>2 DEF Selected, MemorySelects, Age, Cut
  <1>3. CASE backend = "sqlite"
    <2>1. EncodeTime(rows[j].created) < EncodeTime(bound)
      BY <1>1, <1>3 DEF Selected, SqliteSelects
    <2>2. rows[j].created < bound
      BY <1>1, <2>1, EncodeRange
    <2> QED BY <1>3, <2>2 DEF Age, Cut
  <1>4. CASE backend \in {"postgres", "mysql", "redis"}
    BY <1>1, <1>4 DEF Selected, PostgresSelects, MySQLSelects, RedisSelects, Age
  <1> QED BY <1>1, <1>2, <1>3, <1>4 DEF Backends

\* ... and is all of that, but for bounds that int64 does not hold.
LEMMA SelectedAll ==
    ASSUME HistoryInv, NEW bound \in Nat \cup {NoBound}, NEW j \in Jobs, Stored(j),
           backend = "sqlite" /\ bound # NoBound => bound < Horizon,
           backend = "redis" => j \in index.members,
           bound = NoBound \/ Age(j) < Cut(bound)
    PROVE  j \in Selected(bound)
  <1>1. /\ rows[j].created \in 0..MaxTime /\ MaxTime \in Nat /\ backend \in Backends
        /\ Horizon \in Nat
    BY Rows, HistoryAssumption
  <1>2. CASE backend = "memory"
    BY <1>2 DEF Selected, MemorySelects, Age, Cut
  <1>3. CASE backend = "sqlite"
    <2>1. PICK last : last = IF bound = NoBound THEN Horizon \div 2 ELSE bound
      OBVIOUS
    <2>2. /\ last \in Nat /\ last < Horizon /\ rows[j].created < last
          /\ rows[j].created < Horizon
      <3>1. CASE bound = NoBound
        <4>1. Horizon \div 2 \in Nat /\ MaxTime < Horizon \div 2 /\ Horizon \div 2 < Horizon
          BY HistoryAssumption, Z3
        <4> QED BY <1>1, <2>1, <3>1, <4>1
      <3>2. CASE bound # NoBound
        <4>1. rows[j].created < bound /\ bound < Horizon
          BY <1>3, <3>2 DEF Age, Cut
        <4> QED BY <1>1, <2>1, <3>2, <4>1
      <3> QED BY <3>1, <3>2
    <2>3. EncodeTime(rows[j].created) < EncodeTime(last)
      BY <1>1, <2>2, EncodeRange
    <2> QED BY <1>3, <2>1, <2>3 DEF Selected, SqliteSelects
  <1>4. CASE backend \in {"postgres", "mysql", "redis"}
    BY <1>4 DEF Selected, PostgresSelects, MySQLSelects, RedisSelects, Age
  <1> QED BY <1>1, <1>2, <1>3, <1>4 DEF Backends

\* A page is the newest part of the selection, newest first and none twice.
LEMMA PagesDescend ==
    ASSUME HistoryInv, NEW bound, NEW page \in Pages(bound, Limit)
    PROVE  /\ page \in Seq(Jobs) /\ ToSet(page) \subseteq Selected(bound)
           /\ Descends(page)
           /\ page = <<>> => Selected(bound) = {}
           /\ \A j \in Selected(bound) : j \in ToSet(page)
                 \/ \A i \in 1..Len(page) : Age(j) <= Age(page[i])
  <1>1. PICK S : S = Selected(bound)
    OBVIOUS
  <1>2. S \subseteq Born /\ S \subseteq Jobs /\ IsFiniteSet(S) /\ Cardinality(S) \in Nat
    BY <1>1, SelectedBorn, Rows, FS_Subset, FS_CardinalityType DEF Born
  <1>3. PICK n : n = IF Cardinality(S) < Limit THEN Cardinality(S) ELSE Limit
    OBVIOUS
  <1>4. n \in Nat /\ (n = 0 => S = {})
    BY <1>2, <1>3, PagerAssumption, FS_EmptySet
  <1>5. /\ page \in [1..n -> S] /\ IsInjective(page)
        /\ \A i \in 1..n : \A j \in S \ ToSet(SubSeq(page, 1, i)) : Age(j) <= Age(page[i])
    BY <1>1, <1>3 DEF Pages, Age
  <1>6. page \in Seq(S) /\ page \in Seq(Jobs)
    <2>1. page = [i \in 1..n |-> page[i]]
      BY <1>5
    <2> QED BY <1>2, <1>4, <1>5
  <1>7. Len(page) = n
    BY <1>4, <1>5, <1>6, LenProperties
  <1>8. ToSet(page) \subseteq S
    BY <1>5 DEF ToSet
  <1>9. ASSUME NEW i \in 1..n, NEW j \in ToSet(SubSeq(page, 1, i))
        PROVE  \E q \in 1..i : j = page[q]
    <2>1. \A q \in 1..i : page[q] \in S
      BY <1>4, <1>5
    <2>2. /\ SubSeq(page, 1, i) \in Seq(S) /\ Len(SubSeq(page, 1, i)) = i
          /\ \A q \in 1..i : SubSeq(page, 1, i)[q] = page[q]
      <3>1. i \in Int /\ 1 \in Int /\ 1 <= i /\ i - 1 + 1 = i /\ \A q \in 1..i : 1 + q - 1 = q
        BY <1>4
      <3> QED BY <2>1, <3>1, SubSeqProperties
    <2>3. DOMAIN SubSeq(page, 1, i) = 1..i
      BY <2>2, LenProperties
    <2> QED BY <1>9, <2>2, <2>3 DEF ToSet
  <1>10. Descends(page)
    <2>1. ASSUME NEW i \in 1..n, NEW k \in 1..n, i < k
          PROVE  page[i] # page[k] /\ Age(page[k]) <= Age(page[i])
      <3>1. \A q \in 1..i : page[q] # page[k]
        BY <1>4, <1>5, <2>1 DEF IsInjective
      <3>2. page[k] \notin ToSet(SubSeq(page, 1, i))
        BY <1>9, <3>1
      <3> QED BY <1>4, <1>5, <2>1, <3>1, <3>2
    <2> QED BY <1>7, <2>1 DEF Descends
  <1>11. page = <<>> => S = {}
    <2>1. page = <<>> => Len(page) = 0
      BY <1>2, EmptySeq
    <2> QED BY <1>4, <1>7, <2>1
  <1>12. ASSUME NEW j \in S, j \notin ToSet(page), NEW i \in 1..n
         PROVE  Age(j) <= Age(page[i])
    <2>1. j \notin ToSet(SubSeq(page, 1, i))
      BY <1>4, <1>5, <1>9, <1>12 DEF ToSet
    <2> QED BY <1>5, <1>12, <2>1
  <1> QED BY <1>1, <1>6, <1>7, <1>8, <1>10, <1>11, <1>12

-----------------------------------------------------------------------------
\* A job that was drawn keeps its age.
LEMMA AgeStays ==
    ASSUME HistoryInv, [HistoryStep]_historyVars
    PROVE  /\ UNCHANGED backend /\ Born \subseteq Born'
           /\ \A t : Cut(t)' = Cut(t)
           /\ \A j \in Born : Age(j)' = Age(j)
  <1>1. UNCHANGED backend /\ Born \subseteq Born'
    BY RowsMove DEF Born
  <1>2. \A t : Cut(t)' = Cut(t)
    BY <1>1 DEF Cut
  <1>3. \A j \in Born : rows'[j].created = rows[j].created
    BY RowsMove DEF Born
  <1>4. ASSUME NEW j \in Born PROVE Age(j)' = Age(j)
    <2>1. PICK t : t = rows[j].created
      OBVIOUS
    <2>2. Age(j)' = Cut(t)' /\ Age(j) = Cut(t)
      BY <1>3, <2>1 DEF Age, Cut
    <2> QED BY <1>2, <2>2
  <1> QED BY <1>1, <1>2, <1>4

LEMMA DescendsStays ==
    ASSUME HistoryInv, [HistoryStep]_historyVars,
           NEW s \in Seq(Jobs), ToSet(s) \subseteq Born, Descends(s)
    PROVE  Descends(s)'
  <1>1. \A i \in 1..Len(s) : s[i] \in Born
    BY LenProperties DEF ToSet
  <1>2. \A i \in 1..Len(s) : Age(s[i])' = Age(s[i])
    BY <1>1, AgeStays
  <1> QED BY <1>2 DEF Descends

\* Only a job that is stored now comes into the index.
LEMMA IndexGains ==
    ASSUME HistoryInv, [HistoryStep]_historyVars, NEW j \in index'.members, j \notin index.members
    PROVE  rows[j].state = "drawn"
  <1>1. ASSUME NEW k \in Jobs, RedisInsert(k) PROVE rows[j].state = "drawn"
    <2>1. rows[k].state = "drawn"
      BY <1>1 DEF RedisInsert
    <2>2. CASE rows[k].expires - now > 0
      <3>1. PICK young \in SUBSET index.members :
               index' = [members |-> young \cup {k},
                         expires |-> now + WholeSeconds(rows[k].expires - now)]
        BY <1>1, <2>2 DEF RedisInsert
      <3> QED BY <2>1, <3>1
    <2>3. CASE ~(rows[k].expires - now > 0)
      <3>1. UNCHANGED index
        BY <1>1, <2>3 DEF RedisInsert
      <3> QED BY <3>1
    <2> QED BY <2>2, <2>3
  <1>2. index \in [members : SUBSET Born, expires : Nat]
    BY Rows
  <1>3. ~Advance /\ ~UNCHANGED index
    BY <1>2 DEF Advance
  <1> QED BY <1>1, <1>3 DEF HistoryStep, Draw, Insert, DeleteExpired, historyVars

\* Jobs that come and expire take nothing from what a client holds.
LEMMA PagerFrame ==
    ASSUME HistoryInv, [HistoryStep]_historyVars, NEW x, PagerOK(x), Covered(x)
    PROVE  PagerOK(x)' /\ Covered(x)'
  <1>1. /\ UNCHANGED backend /\ Born \subseteq Born'
        /\ \A t : Cut(t)' = Cut(t)
        /\ \A j \in Born : Age(j)' = Age(j)
    BY AgeStays
  <1>2. /\ x \in PagerType
        /\ x.ids \in Seq(Jobs) /\ x.page \in Seq(Jobs) /\ x.present \subseteq Jobs
        /\ ToSet(x.seen) \subseteq Born /\ ToSet(x.page) \subseteq Born /\ ToSet(x.ids) \subseteq Born
    BY DEF PagerOK, PagerType
  <1>3. PagerOK(x)'
    <2>1. Descends(x.page)' /\ Descends(x.ids)'
      BY <1>2, DescendsStays DEF PagerOK
    <2>2. \A j \in ToSet(x.page), k \in ToSet(x.ids) : j # k /\ Age(k)' <= Age(j)'
      BY <1>1, <1>2 DEF PagerOK
    <2>3. x.seen # <<>> =>
             /\ \A j \in ToSet(x.seen) : Cut(x.bound)' <= Age(j)'
             /\ \A j \in ToSet(x.page) \cup ToSet(x.ids) : Age(j)' < Cut(x.bound)'
      BY <1>1, <1>2 DEF PagerOK
    <2> QED BY <1>1, <1>2, <2>1, <2>2, <2>3 DEF PagerOK
  <1>4. ASSUME NEW j \in x.present
        PROVE  /\ rows'[j].state \in {"stored", "gone"}
               /\ Stored(j)' => \/ Excused(x, j)'
                                \/ j \in ToSet(x.seen)
                                \/ x.pc = "ask" /\ Ahead(x, j)'
                                \/ x.pc = "fetch" /\ Fetching(x, j)'
    <2>1. j \in Jobs /\ rows[j].state \in {"stored", "gone"}
      BY <1>2, <1>4 DEF Covered
    <2>2. rows'[j].state \in {"stored", "gone"} /\ (Stored(j)' => Stored(j)) /\ j \in Born
      BY <2>1, RowsMove DEF Stored, Born
    <2>3. j \notin index.members => j \notin index'.members
      BY <2>1, IndexGains
    <2>4. Excused(x, j) => Excused(x, j)'
      BY <1>1, <2>2, <2>3 DEF Excused
    <2>5. Ahead(x, j) => Ahead(x, j)'
      BY <1>1, <2>2 DEF Ahead
    <2>6. Fetching(x, j) => Fetching(x, j)'
      BY <1>1, <1>2, <2>2 DEF Fetching
    <2> QED BY <1>4, <2>2, <2>4, <2>5, <2>6 DEF Covered
  <1> QED BY <1>3, <1>4 DEF Covered

\* So a step of the client has to care for its own state only.
LEMMA PagerStays ==
    ASSUME HistoryInv, [HistoryStep]_historyVars, NEW x, x = pager', PagerOK(x), Covered(x)
    PROVE  PagerInv'
  <1>1. PagerOK(x)' /\ Covered(x)'
    BY PagerFrame
  <1>2. PagerOK(pager)'
    BY <1>1 DEF PagerOK, Descends
  <1>3. Covered(pager)'
    BY <1>1 DEF Covered, Excused, Ahead, Fetching
  <1> QED BY <1>2, <1>3 DEF PagerInv

-----------------------------------------------------------------------------
LEMMA PagerInvInit == HistoryInit /\ pager = PagerStart => PagerInv
  <1> SUFFICES ASSUME HistoryInit, pager = PagerStart PROVE PagerInv
    OBVIOUS
  <1>1. PICK x : x = PagerStart
    OBVIOUS
  <1>2. <<>> \in Seq(Jobs) /\ Len(<<>>) = 0 /\ ToSet(<<>>) = {} /\ DOMAIN <<>> = {}
    BY EmptySeq DEF ToSet
  <1>3. Descends(<<>>) /\ IsInjective(<<>>)
    BY <1>2 DEF Descends, IsInjective
  <1>4. x \in PagerType
    BY <1>1, <1>2 DEF PagerStart, PagerType
  <1>5. PagerOK(x)
    BY <1>1, <1>2, <1>3, <1>4 DEF PagerStart, PagerOK
  <1>6. Covered(x)
    BY <1>1 DEF PagerStart, Covered
  <1> QED BY <1>1, <1>5, <1>6 DEF PagerInv

\* The client begins: what it is to see lies ahead.
LEMMA PagerBegins ==
    ASSUME HistoryInv, PagerInv, Begin
    PROVE  PagerInv'
  <1>1. pager \in PagerType /\ pager.pc = "start" /\ pager.seen \in Seq(Jobs)
    BY DEF PagerInv, PagerOK, PagerType, Begin
  <1>2. PICK first \in FirstBounds :
           pager' = [pager EXCEPT
              !.pc = "ask",
              !.bound = first,
              !.bounds = {first} \ {NoBound},
              !.present = {j \in Jobs : Stored(j) /\ (first = NoBound \/ rows[j].created < first)}]
    BY DEF Begin
  <1>3. PICK present : present = {j \in Jobs : Stored(j) /\ (first = NoBound \/ rows[j].created < first)}
    OBVIOUS
  <1>4. PICK x : x = pager'
    OBVIOUS
  <1>5. x = [pc |-> "ask", bound |-> first, ids |-> pager.ids, page |-> pager.page,
             seen |-> pager.seen, bounds |-> {first} \ {NoBound}, present |-> present,
             hollow |-> pager.hollow]
    BY <1>1, <1>2, <1>3, <1>4 DEF PagerType
  <1>6. first \in Nat \cup {NoBound} /\ NoBound \notin Nat
    BY PagerAssumption
  <1>7. x \in PagerType
    BY <1>1, <1>3, <1>5, <1>6 DEF PagerType
  <1>8. pager.seen = <<>>
    BY <1>1 DEF PagerInv, PagerOK
  <1>9. PagerOK(x)
    BY <1>1, <1>5, <1>6, <1>7, <1>8 DEF PagerInv, PagerOK
  <1>10. ASSUME NEW j \in present, first # NoBound
         PROVE  Cut(first) = Age(j) \/ Age(j) < Cut(first)
    <2>1. rows[j].created \in Int /\ first \in Int /\ rows[j].created <= first
      BY <1>3, <1>6, <1>10, Rows
    <2>2. Age(j) <= Cut(first)
      BY <2>1, CutOrder DEF Age
    <2>3. Age(j) \in Int /\ Cut(first) \in Int
      BY <1>3, <2>1, Rows, CutTime
    <2> QED BY <2>2, <2>3
  <1>11. Covered(x)
    <2>1. ASSUME NEW j \in present
          PROVE  rows[j].state = "stored" /\ (Excused(x, j) \/ Ahead(x, j))
      BY <1>3, <1>5, <1>6, <1>10, <2>1 DEF Excused, Ahead, Stored
    <2> QED BY <1>5, <2>1 DEF Covered
  <1> QED BY <1>4, <1>9, <1>11, PagerStays DEF Begin

\* A page that follows what was seen repeats none of it.
LEMMA JoinDistinct ==
    ASSUME NEW s \in Seq(Jobs), NEW t \in Seq(Jobs), IsInjective(s), Descends(t),
           ToSet(s) \cap ToSet(t) = {}
    PROVE  IsInjective(s \o t) /\ ToSet(s \o t) = ToSet(s) \cup ToSet(t) /\ s \o t \in Seq(Jobs)
  <1>1. PICK m, n : m = Len(s) /\ n = Len(t)
    OBVIOUS
  <1>2. m \in Nat /\ n \in Nat /\ DOMAIN s = 1..m /\ DOMAIN t = 1..n
    BY <1>1, LenProperties
  <1>3. PICK u : u = s \o t
    OBVIOUS
  <1>4. /\ u \in Seq(Jobs) /\ DOMAIN u = 1..(m + n)
        /\ \A i \in 1..(m + n) : u[i] = IF i <= m THEN s[i] ELSE t[i - m]
    BY <1>1, <1>3, ConcatProperties, LenProperties
  <1>5. ASSUME NEW i \in 1..(m + n), NEW k \in 1..(m + n), i < k PROVE u[i] # u[k]
    <2>1. CASE k <= m
      <3>1. i <= m /\ i \in DOMAIN s /\ k \in DOMAIN s /\ i # k
        BY <1>2, <1>5, <2>1
      <3> QED BY <1>4, <2>1, <3>1 DEF IsInjective
    <2>2. CASE i <= m /\ ~(k <= m)
      <3>1. u[i] = s[i] /\ i \in DOMAIN s /\ u[k] = t[k - m] /\ k - m \in DOMAIN t
        BY <1>2, <1>4, <1>5, <2>2
      <3> QED BY <3>1 DEF ToSet
    <2>3. CASE ~(i <= m)
      <3>1. /\ u[i] = t[i - m] /\ i - m \in 1..n /\ u[k] = t[k - m] /\ k - m \in 1..n
            /\ i - m < k - m
        BY <1>2, <1>4, <1>5, <2>3
      <3> QED BY <1>1, <3>1 DEF Descends
    <2> QED BY <2>1, <2>2, <2>3
  <1>6. IsInjective(u)
    <2>1. ASSUME NEW i \in 1..(m + n), NEW k \in 1..(m + n), u[i] = u[k] PROVE i = k
      <3>1. ~(i < k) /\ ~(k < i)
        BY <1>5, <2>1
      <3> QED BY <1>2, <3>1
    <2> QED BY <1>4, <2>1 DEF IsInjective
  <1>7. ToSet(u) = ToSet(s) \cup ToSet(t)
    <2>1. ASSUME NEW i \in 1..m PROVE i \in 1..(m + n) /\ u[i] = s[i]
      BY <1>2, <1>4, <2>1
    <2>2. ASSUME NEW i \in 1..n PROVE i + m \in 1..(m + n) /\ u[i + m] = t[i]
      BY <1>2, <1>4, <2>2
    <2>3. ASSUME NEW i \in 1..(m + n)
          PROVE  (i \in 1..m /\ u[i] = s[i]) \/ (i - m \in 1..n /\ u[i] = t[i - m])
      BY <1>2, <1>4, <2>3
    <2>4. \A i \in 1..(m + n) : u[i] \in ToSet(s) \cup ToSet(t)
      BY <1>2, <2>3 DEF ToSet
    <2>5. \A i \in 1..m : s[i] \in ToSet(u)
      BY <1>4, <2>1 DEF ToSet
    <2>6. \A i \in 1..n : t[i] \in ToSet(u)
      BY <1>4, <2>2 DEF ToSet
    <2>7. ToSet(u) \subseteq ToSet(s) \cup ToSet(t)
      BY <1>4, <2>4 DEF ToSet
    <2>8. ToSet(s) \subseteq ToSet(u) /\ ToSet(t) \subseteq ToSet(u)
      BY <1>2, <2>5, <2>6 DEF ToSet
    <2> QED BY <2>7, <2>8
  <1> QED BY <1>3, <1>4, <1>6, <1>7

\* An answer to the client: its page is added to what was seen, and everything
\* else is still to come or excused.
LEMMA Answers ==
    ASSUME HistoryInv, PagerInv, pager.pc \in {"ask", "fetch"},
           NEW page \in Seq(Jobs), ToSet(page) \subseteq Born, Descends(page),
           pager.seen # <<>> => \A j \in ToSet(page) : Age(j) < Cut(pager.bound),
           NEW hollow \in BOOLEAN,
           \A j \in pager.present : Stored(j) =>
              \/ Excused(pager, j) \/ j \in ToSet(pager.seen) \/ j \in ToSet(page)
              \/ page = <<>> /\ hollow /\ backend = "redis"
              \/ page # <<>> /\ Age(j) <= Age(Last(page)),
           NEW x, x = Answered(page, hollow)
    PROVE  PagerOK(x) /\ Covered(x)
  <1>1. /\ pager \in PagerType /\ PagerOK(pager) /\ Covered(pager)
        /\ pager.seen \in Seq(Jobs) /\ pager.present \subseteq Jobs
    BY DEF PagerInv, PagerOK, PagerType
  <1>2. <<>> \in Seq(Jobs) /\ ToSet(<<>>) = {} /\ Descends(<<>>)
    <2>1. <<>> \in Seq(Jobs) /\ Len(<<>>) = 0 /\ DOMAIN <<>> = {}
      BY EmptySeq
    <2> QED BY <2>1 DEF ToSet, Descends
  <1>3. ~pager.hollow
    BY <1>1 DEF PagerOK
  <1>4. CASE page = <<>>
    <2>1. x = [pc |-> "done", bound |-> pager.bound, ids |-> <<>>, page |-> <<>>,
               seen |-> pager.seen, bounds |-> pager.bounds, present |-> pager.present,
               hollow |-> hollow]
      BY <1>1, <1>4 DEF Answered, PagerType
    <2>2. x \in PagerType
      BY <1>1, <1>2, <2>1 DEF PagerType
    <2>3. PagerOK(x)
      BY <1>1, <1>2, <2>1, <2>2 DEF PagerOK
    <2>4. ASSUME NEW j \in pager.present, Stored(j)
          PROVE  Excused(x, j) \/ j \in ToSet(x.seen)
      <3>1. \/ Excused(pager, j) \/ j \in ToSet(pager.seen)
            \/ hollow /\ backend = "redis"
        BY <1>2, <1>4, <2>4
      <3> QED BY <1>3, <2>1, <3>1 DEF Excused
    <2> QED BY <1>1, <2>1, <2>3, <2>4 DEF Covered
  <1>5. CASE page # <<>>
    <2>1. PICK last : last = Last(page)
      OBVIOUS
    <2>2. /\ last \in ToSet(page) /\ last \in Jobs
          /\ \A j \in ToSet(page) : j \in Jobs /\ Age(last) <= Age(j)
      <3>1. PICK n : n = Len(page)
        OBVIOUS
      <3>2. n \in Nat \ {0} /\ DOMAIN page = 1..n /\ last = page[n] /\ \A i \in 1..n : page[i] \in Jobs
        BY <1>5, <2>1, <3>1, EmptySeq, LenProperties DEF Last
      <3>3. \A i \in 1..n : Age(page[i]) \in Int
        BY <3>2, Rows
      <3>4. \A i \in 1..n : Age(page[n]) <= Age(page[i])
        BY <3>1, <3>2, <3>3 DEF Descends
      <3> QED BY <3>2, <3>4 DEF ToSet
    <2>3. PICK next : next = CreatedAt(last)
      OBVIOUS
    <2>4. next \in 0..MaxTime /\ next \in Nat /\ Cut(next) = Age(last) /\ next # NoBound
      BY <2>2, <2>3, CreatedTimes, HistoryAssumption, PagerAssumption
    <2>5. x = [pc |-> "ask", bound |-> next, ids |-> <<>>, page |-> <<>>,
               seen |-> pager.seen \o page, bounds |-> pager.bounds \cup {next},
               present |-> pager.present, hollow |-> pager.hollow]
      BY <1>1, <1>5, <2>1, <2>3 DEF Answered, PagerType
    <2>6. \A j \in Jobs : Age(j) \in Int
      BY Rows
    <2>7. ASSUME pager.seen # <<>>
          PROVE  Cut(pager.bound) \in Int /\ \A j \in ToSet(pager.seen) : Cut(pager.bound) <= Age(j)
      <3>1. /\ pager.bound \in 0..MaxTime
            /\ \A j \in ToSet(pager.seen) : Cut(pager.bound) <= Age(j)
        BY <1>1, <2>7 DEF PagerOK
      <3>2. pager.bound \in Int
        BY <3>1, HistoryAssumption
      <3> QED BY <3>1, <3>2, CutTime
    <2>8. ToSet(pager.seen) \subseteq Jobs
      BY <1>1 DEF PagerOK, Born
    <2>9. ToSet(pager.seen) \cap ToSet(page) = {}
      <3>1. CASE pager.seen = <<>>
        BY <1>2, <3>1
      <3>2. CASE pager.seen # <<>>
        BY <2>2, <2>6, <2>7, <2>8, <3>2
      <3> QED BY <3>1, <3>2
    <2>10. /\ IsInjective(pager.seen \o page) /\ pager.seen \o page \in Seq(Jobs)
           /\ ToSet(pager.seen \o page) = ToSet(pager.seen) \cup ToSet(page)
      BY <1>1, <2>9, JoinDistinct DEF PagerOK
    <2>11. x \in PagerType
      BY <1>1, <1>2, <2>4, <2>5, <2>10 DEF PagerType
    <2>12. \A j \in ToSet(pager.seen) \cup ToSet(page) : Cut(next) <= Age(j)
      <3>1. ASSUME NEW j \in ToSet(pager.seen) PROVE Age(last) <= Age(j)
        <4>1. pager.seen # <<>>
          BY <1>2, <3>1
        <4>2. Age(last) < Cut(pager.bound) /\ Cut(pager.bound) <= Age(j)
          BY <2>2, <2>7, <3>1, <4>1
        <4>3. Age(last) \in Int /\ Age(j) \in Int /\ Cut(pager.bound) \in Int
          BY <2>2, <2>6, <2>7, <2>8, <3>1, <4>1
        <4> QED BY <4>2, <4>3
      <3> QED BY <2>2, <2>4, <3>1
    <2>13. PagerOK(x)
      <3>1. /\ x.pc = "ask" /\ x.ids = <<>> /\ x.page = <<>> /\ x.bound = next
            /\ x.bounds = pager.bounds \cup {next} /\ x.hollow = pager.hollow
            /\ x.seen = pager.seen \o page
        BY <2>5
      <3>2. ToSet(x.seen) \cup ToSet(x.page) \cup ToSet(x.ids) \subseteq Born
        BY <1>1, <1>2, <2>10, <3>1 DEF PagerOK
      <3>3. IsInjective(x.seen) /\ \A j \in ToSet(x.seen) : Cut(x.bound) <= Age(j)
        BY <2>10, <2>12, <3>1
      <3> QED BY <1>2, <1>3, <2>4, <2>11, <3>1, <3>2, <3>3 DEF PagerOK
    <2>14. ASSUME NEW j \in pager.present, Stored(j)
           PROVE  Excused(x, j) \/ j \in ToSet(x.seen) \/ Ahead(x, j)
      <3>1. \/ Excused(pager, j) \/ j \in ToSet(pager.seen) \/ j \in ToSet(page)
            \/ Age(j) <= Age(last)
        BY <1>5, <2>1, <2>14
      <3>2. Excused(pager, j) => Excused(x, j)
        BY <2>5 DEF Excused
      <3>3. j \in ToSet(pager.seen) \cup ToSet(page) => j \in ToSet(x.seen)
        BY <2>5, <2>10
      <3>4. Age(j) <= Age(last) => Age(j) < Cut(next) \/ Cut(next) = Age(j)
        BY <1>1, <2>2, <2>4, <2>6, <2>14
      <3>5. Age(j) < Cut(next) => Ahead(x, j)
        BY <2>5 DEF Ahead
      <3>6. Cut(next) = Age(j) => Excused(x, j)
        BY <2>5 DEF Excused
      <3> QED BY <3>1, <3>2, <3>3, <3>4, <3>5, <3>6
    <2>15. Covered(x)
      <3>1. x.present = pager.present /\ x.pc = "ask"
        BY <2>5
      <3> QED BY <1>1, <2>14, <3>1 DEF Covered
    <2> QED BY <2>13, <2>15
  <1> QED BY <1>4, <1>5

-----------------------------------------------------------------------------
\* The ends of sequences that descend.
LEMMA LastIn ==
    ASSUME NEW s \in Seq(Jobs), s # <<>>
    PROVE  Last(s) \in ToSet(s) /\ ToSet(s) \subseteq Jobs
  <1>1. PICK n : n = Len(s)
    OBVIOUS
  <1>2. n \in Nat \ {0} /\ DOMAIN s = 1..n /\ \A i \in 1..n : s[i] \in Jobs
    BY <1>1, EmptySeq, LenProperties
  <1> QED BY <1>1, <1>2 DEF Last, ToSet

LEMMA TailDescends ==
    ASSUME HistoryInv, NEW s \in Seq(Jobs), s # <<>>, Descends(s)
    PROVE  /\ Head(s) \in Jobs /\ Tail(s) \in Seq(Jobs) /\ Descends(Tail(s))
           /\ ToSet(s) = {Head(s)} \cup ToSet(Tail(s))
           /\ \A k \in ToSet(Tail(s)) : k # Head(s) /\ Age(k) <= Age(Head(s))
  <1>1. PICK n, t : n = Len(s) /\ t = Tail(s)
    OBVIOUS
  <1>2. n \in Nat \ {0} /\ DOMAIN s = 1..n /\ \A i \in 1..n : s[i] \in Jobs
    BY <1>1, EmptySeq, LenProperties
  <1>3. /\ Head(s) = s[1] /\ t \in Seq(Jobs) /\ Len(t) = n - 1
        /\ \A i \in 1..(n - 1) : t[i] = s[i + 1]
    BY <1>1, <1>2, HeadTailProperties DEF Head
  <1>4. DOMAIN t = 1..(n - 1)
    BY <1>3, LenProperties
  <1>5. \A i, k \in 1..n : i < k => s[i] # s[k] /\ Age(s[k]) <= Age(s[i])
    BY <1>1 DEF Descends
  <1>6. Descends(t)
    <2>1. ASSUME NEW i \in 1..(n - 1), NEW k \in 1..(n - 1), i < k
          PROVE  t[i] # t[k] /\ Age(t[k]) <= Age(t[i])
      <3>1. i + 1 \in 1..n /\ k + 1 \in 1..n /\ i + 1 < k + 1
        BY <1>2, <2>1
      <3> QED BY <1>3, <1>5, <3>1
    <2> QED BY <1>3, <2>1 DEF Descends
  <1>7. ASSUME NEW i \in 1..(n - 1)
        PROVE  t[i] # s[1] /\ Age(t[i]) <= Age(s[1]) /\ t[i] \in ToSet(s)
    <2>1. i + 1 \in 1..n /\ 1 \in 1..n /\ 1 < i + 1
      BY <1>2, <1>7
    <2> QED BY <1>2, <1>3, <1>5, <2>1 DEF ToSet
  <1>8. ASSUME NEW i \in 1..n PROVE s[i] \in {s[1]} \cup ToSet(t)
    <2>1. i = 1 \/ (i - 1 \in 1..(n - 1) /\ (i - 1) + 1 = i)
      BY <1>2, <1>8
    <2>2. ASSUME NEW k \in 1..(n - 1), k + 1 = i PROVE s[i] \in ToSet(t)
      BY <1>3, <1>4, <2>2 DEF ToSet
    <2> QED BY <2>1, <2>2
  <1>9. s[1] \in ToSet(s)
    BY <1>2 DEF ToSet
  <1>10. ToSet(s) = {s[1]} \cup ToSet(t)
    <2>1. ToSet(s) \subseteq {s[1]} \cup ToSet(t)
      BY <1>2, <1>8 DEF ToSet
    <2>2. ToSet(t) \subseteq ToSet(s)
      BY <1>4, <1>7 DEF ToSet
    <2> QED BY <1>9, <2>1, <2>2
  <1>11. \A k \in ToSet(t) : k # s[1] /\ Age(k) <= Age(s[1])
    BY <1>4, <1>7 DEF ToSet
  <1>12. s[1] \in Jobs
    BY <1>2
  <1> QED BY <1>1, <1>3, <1>6, <1>10, <1>11, <1>12

LEMMA AppendDescends ==
    ASSUME HistoryInv, NEW s \in Seq(Jobs), NEW e \in Jobs, Descends(s),
           \A j \in ToSet(s) : j # e /\ Age(e) <= Age(j)
    PROVE  /\ Append(s, e) \in Seq(Jobs) /\ Descends(Append(s, e))
           /\ ToSet(Append(s, e)) = ToSet(s) \cup {e}
  <1>1. PICK n, t : n = Len(s) /\ t = Append(s, e)
    OBVIOUS
  <1>2. n \in Nat /\ DOMAIN s = 1..n
    BY <1>1, LenProperties
  <1>3. /\ t \in Seq(Jobs) /\ Len(t) = n + 1 /\ t[n + 1] = e
        /\ \A i \in 1..n : t[i] = s[i]
    BY <1>1, AppendProperties
  <1>4. DOMAIN t = 1..(n + 1)
    BY <1>3, LenProperties
  <1>5. \A i, k \in 1..n : i < k => s[i] # s[k] /\ Age(s[k]) <= Age(s[i])
    BY <1>1 DEF Descends
  <1>6. \A i \in 1..n : s[i] # e /\ Age(e) <= Age(s[i])
    BY <1>2 DEF ToSet
  <1>7. Descends(t)
    <2>1. ASSUME NEW i \in 1..(n + 1), NEW k \in 1..(n + 1), i < k
          PROVE  t[i] # t[k] /\ Age(t[k]) <= Age(t[i])
      <3>1. i \in 1..n /\ (k \in 1..n \/ k = n + 1)
        BY <1>2, <2>1
      <3> QED BY <1>3, <1>5, <1>6, <2>1, <3>1
    <2> QED BY <1>3, <2>1 DEF Descends
  <1>8. ToSet(t) = ToSet(s) \cup {e}
    <2>1. \A i \in 1..(n + 1) : i \in 1..n \/ i = n + 1
      BY <1>2
    <2>2. 1..n \subseteq 1..(n + 1) /\ n + 1 \in 1..(n + 1)
      BY <1>2
    <2>3. ToSet(t) \subseteq ToSet(s) \cup {e}
      BY <1>2, <1>3, <1>4, <2>1 DEF ToSet
    <2>4. \A i \in 1..n : s[i] \in ToSet(t)
      BY <1>3, <1>4, <2>2 DEF ToSet
    <2>5. e \in ToSet(t)
      BY <1>3, <1>4, <2>2 DEF ToSet
    <2>6. ToSet(s) \subseteq ToSet(t)
      BY <1>2, <2>4 DEF ToSet
    <2> QED BY <2>3, <2>5, <2>6
  <1> QED BY <1>1, <1>3, <1>7, <1>8

\* What a client that asks has yet to see is in the selection.
LEMMA AskSelects ==
    ASSUME HistoryInv, PagerInv, pager.pc = "ask", NEW j \in pager.present, Stored(j)
    PROVE  Excused(pager, j) \/ j \in ToSet(pager.seen) \/ j \in Selected(pager.bound)
  <1>1. /\ pager.bound \in Nat \cup {NoBound} /\ j \in Jobs
        /\ pager.bound # NoBound => pager.bound \in pager.bounds
        /\ Horizon \in Nat
    BY HistoryAssumption DEF PagerInv, PagerOK, PagerType
  <1>2. Excused(pager, j) \/ j \in ToSet(pager.seen) \/ Ahead(pager, j)
    BY DEF PagerInv, Covered
  <1>3. ASSUME ~Excused(pager, j)
        PROVE  /\ backend = "sqlite" /\ pager.bound # NoBound => pager.bound < Horizon
               /\ backend = "redis" => j \in index.members
    BY <1>1, <1>3 DEF Excused
  <1> QED BY <1>1, <1>2, <1>3, SelectedAll DEF Ahead

\* A page of a client that asks follows what it has seen.
LEMMA PageFollows ==
    ASSUME HistoryInv, PagerInv, pager.pc = "ask", NEW page \in Pages(pager.bound, Limit)
    PROVE  /\ page \in Seq(Jobs) /\ ToSet(page) \subseteq Born /\ Descends(page)
           /\ pager.seen # <<>> => \A j \in ToSet(page) : Age(j) < Cut(pager.bound)
           /\ \A j \in pager.present : Stored(j) =>
                 \/ Excused(pager, j) \/ j \in ToSet(pager.seen) \/ j \in ToSet(page)
                 \/ page # <<>> /\ \A k \in ToSet(page) : Age(j) <= Age(k)
  <1>1. /\ page \in Seq(Jobs) /\ ToSet(page) \subseteq Selected(pager.bound)
        /\ Descends(page)
        /\ page = <<>> => Selected(pager.bound) = {}
        /\ \A j \in Selected(pager.bound) : j \in ToSet(page)
              \/ \A i \in 1..Len(page) : Age(j) <= Age(page[i])
    BY PagesDescend
  <1>2. ToSet(page) \subseteq Born
    BY <1>1, SelectedBorn
  <1>3. ASSUME pager.seen # <<>>, NEW j \in ToSet(page) PROVE Age(j) < Cut(pager.bound)
    <2>1. pager.bound \in 0..MaxTime
      BY <1>3 DEF PagerInv, PagerOK
    <2>2. j \in Selected(pager.bound)
      BY <1>1, <1>3
    <2> QED BY <2>1, <2>2, SelectedBelow
  <1>4. ASSUME NEW j \in Selected(pager.bound), j \notin ToSet(page)
        PROVE  page # <<>> /\ \A k \in ToSet(page) : Age(j) <= Age(k)
    <2>1. \A i \in 1..Len(page) : Age(j) <= Age(page[i])
      BY <1>1, <1>4
    <2>2. DOMAIN page = 1..Len(page)
      BY <1>1, LenProperties
    <2> QED BY <1>1, <1>4, <2>1, <2>2 DEF ToSet
  <1> QED BY <1>1, <1>2, <1>3, <1>4, AskSelects

\* A store answers with a page of one moment.
LEMMA PagerAsksStore ==
    ASSUME HistoryInv, PagerInv, AskStore
    PROVE  PagerInv'
  <1>1. PICK page \in Pages(pager.bound, Limit) : pager' = Answered(page, FALSE)
    BY DEF AskStore
  <1>2. PICK x : x = pager'
    OBVIOUS
  <1>3. pager.pc = "ask" /\ UNCHANGED historyVars /\ page \in Seq(Jobs)
    BY PageFollows DEF AskStore
  <1>4. page # <<>> => Last(page) \in ToSet(page)
    BY <1>3, LastIn
  <1>5. PagerOK(x) /\ Covered(x)
    BY <1>1, <1>2, <1>3, <1>4, PageFollows, Answers
  <1> QED BY <1>2, <1>3, <1>5, PagerStays

\* Redis names the jobs of a page first ...
LEMMA PagerAsksRange ==
    ASSUME HistoryInv, PagerInv, AskRange
    PROVE  PagerInv'
  <1>1. PICK ids \in Pages(pager.bound, Limit) :
           pager' = IF ids = <<>> THEN Answered(<<>>, FALSE)
                    ELSE [pager EXCEPT !.pc = "fetch", !.ids = ids]
    BY DEF AskRange
  <1>2. PICK x : x = pager'
    OBVIOUS
  <1>3. pager.pc = "ask" /\ backend = "redis" /\ UNCHANGED historyVars
    BY DEF AskRange
  <1>4. CASE ids = <<>>
    <2>1. x = Answered(ids, FALSE)
      BY <1>1, <1>2, <1>4
    <2>2. PagerOK(x) /\ Covered(x)
      BY <1>3, <1>4, <2>1, PageFollows, Answers
    <2> QED BY <1>2, <1>3, <2>2, PagerStays
  <1>5. CASE ids # <<>>
    <2>1. pager \in PagerType /\ pager.page = <<>> /\ PagerOK(pager) /\ Covered(pager)
      BY <1>3 DEF PagerInv, PagerOK
    <2>2. x = [pc |-> "fetch", bound |-> pager.bound, ids |-> ids, page |-> pager.page,
               seen |-> pager.seen, bounds |-> pager.bounds, present |-> pager.present,
               hollow |-> pager.hollow]
      BY <1>1, <1>2, <1>5, <2>1 DEF PagerType
    <2>3. /\ ids \in Seq(Jobs) /\ ToSet(ids) \subseteq Born /\ Descends(ids)
          /\ pager.seen # <<>> => \A j \in ToSet(ids) : Age(j) < Cut(pager.bound)
      BY <1>3, PageFollows
    <2>4. x \in PagerType
      BY <2>1, <2>2, <2>3 DEF PagerType
    <2>5. ToSet(<<>>) = {}
      BY DEF ToSet
    <2>6. PagerOK(x)
      BY <1>3, <1>5, <2>1, <2>2, <2>3, <2>4, <2>5 DEF PagerOK
    <2>7. ASSUME NEW j \in pager.present, Stored(j)
          PROVE  Excused(x, j) \/ j \in ToSet(x.seen) \/ Fetching(x, j)
      <3>1. \/ Excused(pager, j) \/ j \in ToSet(pager.seen) \/ j \in ToSet(ids)
            \/ \A k \in ToSet(ids) : Age(j) <= Age(k)
        BY <1>3, <2>7, PageFollows
      <3> QED BY <2>2, <3>1 DEF Excused, Fetching
    <2>8. Covered(x)
      BY <2>1, <2>2, <2>7 DEF Covered
    <2> QED BY <1>2, <1>3, <2>6, <2>8, PagerStays
  <1> QED BY <1>4, <1>5

\* ... and fetches them one by one, without those that expired since.
LEMMA PagerFetches ==
    ASSUME HistoryInv, PagerInv, Fetch
    PROVE  PagerInv'
  <1>1. PICK id, rest, page :
           /\ id = Head(pager.ids) /\ rest = Tail(pager.ids)
           /\ page = IF Stored(id) THEN Append(pager.page, id) ELSE pager.page
    OBVIOUS
  <1>2. PICK x : x = pager'
    OBVIOUS
  <1>3. /\ pager.pc = "fetch" /\ UNCHANGED historyVars
        /\ x = IF rest = <<>> THEN Answered(page, TRUE)
               ELSE [pager EXCEPT !.ids = rest, !.page = page]
    BY <1>1, <1>2 DEF Fetch
  <1>4. /\ pager \in PagerType /\ PagerOK(pager) /\ Covered(pager)
        /\ pager.ids \in Seq(Jobs) /\ pager.page \in Seq(Jobs) /\ pager.ids # <<>>
        /\ backend = "redis" /\ pager.present \subseteq Jobs
    BY <1>3 DEF PagerInv, PagerOK, PagerType
  <1>5. /\ id \in Jobs /\ rest \in Seq(Jobs) /\ Descends(rest)
        /\ ToSet(pager.ids) = {id} \cup ToSet(rest)
        /\ \A k \in ToSet(rest) : k # id /\ Age(k) <= Age(id)
    BY <1>1, <1>4, TailDescends DEF PagerOK
  <1>6. \A j \in ToSet(pager.page), k \in ToSet(pager.ids) : j # k /\ Age(k) <= Age(j)
    BY <1>4 DEF PagerOK
  <1>7. /\ page \in Seq(Jobs) /\ Descends(page)
        /\ ToSet(page) = IF Stored(id) THEN ToSet(pager.page) \cup {id} ELSE ToSet(pager.page)
    <2>1. \A j \in ToSet(pager.page) : j # id /\ Age(id) <= Age(j)
      BY <1>5, <1>6
    <2>2. Descends(pager.page)
      BY <1>4 DEF PagerOK
    <2> QED BY <1>1, <1>4, <1>5, <2>1, <2>2, AppendDescends
  <1>8. \A j \in ToSet(page), k \in ToSet(rest) : j # k /\ Age(k) <= Age(j)
    BY <1>5, <1>6, <1>7
  <1>9. /\ ToSet(page) \cup ToSet(rest) \subseteq Born
        /\ ToSet(page) \cup ToSet(rest) \subseteq ToSet(pager.page) \cup ToSet(pager.ids)
    BY <1>4, <1>5, <1>7 DEF PagerOK
  <1>10. pager.seen # <<>> => \A j \in ToSet(page) \cup ToSet(rest) : Age(j) < Cut(pager.bound)
    BY <1>4, <1>9 DEF PagerOK
  <1>11. ASSUME NEW j \in pager.present, Stored(j)
         PROVE  \/ Excused(pager, j) \/ j \in ToSet(pager.seen)
                \/ j \in ToSet(page) \cup ToSet(rest)
                \/ \A k \in ToSet(pager.ids) : Age(j) <= Age(k)
    <2>1. Excused(pager, j) \/ j \in ToSet(pager.seen) \/ Fetching(pager, j)
      BY <1>3, <1>4, <1>11 DEF Covered
    <2> QED BY <1>5, <1>7, <1>11, <2>1 DEF Fetching
  <1>12. CASE rest = <<>>
    <2>1. ToSet(rest) = {}
      BY <1>12 DEF ToSet
    <2>2. ASSUME NEW j \in pager.present, Stored(j), page # <<>>,
                 \A k \in ToSet(pager.ids) : Age(j) <= Age(k)
          PROVE  Age(j) <= Age(Last(page))
      <3>1. PICK last : last = Last(page)
        OBVIOUS
      <3>2. last \in ToSet(page)
        BY <1>7, <2>2, <3>1, LastIn
      <3>3. last \in Jobs /\ Age(id) <= Age(last)
        <4>1. Age(id) \in Int
          BY <1>5, Rows
        <4>2. id \in ToSet(pager.ids)
          BY <1>5
        <4>3. CASE last = id
          BY <1>5, <4>1, <4>3
        <4>4. CASE last # id
          BY <1>6, <1>7, <1>9, <3>2, <4>2, <4>4 DEF Born
        <4> QED BY <4>3, <4>4
      <3>4. Age(j) <= Age(id)
        BY <1>5, <2>2
      <3>5. Age(j) \in Int /\ Age(id) \in Int /\ Age(last) \in Int
        BY <1>4, <1>5, <3>3, Rows
      <3> QED BY <3>1, <3>3, <3>4, <3>5
    <2>3. ASSUME NEW j \in pager.present, Stored(j)
          PROVE  \/ Excused(pager, j) \/ j \in ToSet(pager.seen) \/ j \in ToSet(page)
                 \/ page = <<>> /\ TRUE /\ backend = "redis"
                 \/ page # <<>> /\ Age(j) <= Age(Last(page))
      BY <1>4, <1>11, <2>1, <2>2, <2>3
    <2>4. ToSet(page) \subseteq Born
      BY <1>9
    <2>5. pager.seen # <<>> => \A j \in ToSet(page) : Age(j) < Cut(pager.bound)
      BY <1>10
    <2>6. x = Answered(page, TRUE)
      BY <1>3, <1>12
    <2>7. PagerOK(x) /\ Covered(x)
      BY <1>3, <1>7, <2>3, <2>4, <2>5, <2>6, Answers
    <2> QED BY <1>2, <1>3, <2>7, PagerStays
  <1>13. CASE rest # <<>>
    <2>1. x = [pc |-> pager.pc, bound |-> pager.bound, ids |-> rest, page |-> page,
               seen |-> pager.seen, bounds |-> pager.bounds, present |-> pager.present,
               hollow |-> pager.hollow]
      BY <1>3, <1>4, <1>13 DEF PagerType
    <2>2. x \in PagerType
      BY <1>4, <1>5, <1>7, <2>1 DEF PagerType
    <2>3. ToSet(x.seen) \cup ToSet(x.page) \cup ToSet(x.ids) \subseteq Born
      BY <1>4, <1>9, <2>1 DEF PagerOK
    <2>4. x.seen # <<>> =>
             /\ x.bound \in 0..MaxTime
             /\ \A j \in ToSet(x.seen) : Cut(x.bound) <= Age(j)
             /\ \A j \in ToSet(x.page) \cup ToSet(x.ids) : Age(j) < Cut(x.bound)
      BY <1>4, <1>10, <2>1 DEF PagerOK
    <2>5. Descends(x.page) /\ Descends(x.ids) /\ IsInjective(x.seen)
      BY <1>4, <1>5, <1>7, <2>1 DEF PagerOK
    <2>6. PagerOK(x)
      <3>1. /\ x.pc = "fetch" /\ x.ids # <<>> /\ (x.bound # NoBound => x.bound \in x.bounds)
            /\ ~x.hollow
            /\ \A j \in ToSet(x.page), k \in ToSet(x.ids) : j # k /\ Age(k) <= Age(j)
        BY <1>3, <1>4, <1>8, <1>13, <2>1 DEF PagerOK
      <3> QED BY <1>4, <2>2, <2>3, <2>4, <2>5, <3>1 DEF PagerOK
    <2>7. ASSUME NEW j \in pager.present, Stored(j)
          PROVE  Excused(x, j) \/ j \in ToSet(x.seen) \/ Fetching(x, j)
      BY <1>5, <1>11, <2>1, <2>7 DEF Excused, Fetching
    <2>8. Covered(x)
      <3>1. x.present = pager.present /\ x.pc = pager.pc /\ pager.pc = "fetch"
        <4>1. x.present = pager.present /\ x.pc = pager.pc
          BY <2>1
        <4>2. pager.pc = "fetch"
          BY <1>3
        <4> QED BY <4>1, <4>2
      <3>2. \A j \in pager.present : rows[j].state \in {"stored", "gone"}
        BY <1>4 DEF Covered
      <3>3. \A j \in pager.present : Stored(j) =>
               Excused(x, j) \/ j \in ToSet(x.seen) \/ Fetching(x, j)
        BY <2>7
      <3> QED BY <3>1, <3>2, <3>3 DEF Covered
    <2> QED BY <1>2, <1>3, <2>6, <2>8, PagerStays
  <1> QED BY <1>12, <1>13

\* Every step of the history or of the client keeps what the client holds.
LEMMA PagerInvNext ==
    ASSUME HistoryInv, PagerInv,
           ([HistoryStep]_historyVars /\ UNCHANGED pager) \/ PagerStep
    PROVE  PagerInv'
  <1>1. CASE [HistoryStep]_historyVars /\ UNCHANGED pager
    <2>1. PICK x : x = pager'
      OBVIOUS
    <2>2. PagerOK(x) /\ Covered(x)
      BY <1>1, <2>1 DEF PagerInv
    <2> QED BY <1>1, <2>1, <2>2, PagerStays
  <1>2. CASE PagerStep
    BY <1>2, PagerBegins, PagerAsksStore, PagerAsksRange, PagerFetches DEF PagerStep
  <1> QED BY <1>1, <1>2

\* What the invariant says to the client in the end.
LEMMA PagerReads == PagerInv => PagerTypeOK /\ PagedOnce
  <1> SUFFICES ASSUME PagerInv PROVE PagerTypeOK /\ PagedOnce
    OBVIOUS
  <1>1. pager \in PagerType
    BY DEF PagerInv, PagerOK
  <1>2. PagerTypeOK
    BY <1>1 DEF PagerType, PagerTypeOK
  <1>3. IsInjective(pager.seen)
    BY DEF PagerInv, PagerOK
  <1>4. ASSUME pager.pc = "done", NEW j \in pager.present, Stored(j)
        PROVE  j \in ToSet(pager.seen) \/ AtPageEnd(j) \/ OutOfReach(j)
    <2>1. Excused(pager, j) \/ j \in ToSet(pager.seen)
      BY <1>4 DEF PagerInv, Covered
    <2> QED BY <2>1 DEF Excused, AtPageEnd, OutOfReach, Age
  <1> QED BY <1>2, <1>3, <1>4 DEF PagedOnce
=============================================================================
