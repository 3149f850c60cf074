----------------------------- MODULE JobHistory -----------------------------
(***************************************************************************)
(* What GET /v1/jobs reads: the jobs of one caller (every List selects by  *)
(* owner first) as each of the five stores keeps and lists them, newest    *)
(* first, before a bound.  Time counts in nanoseconds, as jobs.New takes   *)
(* it; a store compares creation times in whole nanoseconds (memory,       *)
(* sqlite), in microseconds (postgres, mysql) or in milliseconds (the      *)
(* scores of redis), and Tick stands for one of the coarser units.  A TTL  *)
(* in redis is whole seconds.  Status and content of the jobs are left to  *)
(* the modules that extend this one.                                       *)
(***************************************************************************)
EXTENDS Integers, FiniteSets, SequencesExt

CONSTANTS
    Jobs,           \* the IDs that the caller's jobs will draw
    Retentions,     \* JobRetention of the servers that share the store
    MaxTime,        \* bound on the clock
    Tick,           \* nanoseconds in the coarser unit
    Second,         \* nanoseconds in a second
    Horizon,        \* the first time that int64 nanoseconds cannot hold
    NoBound         \* no "before" in the query: the zero time.Time

ASSUME HistoryAssumption ==
    /\ Retentions \subseteq Nat \ {0}
    /\ MaxTime \in Nat /\ Tick \in Nat \ {0} /\ Second \in Nat \ {0} /\ Horizon \in Nat
    /\ MaxTime < Horizon \div 2

VARIABLES
    backend,        \* the store the server was started with
    now,
    rows,           \* job ID -> its row, and how far it has come
    index           \* redis: the sorted set of the caller's jobs, and its end

historyVars == <<backend, now, rows, index>>

Backends == {"memory", "sqlite", "postgres", "mysql", "redis"}

\* "unborn"  no request drew this ID yet
\* "drawn"   jobs.New returned, Store.Create is next
\* "stored"  in the store
\* "gone"    expired, or never stored; kept here for the properties only
RowStates == {"unborn", "drawn", "stored", "gone"}

Row == [state : RowStates, created : 0..MaxTime, expires : Nat, since : 0..MaxTime]

Stored(j) == rows[j].state = "stored"

\* A creation time as the store compares it.
Cut(t) == IF backend \in {"memory", "sqlite"} THEN t ELSE (t \div Tick) * Tick

\* The created_at of a job in an answer: redis and memory keep the record as
\* it was built, a column of microseconds has cut it.
CreatedAt(j) ==
    IF backend \in {"postgres", "mysql"} THEN Cut(rows[j].created) ELSE rows[j].created

\* The TTL of a key in redis: whole seconds, rounded down, but at least one.
WholeSeconds(ttl) == IF ttl < Second THEN Second ELSE (ttl \div Second) * Second

\* The time from which on the store may drop a row: its expires_at, or in redis
\* the end of its key, which counts from the insertion.
Ends(j) ==
    IF backend = "redis" THEN rows[j].since + WholeSeconds(rows[j].expires - rows[j].since)
    ELSE rows[j].expires

\* UnixNano beyond its range wraps around.
EncodeTime(t) == ((t + Horizon) % (2 * Horizon)) - Horizon

-----------------------------------------------------------------------------
\* Mutant of Draw: the two times are swapped.
DrawSwapped(j, retention) ==
    /\ rows[j].state = "unborn"
    /\ rows' = [rows EXCEPT ![j] = [state |-> "drawn", created |-> now + retention,
                                    expires |-> now, since |-> 0]]
    /\ UNCHANGED <<backend, now, index>>

\* jobs.New: the request takes the time first and stores the job later.
Draw(j, retention) ==
    /\ rows[j].state = "unborn"
    /\ rows' = [rows EXCEPT ![j] = [state |-> "drawn", created |-> now,
                                    expires |-> now + retention, since |-> 0]]
    /\ UNCHANGED <<backend, now, index>>

Enter(j) == [rows EXCEPT ![j].state = "stored", ![j].since = now]

Insert(j) ==
    /\ rows[j].state = "drawn" /\ backend # "redis"
    /\ rows' = Enter(j)
    /\ UNCHANGED <<backend, now, index>>

\* Mutant of RedisInsert: the index forgets what is older than this job.
RedisInsertForgets(j) ==
    /\ rows[j].state = "drawn" /\ backend = "redis"
    /\ rows' = Enter(j)
    /\ index' = [members |-> {k \in index.members : Cut(rows[k].created) > Cut(rows[j].created)} \cup {j},
                 expires |-> now + WholeSeconds(rows[j].expires - now)]
    /\ UNCHANGED <<backend, now>>

\* One script stores the job with its TTL, takes out of the caller's index
\* what a job of this retention would have outlived (by the exact time that is
\* left, not by the rounded TTL), adds the job, and gives the whole index the
\* TTL of this job.
RedisInsert(j) ==
    LET ttl    == rows[j].expires - now
        cutoff == rows[j].created - ttl
        young  == {k \in index.members : Cut(rows[k].created) > Cut(cutoff)}
    IN /\ rows[j].state = "drawn" /\ backend = "redis"
       /\ rows' = IF ttl > 0 THEN Enter(j) ELSE [rows EXCEPT ![j].state = "gone"]
       /\ index' = IF ttl > 0
                   THEN [members |-> young \cup {j}, expires |-> now + WholeSeconds(ttl)]
                   ELSE index
       /\ UNCHANGED <<backend, now>>

Expired(t) == {j \in Jobs : Stored(j) /\ Ends(j) <= t}

Without(S) == [j \in Jobs |-> IF j \in S THEN [rows[j] EXCEPT !.state = "gone"] ELSE rows[j]]

\* Redis drops keys as their time comes; the other stores wait for a cleanup.
Advance ==
    /\ now < MaxTime
    /\ now' = now + 1
    /\ rows' = IF backend = "redis" THEN Without(Expired(now')) ELSE rows
    /\ index' = IF index.expires <= now' THEN [index EXCEPT !.members = {}] ELSE index
    /\ UNCHANGED backend

DeleteExpired ==
    /\ backend # "redis" /\ Expired(now) # {}
    /\ rows' = Without(Expired(now))
    /\ UNCHANGED <<backend, now, index>>

-----------------------------------------------------------------------------
\* The WHERE clause of each store's List.
MemorySelects(j, bound) == bound = NoBound \/ rows[j].created < bound

\* With no bound: all before the middle of the representable time.
SqliteSelects(j, bound) ==
    EncodeTime(rows[j].created) < EncodeTime(IF bound = NoBound THEN Horizon \div 2 ELSE bound)

\* With no bound: all before the end of the year 9999.
PostgresSelects(j, bound) == bound = NoBound \/ Cut(rows[j].created) < Cut(bound)

MySQLSelects(j, bound) == bound = NoBound \/ Cut(rows[j].created) < Cut(bound)

\* Mutant of RedisSelects: the bound belongs to the range.
RedisSelectsBound(j, bound) ==
    j \in index.members /\ (bound = NoBound \/ Cut(rows[j].created) <= Cut(bound))

\* The range of scores ends before the millisecond of the bound.
RedisSelects(j, bound) ==
    j \in index.members /\ (bound = NoBound \/ Cut(rows[j].created) < Cut(bound))

Selected(bound) ==
    {j \in Jobs :
        \/ backend = "memory"   /\ Stored(j) /\ MemorySelects(j, bound)
        \/ backend = "sqlite"   /\ Stored(j) /\ SqliteSelects(j, bound)
        \/ backend = "postgres" /\ Stored(j) /\ PostgresSelects(j, bound)
        \/ backend = "mysql"    /\ Stored(j) /\ MySQLSelects(j, bound)
        \/ backend = "redis"    /\ RedisSelects(j, bound)}

\* The pages a store may answer: the newest first, at most limit of them; the
\* order of jobs the store sees as created at once is open.
Pages(bound, limit) ==
    LET S == Selected(bound)
        n == IF Cardinality(S) < limit THEN Cardinality(S) ELSE limit
    IN {p \in [1..n -> S] :
           /\ IsInjective(p)
           /\ \A i \in 1..n : \A j \in S \ ToSet(SubSeq(p, 1, i)) :
                 Cut(rows[j].created) <= Cut(rows[p[i]].created)}

HistoryTypeOK ==
    /\ backend \in Backends
    /\ now \in 0..MaxTime
    /\ rows \in [Jobs -> Row]
    /\ index.members \subseteq Jobs /\ index.expires \in Nat

HistoryInit ==
    /\ backend \in Backends
    /\ now = 0
    /\ rows = [j \in Jobs |-> [state |-> "unborn", created |-> 0, expires |-> 0, since |-> 0]]
    /\ index = [members |-> {}, expires |-> 0]

HistoryStep ==
    \/ \E j \in Jobs :
          \/ \E retention \in Retentions : Draw(j, retention)
          \/ Insert(j)
          \/ RedisInsert(j)
    \/ Advance
    \/ DeleteExpired

-----------------------------------------------------------------------------
Retention(j) == rows[j].expires - rows[j].created

\* A job stays in its caller's index as long as its record lives, but for the
\* last millisecond before its expires_at and what its key lives beyond that,
\* unless a job stored after it had a shorter retention or has ended already.
\* The first takes it out of the index, the second lets the whole index expire
\* (Create of backend.go), while GET by ID still finds it.  With one retention
\* the second happens too: to a job drawn long before it was stored, or whose
\* TTL lost a part of a second.
IndexCoversLive ==
    backend = "redis" => \A j \in Jobs :
        Stored(j) /\ j \notin index.members =>
            \/ rows[j].expires - now < Tick
            \/ \E k \in Jobs :
                  /\ rows[k].state \in {"stored", "gone"} /\ rows[k].since >= rows[j].since
                  /\ Retention(k) < Retention(j) \/ Ends(k) <= now
=============================================================================
