---------------------------- MODULE HistoryPager ----------------------------
(***************************************************************************)
(* A client that reads its whole history through GET /v1/jobs: it asks for *)
(* the jobs before a bound, and again before the created_at of the last    *)
(* one it was given, until an answer is empty.  The server's side is       *)
(* Handler.list and the List of the store, which in redis is a range of    *)
(* the index and then one GET per ID, while jobs come and expire.          *)
(***************************************************************************)
EXTENDS JobHistory

CONSTANTS
    Limit,          \* of a page: 1..100, 20 by default
    FirstBounds     \* the bounds a client may begin with

ASSUME PagerAssumption ==
    /\ Limit \in Nat \ {0}
    /\ NoBound \notin Nat /\ FirstBounds \subseteq Nat \cup {NoBound}

VARIABLE pager

\* pc       "start", "ask", "fetch" (redis: ids of the range are left), "done"
\* bound    of the next page
\* ids      redis: what the range named and was not fetched yet
\* page     redis: what was fetched so far
\* seen     every job of the pages answered, in their order
\* bounds   the bounds asked with
\* present  the jobs a complete history holds: stored when the client began
\* hollow   the last answer was empty although the range named jobs
PagerStart == [pc |-> "start", bound |-> NoBound, ids |-> <<>>, page |-> <<>>,
               seen |-> <<>>, bounds |-> {}, present |-> {}, hollow |-> FALSE]

Begin ==
    /\ pager.pc = "start"
    /\ \E first \in FirstBounds :
          pager' = [pager EXCEPT
              !.pc = "ask",
              !.bound = first,
              !.bounds = {first} \ {NoBound},
              !.present = {j \in Jobs : Stored(j) /\ (first = NoBound \/ rows[j].created < first)}]
    /\ UNCHANGED historyVars

Answered(page, hollow) ==
    IF page = <<>>
    THEN [pager EXCEPT !.pc = "done", !.ids = <<>>, !.page = <<>>, !.hollow = hollow]
    ELSE LET next == CreatedAt(Last(page))
         IN [pager EXCEPT !.pc = "ask", !.bound = next, !.ids = <<>>, !.page = <<>>,
                          !.seen = pager.seen \o page, !.bounds = pager.bounds \cup {next}]

\* One statement, or one critical section: the page is of one moment.
AskStore ==
    /\ pager.pc = "ask" /\ backend # "redis"
    /\ \E page \in Pages(pager.bound, Limit) : pager' = Answered(page, FALSE)
    /\ UNCHANGED historyVars

AskRange ==
    /\ pager.pc = "ask" /\ backend = "redis"
    /\ \E ids \in Pages(pager.bound, Limit) :
          pager' = IF ids = <<>> THEN Answered(<<>>, FALSE)
                   ELSE [pager EXCEPT !.pc = "fetch", !.ids = ids]
    /\ UNCHANGED historyVars

\* A job whose key has expired since is left out of the page.
Fetch ==
    LET id   == Head(pager.ids)
        page == IF Stored(id) THEN Append(pager.page, id) ELSE pager.page
        rest == Tail(pager.ids)
    IN /\ pager.pc = "fetch"
       /\ pager' = IF rest = <<>> THEN Answered(page, TRUE)
                   ELSE [pager EXCEPT !.ids = rest, !.page = page]
       /\ UNCHANGED historyVars

PagerStep == Begin \/ AskStore \/ AskRange \/ Fetch

PagerTypeOK ==
    /\ pager.pc \in {"start", "ask", "fetch", "done"}
    /\ pager.bound \in Nat \cup {NoBound}
    /\ pager.ids \in Seq(Jobs) /\ pager.page \in Seq(Jobs) /\ pager.seen \in Seq(Jobs)
    /\ pager.bounds \subseteq Nat /\ pager.present \subseteq Jobs
    /\ pager.hollow \in BOOLEAN

-----------------------------------------------------------------------------
\* The store sees j as created at once with the end of a page.
AtPageEnd(j) == \E b \in pager.bounds : Cut(b) = Cut(rows[j].created)

\* What a complete history may still miss, by store: jobs that left the index,
\* or lie behind a page whose jobs had all expired; and a bound beyond int64.
OutOfReach(j) ==
    \/ backend = "redis" /\ (pager.hollow \/ j \notin index.members)
    \/ backend = "sqlite" /\ \E b \in pager.bounds : b >= Horizon

\* Reading page by page shows no job twice, and in the end every
\* job that was stored all the while, but for those created in
\* the unit of time in which a page ended (list of handler.go and List of the
\* stores: "before" is exclusive and cut to the unit).
PagedOnce ==
    /\ IsInjective(pager.seen)
    /\ pager.pc = "done" => \A j \in pager.present :
          Stored(j) => j \in ToSet(pager.seen) \/ AtPageEnd(j) \/ OutOfReach(j)
=============================================================================
