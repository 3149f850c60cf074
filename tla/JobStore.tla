------------------------------ MODULE JobStore ------------------------------
(***************************************************************************)
(* The job record and the Store contract of lib/jobs/jobs.go, as the       *)
(* PostgreSQL, MySQL, SQLite and in-memory stores keep it: every call is   *)
(* one statement (or one critical section) and therefore one atomic step.  *)
(* Result texts, timestamps and owners are abstracted to whether the field *)
(* is set.  A call over the network may fail before it takes effect, or    *)
(* take effect and still report an error to its caller.                    *)
(***************************************************************************)
EXTENDS Naturals

CONSTANTS
    Jobs,           \* the job IDs that requests will draw (NewID: never twice)
    ErrNotFound,    \* what the store holds for a job it does not have
    MaxFaults       \* bound on failed calls and crashes together

ASSUME FaultsAssumption == MaxFaults \in Nat

VARIABLES
    store,          \* job ID -> its record, or ErrNotFound
    faults          \* failed calls and crashes so far

Statuses == {"queued", "running", "succeeded", "failed"}
Terminal == {"succeeded", "failed"}

JobRecord == [status : Statuses, result : BOOLEAN,
              startedAt : BOOLEAN, completedAt : BOOLEAN]

ASSUME NotFoundAssumption == ErrNotFound \notin JobRecord

\* The record New builds: queued, nothing else set.
NewJob == [status |-> "queued", result |-> FALSE,
           startedAt |-> FALSE, completedAt |-> FALSE]

\* Mutant of Apply: a nil timestamp clears the one that was there.
ApplyWithoutCoalesce(job, update) == update

\* An Update overwrites status and result; a nil timestamp keeps the old one.
Apply(job, update) ==
    [status      |-> update.status,
     result      |-> update.result,
     startedAt   |-> job.startedAt \/ update.startedAt,
     completedAt |-> job.completedAt \/ update.completedAt]

-----------------------------------------------------------------------------
\* How a call ends: "ok", "lost" (an error, nothing done) or "unknown" (an
\* error, but the backend carried the call out: its answer was lost).
Outcomes == {"ok", "lost", "unknown"}

CallEnds(outcome) ==
    \/ outcome = "ok" /\ UNCHANGED faults
    \/ outcome # "ok" /\ faults < MaxFaults /\ faults' = faults + 1

Exists(j) == store[j] # ErrNotFound

Settled(j) == Exists(j) => store[j].status \in Terminal

Create(j, outcome) ==
    /\ CallEnds(outcome)
    /\ store' = IF outcome = "lost" THEN store ELSE [store EXCEPT ![j] = NewJob]

\* Mutant of Update: an upsert, it brings a missing record back.
UpdateUpserts(j, update, outcome) ==
    /\ CallEnds(outcome)
    /\ store' = IF outcome = "lost" THEN store ELSE [store EXCEPT ![j] = update]

\* Update of a job the store does not have changes nothing ...
Update(j, update, outcome) ==
    /\ CallEnds(outcome)
    /\ store' = IF outcome = "lost" \/ ~Exists(j) THEN store
                ELSE [store EXCEPT ![j] = Apply(store[j], update)]

\* ... and reports ErrNotFound, an error like any other to its caller.
UpdateSucceeds(j, outcome) == outcome = "ok" /\ Exists(j)

\* The hourly cleanup removes the records whose retention has passed.  The
\* clock is abstracted: any set of records may be the expired ones.
DeleteExpired(S) ==
    /\ S # {} /\ \A j \in S : Exists(j)
    /\ store' = [j \in Jobs |-> IF j \in S THEN ErrNotFound ELSE store[j]]
    /\ UNCHANGED faults

StoreTypeOK ==
    /\ store \in [Jobs -> JobRecord \cup {ErrNotFound}]
    /\ faults \in 0..MaxFaults

StoreInit == store = [j \in Jobs |-> ErrNotFound] /\ faults = 0
=============================================================================
