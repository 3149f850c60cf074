---------------------------- MODULE PostgresJobs ----------------------------
(***************************************************************************)
(* The job system over the PostgreSQL queue of                             *)
(* lib/jobs/postgres/backend.go: requests, workers, cleanup and the store  *)
(* around a table with one row per job.  Receive leases a row for twice    *)
(* the job timeout; Ack deletes the job's row and Nack ends its lease,     *)
(* both by job ID and so whoever holds the lease.                          *)
(***************************************************************************)
EXTENDS JobSystem

CONSTANT Overruns   \* may a lease run out while its worker still works?

ASSUME OverrunsAssumption == Overruns \in BOOLEAN

VARIABLE queue      \* job ID -> "none" (no row), "ready", or "leased"

vars == <<store, faults, api, worker, queue>>

Rows == {"none", "ready", "leased"}

-----------------------------------------------------------------------------
\* INSERT ... ON CONFLICT DO UPDATE: afterwards the row is there, not leased.
Enqueue(j) ==
    /\ \E outcome \in Outcomes :
          /\ Enqueued(j, outcome)
          /\ CallEnds(outcome)
          /\ queue' = IF outcome = "lost" THEN queue ELSE [queue EXCEPT ![j] = "ready"]
    /\ UNCHANGED worker

\* The oldest available row comes first, but SKIP LOCKED passes over rows that
\* other statements lock at that moment: any ready row may be the one.
Receive(w, j) ==
    /\ queue[j] = "ready"
    /\ Received(w, j)
    /\ queue' = [queue EXCEPT ![j] = "leased"]
    /\ UNCHANGED <<store, faults, api>>

\* The lease was taken but the answer never arrived: runWorker tries again.
ReceiveLost(w, j) ==
    /\ queue[j] = "ready"
    /\ worker[w].pc = "receive"
    /\ CallEnds("unknown")
    /\ queue' = [queue EXCEPT ![j] = "leased"]
    /\ UNCHANGED <<store, api, worker>>

Ack(w) ==
    /\ worker[w].pc = "ack"
    /\ Released(w)
    /\ \E outcome \in Outcomes :
          /\ CallEnds(outcome)
          /\ queue' = IF outcome = "lost" THEN queue
                      ELSE [queue EXCEPT ![worker[w].job] = "none"]
    /\ UNCHANGED <<store, api>>

\* An UPDATE: it ends the lease of a row that is there and inserts none.
Nack(w) ==
    /\ worker[w].pc = "nack"
    /\ Released(w)
    /\ \E outcome \in Outcomes :
          /\ CallEnds(outcome)
          /\ queue' = IF outcome = "lost" \/ queue[worker[w].job] = "none" THEN queue
                      ELSE [queue EXCEPT ![worker[w].job] = "ready"]
    /\ UNCHANGED <<store, api>>

\* lease_until passes.  A worker that still holds the delivery is overrun only
\* if its store calls took longer than the job timeout the lease adds.
LeaseEnds(j) == queue[j] = "leased" /\ queue' = [queue EXCEPT ![j] = "ready"]

\* Mutants of LeaseExpires: a lease no longer than the work it covers, and a
\* Receive that never looks at lease_until.
LeaseTooShort(j) == LeaseEnds(j) /\ UNCHANGED <<store, faults, api, worker>>

LeaseNeverExpires(j) == FALSE /\ LeaseEnds(j) /\ UNCHANGED <<store, faults, api, worker>>

LeaseExpires(j) == ~Held(j) /\ LeaseEnds(j) /\ UNCHANGED <<store, faults, api, worker>>

LeaseOverrun(j) ==
    /\ Overruns /\ Held(j)
    /\ LeaseEnds(j)
    /\ UNCHANGED <<store, faults, api, worker>>

-----------------------------------------------------------------------------
RequestStep(j) ==
    \/ (Submit(j) \/ Refuse(j) \/ RequestDies(j)) /\ UNCHANGED <<worker, queue>>
    \/ Enqueue(j)

\* The steps of handle, one worker at a time.
HandleStep(w) ==
    \/ StoreStep(w) /\ UNCHANGED <<api, queue>>
    \/ Ack(w)
    \/ Nack(w)

Init == StoreInit /\ IntakeInit /\ SchedulerInit /\ queue = [j \in Jobs |-> "none"]

Next ==
    \/ \E j \in Jobs : RequestStep(j) \/ LeaseExpires(j) \/ LeaseOverrun(j)
    \/ \E w \in Workers :
          \/ HandleStep(w)
          \/ WorkerDies(w) /\ UNCHANGED <<api, queue>>
          \/ \E j \in Jobs : Receive(w, j) \/ ReceiveLost(w, j)
    \/ \E S \in SUBSET Jobs : DeleteExpired(S) /\ UNCHANGED <<api, worker, queue>>

Spec == Init /\ [][Next]_vars

\* Handlers and workers are goroutines that keep running, every call returns
\* (the model call at its timeout, others by their context), Receive polls as
\* long as no row is available, and time passes for a lease nobody works on.
\* Nothing forces a fault, an overrun, a new request or the cleanup.
Fairness ==
    /\ \A j \in Jobs : WF_vars(Enqueue(j)) /\ WF_vars(LeaseExpires(j))
    /\ \A w \in Workers :
          /\ WF_vars(HandleStep(w))
          /\ WF_vars(\E j \in Jobs : Receive(w, j))

FairSpec == Spec /\ Fairness

-----------------------------------------------------------------------------
TypeOK ==
    /\ StoreTypeOK
    /\ IntakeTypeOK
    /\ SchedulerTypeOK
    /\ queue \in [Jobs -> Rows]

\* Two workers never hold a delivery of the same job, and a job one of them
\* holds has its row under lease: what the lease of twice the job timeout is
\* for (Receive, backend.go).  Ack and Nack go by job ID alone, so this is all
\* that keeps one worker from settling the delivery of another.
ExclusiveDelivery ==
    \A w \in Workers, j \in Jobs :
        Holds(w, j) => queue[j] = "leased" /\ \A v \in Workers \ {w} : ~Holds(v, j)

\* A request answered 202 is never stranded: as long as its record is neither
\* terminal nor expired, its row is in the queue, whatever calls failed and
\* whichever processes died in between (create and handle together).
AcceptedNeverStranded ==
    \A j \in Jobs : Accepted(j) /\ ~Settled(j) => queue[j] # "none"

\* With overruns and no failed call the same holds if a delivery that a worker
\* holds without a row counts too: the overrun worker still finishes the job.
AcceptedNeverForgotten ==
    \A j \in Jobs : Accepted(j) /\ ~Settled(j) => queue[j] # "none" \/ Held(j)

\* The fields of an accepted job's record agree with its status: handle sets
\* started_at before the model call, a result only on success and completed_at
\* only with a terminal status.
AcceptedRecordConsistent ==
    \A j \in Jobs : Accepted(j) /\ Exists(j) => Consistent(store[j])

\* A queue row is deleted only when the job needs no more work: its outcome is
\* persisted before its delivery is acknowledged (handle; docs/rest-api.md,
\* delivery and failure semantics).
AckOnlyWhenSettled ==
    [][\A j \in Jobs : queue[j] # "none" /\ queue'[j] = "none" => Settled(j)]_vars

\* Once an accepted job is succeeded or failed, nothing but its expiration
\* changes its record: no late worker, retry or handler overwrites the outcome
\* a client may already have read.
AcceptedOutcomeFinal == [][OutcomeKept]_vars

\* The model is never called for an accepted job that already has its outcome:
\* completed or failed jobs are acknowledged without another model call.
NoCallAfterOutcome == [][CallsRunningJobs]_vars

\* Every accepted job reaches an outcome, or is expired before it does.
AcceptedSettles == \A j \in Jobs : Accepted(j) ~> Settled(j)

\* No row stays in the queue for ever, not even one whose record expired or
\* whose request was refused after the row had been written.
QueueDrains == \A j \in Jobs : queue[j] # "none" ~> queue[j] = "none"

\* What docs/rest-api.md says of a request whose job was stored and could not
\* be enqueued: the API marks the stored job failed and answers 503.  So once it
\* has answered, no record is left queued of which the queue knows nothing and
\* no worker holds a delivery: nothing would ever move it.
RefusedNotLeftQueued ==
    \A j \in Jobs :
        api[j] = "refused" /\ queue[j] = "none" /\ ~Held(j) /\ Exists(j)
            => store[j].status # "queued"

\* The system implements the life cycle clients are promised.
ImplementsLifecycle == Lifecycle!Spec

-----------------------------------------------------------------------------
\* Why the invariants above hold, as one inductive invariant.

\* Before its Enqueue a job is unknown to the queue, and its record is new.
BeforeEnqueue ==
    \A j \in Jobs :
        /\ api[j] \in {"new", "stored", "unstored"} => queue[j] = "none"
        /\ api[j] = "new" => ~Exists(j)
        /\ api[j] = "stored" => store[j] \in {NewJob, ErrNotFound}

\* The inductive invariant of create, handle and the leased queue while leases
\* outlast the work: what AcceptedNeverStranded and the action properties need.
IInv ==
    /\ TypeOK
    /\ IdleHoldsNothing
    /\ BeforeEnqueue
    /\ ExclusiveDelivery
    /\ WorkersKnow
    /\ AcceptedNeverStranded
    /\ AcceptedRecordConsistent
=============================================================================
