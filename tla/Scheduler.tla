----------------------------- MODULE Scheduler ------------------------------
(***************************************************************************)
(* The workers of lib/jobs/scheduler.go: each loops in runWorker, receives *)
(* one delivery and drives it through handle.  Every call handle makes to  *)
(* the store, the processor or the queue is a step of its own, so other    *)
(* workers, requests and the cleanup run between any two of them; what a   *)
(* worker read stays in its record.  Receive, Ack and Nack are completed   *)
(* by the module of the queue.                                             *)
(***************************************************************************)
EXTENDS JobStore

CONSTANTS Workers, NoJob

ASSUME NoJobAssumption == NoJob \notin Jobs

VARIABLE worker     \* worker -> where it is, the delivery it holds, the call's end

Steps == {"receive", "load", "mark", "process", "complete", "ack", "nack"}

Idle == [pc |-> "receive", job |-> NoJob, ok |-> FALSE]

Holds(w, j) == worker[w].job = j

GoTo(w, pc) == worker' = [worker EXCEPT ![w].pc = pc]

-----------------------------------------------------------------------------
MarkRunning == [status |-> "running", result |-> FALSE,
                startedAt |-> TRUE, completedAt |-> FALSE]

\* Mutant of Completion: a status the API does not know.
CompletionTimesOut(ok) == [status |-> IF ok THEN "succeeded" ELSE "timed_out",
                           result |-> ok, startedAt |-> FALSE, completedAt |-> TRUE]

\* The completion: the result of the model call, or its error and no result.
Completion(ok) == [status |-> IF ok THEN "succeeded" ELSE "failed", result |-> ok,
                   startedAt |-> FALSE, completedAt |-> TRUE]

\* Receive returned a delivery of j to the idle worker w.
Received(w, j) ==
    /\ worker[w].pc = "receive"
    /\ worker' = [worker EXCEPT ![w] = [pc |-> "load", job |-> j, ok |-> FALSE]]

\* Mutant of LoadFails: any error of Get acknowledges the delivery.
LoadFailsAcks(w) ==
    /\ worker[w].pc = "load"
    /\ CallEnds("lost")
    /\ GoTo(w, "ack")
    /\ UNCHANGED store

LoadFails(w) ==
    /\ worker[w].pc = "load"
    /\ CallEnds("lost")
    /\ GoTo(w, "nack")
    /\ UNCHANGED store

\* Mutant of LoadSettled: ErrNotFound is not told from other errors.
LoadMissingNacks(w) ==
    /\ worker[w].pc = "load"
    /\ Settled(worker[w].job)
    /\ GoTo(w, IF Exists(worker[w].job) THEN "ack" ELSE "nack")
    /\ UNCHANGED <<store, faults>>

\* Get found no record, or one that needs no more work: acknowledge.
LoadSettled(w) ==
    /\ worker[w].pc = "load"
    /\ Settled(worker[w].job)
    /\ GoTo(w, "ack")
    /\ UNCHANGED <<store, faults>>

\* Mutant of LoadUnsettled: a redelivered job runs again whatever its status.
LoadRunsAnything(w) ==
    /\ worker[w].pc = "load"
    /\ Exists(worker[w].job)
    /\ GoTo(w, IF store[worker[w].job].status = "queued" THEN "mark" ELSE "process")
    /\ UNCHANGED <<store, faults>>

LoadUnsettled(w) ==
    /\ worker[w].pc = "load"
    /\ ~Settled(worker[w].job)
    /\ GoTo(w, IF store[worker[w].job].status = "queued" THEN "mark" ELSE "process")
    /\ UNCHANGED <<store, faults>>

Mark(w) ==
    /\ worker[w].pc = "mark"
    /\ \E outcome \in Outcomes :
          /\ Update(worker[w].job, MarkRunning, outcome)
          /\ GoTo(w, IF UpdateSucceeds(worker[w].job, outcome) THEN "process" ELSE "nack")

\* Mutant of Process: the delivery is acknowledged before the outcome is stored.
ProcessAcksFirst(w) ==
    /\ worker[w].pc = "process"
    /\ GoTo(w, "ack")
    /\ UNCHANGED <<store, faults>>

\* The model call, bounded by JobTimeout: it returns a text or an error.
Process(w) ==
    /\ worker[w].pc = "process"
    /\ \E ok \in BOOLEAN :
          worker' = [worker EXCEPT ![w].pc = "complete", ![w].ok = ok]
    /\ UNCHANGED <<store, faults>>

\* Mutant of Complete: the error of the Update is reported and forgotten.
CompleteAlwaysAcks(w) ==
    /\ worker[w].pc = "complete"
    /\ \E outcome \in Outcomes : Update(worker[w].job, Completion(worker[w].ok), outcome)
    /\ GoTo(w, "ack")

Complete(w) ==
    /\ worker[w].pc = "complete"
    /\ \E outcome \in Outcomes :
          /\ Update(worker[w].job, Completion(worker[w].ok), outcome)
          /\ GoTo(w, IF UpdateSucceeds(worker[w].job, outcome) THEN "ack" ELSE "nack")

\* The delivery is over, whether Ack or Nack returned an error or not.
Released(w) == worker' = [worker EXCEPT ![w] = Idle]

\* The process dies, or is told to stop and its cancelled context fails every
\* remaining call; a restarted process runs the worker again.
WorkerDies(w) ==
    /\ worker[w].pc # "receive"
    /\ faults < MaxFaults
    /\ faults' = faults + 1
    /\ Released(w)
    /\ UNCHANGED store

\* The steps that involve the store and the model server only.
StoreStep(w) ==
    \/ LoadFails(w)
    \/ LoadSettled(w)
    \/ LoadUnsettled(w)
    \/ Mark(w)
    \/ Process(w)
    \/ Complete(w)

SchedulerTypeOK ==
    worker \in [Workers -> [pc : Steps, job : Jobs \cup {NoJob}, ok : BOOLEAN]]

SchedulerInit == worker = [w \in Workers |-> Idle]
=============================================================================
