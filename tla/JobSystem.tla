----------------------------- MODULE JobSystem ------------------------------
(***************************************************************************)
(* Requests and workers around one store, whatever queue connects them:    *)
(* what a client sees of them, and the formulas that the systems over each *)
(* queue have in common.                                                   *)
(***************************************************************************)
EXTENDS Intake, Scheduler

Held(j) == \E w \in Workers : Holds(w, j)

Accepted(j) == api[j] = "accepted"

\* The life of a job: its record's status, and what its client was told.
PhaseOf(j) == IF Exists(j) THEN store[j].status ELSE "absent"

AnswerTo(j) ==
    CASE api[j] = "new" -> "none"
      [] api[j] \in {"stored", "unqueued"} -> "pending"
      [] api[j] = "accepted" -> "202"
      [] OTHER -> "503"

Phase == [j \in Jobs |-> PhaseOf(j)]
Answer == [j \in Jobs |-> AnswerTo(j)]

Lifecycle == INSTANCE JobLifecycle WITH phase <- Phase, answer <- Answer

\* The fields of a record agree with its status.
Consistent(job) ==
    /\ job.completedAt <=> job.status \in Terminal
    /\ job.startedAt <=> job.status # "queued"
    /\ job.result <=> job.status = "succeeded"

\* The outcome of an accepted job is left alone until its record is removed.
OutcomeKept ==
    \A j \in Jobs : Accepted(j) /\ Exists(j) /\ store[j].status \in Terminal
                        => store'[j] \in {store[j], ErrNotFound}

\* A worker that calls the model for an accepted job, does so while the record
\* says it is running.
CallsRunningJobs ==
    \A w \in Workers, j \in Jobs :
        Holds(w, j) /\ worker[w].pc = "process" /\ worker'[w].pc = "complete"
            /\ Accepted(j) /\ Exists(j)
            => store[j].status = "running"

\* A worker is waiting in Receive exactly when it holds no delivery.
IdleHoldsNothing == \A w \in Workers : worker[w].pc = "receive" <=> Holds(w, NoJob)

\* What a worker learned of the job it holds is still true when it acts on it.
Knows(w, j) ==
    /\ worker[w].pc = "ack" => Settled(j)
    /\ Accepted(j) /\ Exists(j) =>
          /\ worker[w].pc = "mark" => store[j].status = "queued"
          /\ worker[w].pc \in {"process", "complete"} => store[j].status = "running"

WorkersKnow == \A w \in Workers, j \in Jobs : Holds(w, j) => Knows(w, j)
=============================================================================
