------------------------------- MODULE Intake -------------------------------
(***************************************************************************)
(* POST /v1/jobs: the steps of Handler.create in lib/restapi/handler.go    *)
(* after the body was decoded and validated.  A request stores the job,    *)
(* enqueues its ID, and answers 202; when the queue refuses the ID it      *)
(* marks the stored job failed, ignoring whether that worked, and answers  *)
(* 503.  The queue's part of a step belongs to the module of that queue.   *)
(***************************************************************************)
EXTENDS JobStore

VARIABLE api        \* job ID -> how far the request that drew it has come

\* "new"       no request drew this ID yet
\* "stored"    Store.Create returned, Queue.Enqueue is next
\* "unqueued"  Enqueue returned an error, the Update to failed is next
\* "accepted"  answered 202
\* "unstored"  answered 503, Create returned an error
\* "refused"   answered 503 after Enqueue returned an error
\* "gone"      the server died before it answered
Requests == {"new", "stored", "unqueued", "accepted", "unstored", "refused", "gone"}

QueueUnavailable == [status |-> "failed", result |-> FALSE,
                     startedAt |-> FALSE, completedAt |-> TRUE]

Submit(j) ==
    /\ api[j] = "new"
    /\ \E outcome \in Outcomes :
          /\ Create(j, outcome)
          /\ api' = [api EXCEPT ![j] = IF outcome = "ok" THEN "stored" ELSE "unstored"]

\* The handler's side of Queue.Enqueue, which ended with this outcome.
Enqueued(j, outcome) ==
    /\ api[j] = "stored"
    /\ api' = [api EXCEPT ![j] = IF outcome = "ok" THEN "accepted" ELSE "unqueued"]
    /\ UNCHANGED store

Refuse(j) ==
    /\ api[j] = "unqueued"
    /\ \E outcome \in Outcomes : Update(j, QueueUnavailable, outcome)
    /\ api' = [api EXCEPT ![j] = "refused"]

RequestDies(j) ==
    /\ api[j] \in {"stored", "unqueued"}
    /\ faults < MaxFaults
    /\ faults' = faults + 1
    /\ api' = [api EXCEPT ![j] = "gone"]
    /\ UNCHANGED store

IntakeTypeOK == api \in [Jobs -> Requests]

IntakeInit == api = [j \in Jobs |-> "new"]
=============================================================================
