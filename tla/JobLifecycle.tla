---------------------------- MODULE JobLifecycle ----------------------------
(***************************************************************************)
(* What a client of the REST API may rely on, without queue, workers or    *)
(* calls that fail: a job is stored as queued, answered 202 or 503, and an *)
(* accepted one only moves queued -> running -> succeeded or failed until  *)
(* its record expires, after which it never comes back.  A request that    *)
(* was not answered 202 is promised only that its record never returns to  *)
(* queued or comes back once gone: its ID may have reached the queue all   *)
(* the same.                                                               *)
(***************************************************************************)
CONSTANT Jobs

VARIABLES
    phase,      \* job ID -> status of its record, or "absent"
    answer      \* job ID -> "none" (no such request), "pending", "202", "503"

vars == <<phase, answer>>

Init ==
    /\ phase = [j \in Jobs |-> "absent"]
    /\ answer = [j \in Jobs |-> "none"]

Becomes(j, status) == phase' = [phase EXCEPT ![j] = status]

Submit(j) ==
    /\ answer[j] = "none"
    /\ \/ Becomes(j, "queued") /\ answer' = [answer EXCEPT ![j] = "pending"]
       \/ Becomes(j, "queued") /\ answer' = [answer EXCEPT ![j] = "503"]
       \/ UNCHANGED phase /\ answer' = [answer EXCEPT ![j] = "503"]

Accept(j) ==
    /\ answer[j] = "pending"
    /\ phase[j] \in {"queued", "absent"}
    /\ answer' = [answer EXCEPT ![j] = "202"]
    /\ UNCHANGED phase

Refuse(j) ==
    /\ answer[j] = "pending"
    /\ answer' = [answer EXCEPT ![j] = "503"]
    /\ UNCHANGED phase \/ (phase[j] # "absent" /\ Becomes(j, "failed"))

Start(j) ==
    /\ phase[j] = "queued"
    /\ Becomes(j, "running")
    /\ UNCHANGED answer

Finish(j) ==
    /\ phase[j] = "running"
    /\ \E status \in {"succeeded", "failed"} : Becomes(j, status)
    /\ UNCHANGED answer

\* A worker and the handler of a request that is not accepted may both write.
Contend(j) ==
    /\ answer[j] \in {"pending", "503"} /\ phase[j] # "absent"
    /\ \E status \in {"running", "succeeded", "failed"} : Becomes(j, status)
    /\ UNCHANGED answer

\* Records expire, or vanish with a server that kept them in memory; requests
\* that a stopping server had not answered never are.
Lose(records, requests) ==
    /\ \A j \in records : phase[j] # "absent"
    /\ \A j \in requests : answer[j] = "pending"
    /\ phase' = [j \in Jobs |-> IF j \in records THEN "absent" ELSE phase[j]]
    /\ answer' = [j \in Jobs |-> IF j \in requests THEN "503" ELSE answer[j]]

Next ==
    \/ \E j \in Jobs : \/ Submit(j) \/ Accept(j) \/ Refuse(j)
                       \/ Start(j) \/ Finish(j) \/ Contend(j)
    \/ \E records, requests \in SUBSET Jobs : Lose(records, requests)

Spec == Init /\ [][Next]_vars
=============================================================================
