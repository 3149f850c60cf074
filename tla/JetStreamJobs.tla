---------------------------- MODULE JetStreamJobs ---------------------------
(***************************************************************************)
(* The job system over the work-queue stream of lib/jobs/natsjs: one       *)
(* message per job, published under the job's ID and kept until it is      *)
(* acknowledged.  A delivered message comes back after its ack wait of     *)
(* twice the job timeout, or at once after a Nak, until it was delivered   *)
(* MaxDeliver times; then it stays in the stream and nobody gets it.  The  *)
(* order of deliveries is left open, and no worker takes longer than the   *)
(* ack wait.                                                               *)
(***************************************************************************)
EXTENDS JobSystem

CONSTANT MaxDeliver     \* deliveries of one message (NewWithConnection: 20)

ASSUME MaxDeliverAssumption == MaxDeliver \in Nat \ {0}

VARIABLES
    queue,          \* job ID -> "none" (no message), "ready", or "delivered"
    deliveries,     \* job ID -> how often its message was delivered
    ephemeral,      \* is the stream in the memory of an embedded server?
    restarted       \* did that server restart, with an empty stream?

stream == <<queue, deliveries, ephemeral, restarted>>

vars == <<store, faults, api, worker, stream>>

Messages == {"none", "ready", "delivered"}

Deliverable(j) == queue[j] = "ready" /\ deliveries[j] < MaxDeliver

-----------------------------------------------------------------------------
\* Publish waits for the stream's answer; the message ID keeps a publish the
\* client library repeats from storing the message twice.
Enqueue(j) ==
    /\ \E outcome \in Outcomes :
          /\ Enqueued(j, outcome)
          /\ CallEnds(outcome)
          /\ queue' = IF outcome = "lost" THEN queue ELSE [queue EXCEPT ![j] = "ready"]
    /\ UNCHANGED <<worker, deliveries, ephemeral, restarted>>

Deliver(j) ==
    /\ Deliverable(j)
    /\ queue' = [queue EXCEPT ![j] = "delivered"]
    /\ deliveries' = [deliveries EXCEPT ![j] = @ + 1]
    /\ UNCHANGED <<store, api, ephemeral, restarted>>

Receive(w, j) == Deliver(j) /\ Received(w, j) /\ UNCHANGED faults

\* The message was sent but the worker's Fetch ended without it.
ReceiveLost(w, j) ==
    /\ worker[w].pc = "receive"
    /\ Deliver(j) /\ CallEnds("unknown") /\ UNCHANGED worker

\* DoubleAck: the message leaves the stream, and the worker waits to hear so.
Ack(w) ==
    /\ worker[w].pc = "ack"
    /\ Released(w)
    /\ \E outcome \in Outcomes :
          /\ CallEnds(outcome)
          /\ queue' = IF outcome = "lost" THEN queue
                      ELSE [queue EXCEPT ![worker[w].job] = "none"]
    /\ UNCHANGED <<store, api, deliveries, ephemeral, restarted>>

\* Mutant of Nack: the message is terminated, as Receive does with an empty one.
NackTerminates(w) ==
    /\ worker[w].pc = "nack"
    /\ Released(w)
    /\ queue' = [queue EXCEPT ![worker[w].job] = "none"]
    /\ UNCHANGED <<store, faults, api, deliveries, ephemeral, restarted>>

\* Nak is sent and not answered: it may be lost, the ack wait then ends.
Nack(w) ==
    /\ worker[w].pc = "nack"
    /\ Released(w)
    /\ \E outcome \in {"ok", "lost"} :
          /\ CallEnds(outcome)
          /\ queue' = IF outcome = "lost" \/ queue[worker[w].job] = "none" THEN queue
                      ELSE [queue EXCEPT ![worker[w].job] = "ready"]
    /\ UNCHANGED <<store, api, deliveries, ephemeral, restarted>>

AckWaitEnds(j) ==
    /\ queue[j] = "delivered"
    /\ queue' = [queue EXCEPT ![j] = "ready"]
    /\ UNCHANGED <<store, faults, api, worker, deliveries, ephemeral, restarted>>

\* Mutant of AckWaitExpires: an ack wait shorter than the work it covers.
AckWaitTooShort(j) == AckWaitEnds(j)

AckWaitExpires(j) == ~Held(j) /\ AckWaitEnds(j)

\* The server stops and starts again: requests and workers die together, and
\* with them a stream the embedded JetStream kept in memory.
Restart ==
    /\ ephemeral
    /\ CallEnds("lost")
    /\ queue' = [j \in Jobs |-> "none"]
    /\ deliveries' = [j \in Jobs |-> 0]
    /\ restarted' = TRUE
    /\ worker' = [w \in Workers |-> Idle]
    /\ api' = [j \in Jobs |-> IF api[j] \in {"stored", "unqueued"} THEN "gone" ELSE api[j]]
    /\ UNCHANGED <<store, ephemeral>>

-----------------------------------------------------------------------------
RequestStep(j) ==
    \/ (Submit(j) \/ Refuse(j)) /\ UNCHANGED <<worker, stream>>
    \/ Enqueue(j)

HandleStep(w) ==
    \/ StoreStep(w) /\ UNCHANGED <<api, stream>>
    \/ Ack(w)
    \/ Nack(w)

\* Processes around a stream that is not theirs die one at a time.
Deaths ==
    /\ ~ephemeral
    /\ \/ \E j \in Jobs : RequestDies(j) /\ UNCHANGED <<worker, stream>>
       \/ \E w \in Workers : WorkerDies(w) /\ UNCHANGED <<api, stream>>

Init ==
    /\ StoreInit /\ IntakeInit /\ SchedulerInit
    /\ queue = [j \in Jobs |-> "none"]
    /\ deliveries = [j \in Jobs |-> 0]
    /\ ephemeral \in BOOLEAN
    /\ restarted = FALSE

Next ==
    \/ \E j \in Jobs : RequestStep(j) \/ AckWaitExpires(j)
    \/ \E w \in Workers :
          \/ HandleStep(w)
          \/ \E j \in Jobs : Receive(w, j) \/ ReceiveLost(w, j)
    \/ \E S \in SUBSET Jobs : DeleteExpired(S) /\ UNCHANGED <<api, worker, stream>>
    \/ Deaths
    \/ Restart

Spec == Init /\ [][Next]_vars

\* As over PostgreSQL: goroutines run, calls return, the ack wait passes.
Fairness ==
    /\ \A j \in Jobs : WF_vars(Enqueue(j)) /\ WF_vars(AckWaitExpires(j))
    /\ \A w \in Workers :
          /\ WF_vars(HandleStep(w))
          /\ WF_vars(\E j \in Jobs : Receive(w, j))

FairSpec == Spec /\ Fairness

-----------------------------------------------------------------------------
TypeOK ==
    /\ StoreTypeOK
    /\ IntakeTypeOK
    /\ SchedulerTypeOK
    /\ queue \in [Jobs -> Messages]
    /\ deliveries \in [Jobs -> 0..MaxDeliver]
    /\ ephemeral \in BOOLEAN /\ restarted \in BOOLEAN

\* While fewer calls fail and processes die than a message has deliveries, no
\* accepted job runs out of them before it settled: a worker has it, or the
\* stream will deliver it again (Nack and redelivery in queue.go).
AcceptedStillDelivered ==
    ~restarted /\ MaxFaults < MaxDeliver =>
        \A j \in Jobs : Accepted(j) /\ ~Settled(j) =>
            queue[j] # "none" /\ (Held(j) \/ deliveries[j] < MaxDeliver)

\* Why: each delivery of such a job but the one a worker holds was spent on a
\* call that failed or a process that died.
DeliveriesPaidFor ==
    \A j \in Jobs : Accepted(j) /\ ~Settled(j) =>
        deliveries[j] <= faults + (IF Held(j) THEN 1 ELSE 0)

\* Every accepted job is settled for good in the end, if its deliveries suffice
\* and its message was not lost with the stream.
AcceptedSettles == \A j \in Jobs : Accepted(j) ~> [](Settled(j) \/ restarted)

\* Nack makes the job available again (the Delivery interface in jobs.go): after
\* a Nak that reached the server, the stream has a delivery left for the job.
NackMakesAvailable ==
    [][\A w \in Workers, j \in Jobs :
          Holds(w, j) /\ worker[w].pc = "nack" /\ worker'[w].pc = "receive" /\ faults' = faults
              => Deliverable(j)']_vars
=============================================================================
