----------------------------- MODULE MemoryJobs -----------------------------
(***************************************************************************)
(* The job system over the in-process queue of lib/jobs/memory/backend.go: *)
(* a Go channel of bounded capacity.  Enqueue and Nack block while it is   *)
(* full, Ack does nothing, and a restart of the server empties it.  The    *)
(* store is the in-memory one, which the restart empties too and whose     *)
(* calls cannot fail, or one that outlives the process.                    *)
(***************************************************************************)
EXTENDS JobSystem, SequencesExt

CONSTANTS
    Capacity,       \* of the channel (New: 1024 in the server)
    MaxRestarts     \* bound on restarts of the server

ASSUME MemoryAssumption ==
    /\ Capacity \in Nat \ {0}
    /\ MaxRestarts \in Nat

VARIABLES
    channel,        \* the job IDs waiting in the channel, oldest first
    durable,        \* does the store outlive the process?
    restarts

vars == <<store, faults, api, worker, channel, durable, restarts>>

HasRoom == Len(channel) < Capacity

-----------------------------------------------------------------------------
\* A send, once there is room; or the request's context ends while it waits.
Enqueue(j) ==
    /\ \/ /\ HasRoom
          /\ Enqueued(j, "ok")
          /\ channel' = Append(channel, j)
          /\ UNCHANGED faults
       \/ /\ Enqueued(j, "lost")
          /\ CallEnds("lost")
          /\ UNCHANGED channel
    /\ UNCHANGED <<worker, durable, restarts>>

Receive(w) ==
    /\ channel # <<>>
    /\ Received(w, Head(channel))
    /\ channel' = Tail(channel)
    /\ UNCHANGED <<store, faults, api, durable, restarts>>

Ack(w) ==
    /\ worker[w].pc = "ack"
    /\ Released(w)
    /\ UNCHANGED <<store, faults, api, channel, durable, restarts>>

\* Mutant of Nack: the send gives up at once when the channel is full.
NackDrops(w) ==
    /\ worker[w].pc = "nack"
    /\ channel' = IF HasRoom THEN Append(channel, worker[w].job) ELSE channel
    /\ Released(w)
    /\ UNCHANGED <<store, faults, api, durable, restarts>>

\* Mutant of Nack: the worker sends again what it already sent.
NackTwice(w) ==
    /\ worker[w].pc = "nack"
    /\ HasRoom
    /\ channel' = Append(channel, worker[w].job)
    /\ Released(w) \/ UNCHANGED worker
    /\ UNCHANGED <<store, faults, api, durable, restarts>>

\* Nack is an Enqueue: the worker waits for room in the channel it drains.
Nack(w) ==
    /\ worker[w].pc = "nack"
    /\ HasRoom
    /\ channel' = Append(channel, worker[w].job)
    /\ Released(w)
    /\ UNCHANGED <<store, faults, api, durable, restarts>>

\* The server stops, by a signal or a crash, and is started again: what the
\* process held is gone, and nothing reads the store for unfinished jobs.
Restart ==
    /\ restarts < MaxRestarts
    /\ restarts' = restarts + 1
    /\ channel' = <<>>
    /\ worker' = [w \in Workers |-> Idle]
    /\ api' = [j \in Jobs |-> IF api[j] \in {"stored", "unqueued"} THEN "gone" ELSE api[j]]
    /\ store' = IF durable THEN store ELSE [j \in Jobs |-> ErrNotFound]
    /\ UNCHANGED <<faults, durable>>

-----------------------------------------------------------------------------
\* Calls to the in-memory store do not fail.
MayFail == durable \/ UNCHANGED faults

RequestStep(j) ==
    \/ (Submit(j) \/ Refuse(j)) /\ MayFail /\ UNCHANGED <<worker, channel, durable, restarts>>
    \/ Enqueue(j)

HandleStep(w) ==
    \/ StoreStep(w) /\ MayFail /\ UNCHANGED <<api, channel, durable, restarts>>
    \/ Ack(w)
    \/ Nack(w)

\* The server runs with either store, for good.
Init ==
    /\ StoreInit /\ IntakeInit /\ SchedulerInit
    /\ channel = <<>>
    /\ durable \in BOOLEAN
    /\ restarts = 0

Next ==
    \/ \E j \in Jobs : RequestStep(j)
    \/ \E w \in Workers : HandleStep(w) \/ Receive(w)
    \/ \E S \in SUBSET Jobs : DeleteExpired(S) /\ UNCHANGED <<api, worker, channel, durable, restarts>>
    \/ Restart

Spec == Init /\ [][Next]_vars

\* Goroutines that can run do: a blocked send proceeds once there is room, and
\* senders are served in the order they came.
Fairness ==
    /\ \A j \in Jobs : WF_vars(Enqueue(j))
    /\ \A w \in Workers : WF_vars(HandleStep(w)) /\ WF_vars(Receive(w))

FairSpec == Spec /\ Fairness

-----------------------------------------------------------------------------
TypeOK ==
    /\ StoreTypeOK
    /\ IntakeTypeOK
    /\ SchedulerTypeOK
    /\ channel \in Seq(Jobs) /\ Len(channel) <= Capacity
    /\ durable \in BOOLEAN
    /\ restarts \in 0..MaxRestarts

\* A job is in one place at most: once in the channel or with one worker.  No
\* worker ever works on the job of another, however often sends were retried.
QueuedOnce ==
    /\ IsInjective(channel)
    /\ \A w \in Workers : worker[w].pc # "receive" =>
          /\ worker[w].job \notin ToSet(channel)
          /\ \A v \in Workers \ {w} : ~Holds(v, worker[w].job)

\* Until the first restart no accepted job that still needs work is lost: it
\* waits in the channel or a worker holds it, also while the worker itself is
\* blocked in Nack.
AcceptedNeverStranded ==
    restarts = 0 => \A j \in Jobs : Accepted(j) /\ ~Settled(j) => j \in ToSet(channel) \/ Held(j)

\* The system implements the life cycle clients are promised, restarts included.
ImplementsLifecycle == Lifecycle!Spec

\* Without a restart every accepted job is settled for good in the end, if
\* there are fewer jobs than channel places and workers together.
AcceptedSettles == \A j \in Jobs : Accepted(j) ~> [](Settled(j) \/ restarts > 0)

\* Nack makes the job available again (jobs.go): the worker's send succeeds.
NackMakesAvailable == \A w \in Workers : worker[w].pc = "nack" ~> worker[w].pc # "nack"
=============================================================================
