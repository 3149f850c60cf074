------------------------- MODULE JetStreamJobsProofs ------------------------
(***************************************************************************)
(* Theorems about JetStreamJobs for every set of jobs and workers, every   *)
(* number of deliveries and every bound on faults.  Requests, workers and  *)
(* records are those of JobSystemProofs; what is proved here is how the    *)
(* stream delivers, and what each delivery was spent on.                   *)
(***************************************************************************)
EXTENDS JetStreamJobs, JobSystemProofs

\* A worker that has not failed its delivery yet.
Working(j) == \E w \in Workers : Holds(w, j) /\ worker[w].pc # "nack"

\* What holds of the message of one job.  Before its Enqueue it has none; a
\* worker holds only a delivered one; it leaves the stream when the job is
\* settled, or with the stream; and each of its deliveries, but the one a worker
\* is working on, was paid for with a fault (so a worker about to Nack has had
\* its fault already).
MessageInv(j) ==
    /\ api[j] \in {"new", "stored"} => queue[j] = "none" /\ deliveries[j] = 0
    /\ Held(j) => queue[j] = "delivered"
    /\ Accepted(j) /\ ~Settled(j) =>
          /\ queue[j] # "none" \/ restarted
          /\ deliveries[j] <= faults + (IF Working(j) THEN 1 ELSE 0)

\* The inductive invariant of JetStreamJobs.
IInv ==
    /\ TypeOK
    /\ SystemInv
    /\ \A j \in Jobs : MessageInv(j)

-----------------------------------------------------------------------------
\* The types, in a form the proofs use.
LEMMA Types ==
    ASSUME TypeOK
    PROVE  /\ store \in [Jobs -> JobRecord \cup {ErrNotFound}]
           /\ faults \in Nat /\ faults <= MaxFaults
           /\ api \in [Jobs -> Requests]
           /\ worker \in [Workers -> [pc : Steps, job : Jobs \cup {NoJob}, ok : BOOLEAN]]
           /\ queue \in [Jobs -> Messages]
           /\ deliveries \in [Jobs -> 0..MaxDeliver]
  BY FaultsAssumption DEF TypeOK, StoreTypeOK, IntakeTypeOK, SchedulerTypeOK

\* Initially there are no messages.
LEMMA InitIInv == Init => IInv
  <1> SUFFICES ASSUME Init PROVE IInv
    OBVIOUS
  <1>1. SystemInv
    BY SystemInit DEF Init
  <1>2. TypeOK
    <2>1. queue \in [Jobs -> Messages] /\ deliveries \in [Jobs -> 0..MaxDeliver]
      BY MaxDeliverAssumption DEF Init, Messages
    <2> QED BY <1>1, <2>1 DEF Init, TypeOK, SystemInv, SystemTypeOK
  <1>3. ASSUME NEW j \in Jobs PROVE MessageInv(j)
    <2>1. \A w \in Workers : ~Holds(w, j)
      BY NoJobAssumption DEF Init, SchedulerInit, Idle, Holds
    <2>2. api[j] = "new" /\ queue[j] = "none" /\ deliveries[j] = 0
      BY DEF Init, IntakeInit
    <2> QED BY <2>1, <2>2 DEF MessageInv, Held, Accepted
  <1> QED BY <1>1, <1>2, <1>3 DEF IInv

\* Under the invariant every step is a SystemStep: a message is ready only when
\* its job was enqueued and nobody holds it.
LEMMA NextSystem ==
    ASSUME IInv, [Next]_vars
    PROVE  SystemStep
  <1>1. SystemInv
    BY DEF IInv
  <1>2. ASSUME NEW j \in Jobs, RequestStep(j) PROVE SystemStep
    <2>1. CASE Submit(j) /\ UNCHANGED worker
      BY <2>1 DEF SystemStep, RequestActs
    <2>2. CASE Refuse(j) /\ UNCHANGED worker
      BY <1>1, <2>2, AtomicRefuse DEF SystemStep, RequestActs
    <2>3. CASE Enqueue(j)
      BY <2>3 DEF Enqueue, SystemStep, RequestActs
    <2> QED BY <1>2, <2>1, <2>2, <2>3 DEF RequestStep
  <1>3. ASSUME NEW w \in Workers, HandleStep(w) PROVE SystemStep
    <2>1. CASE StoreStep(w) /\ UNCHANGED api
      BY <1>1, <2>1, AtomicStoreStep DEF SystemStep
    <2>2. CASE Ack(w) \/ Nack(w)
      <3>1. Ends(w) /\ UNCHANGED api
        BY <2>2 DEF Ack, Nack, Ends, Counted, Outcomes
      <3> QED BY <3>1 DEF SystemStep
    <2> QED BY <1>3, <2>1, <2>2 DEF HandleStep
  <1>4. ASSUME NEW w \in Workers, NEW j \in Jobs, Receive(w, j) PROVE SystemStep
    <2>1. queue[j] = "ready" /\ MessageInv(j)
      BY <1>4 DEF Receive, Deliver, Deliverable, IInv
    <2>2. Begins(w, j) /\ UNCHANGED api
      BY <1>4, <2>1, UncountedCall DEF Receive, Deliver, MessageInv, Begins
    <2> QED BY <2>2 DEF SystemStep
  <1>5. ASSUME NEW w \in Workers, NEW j \in Jobs, ReceiveLost(w, j) PROVE SystemStep
    BY <1>5 DEF ReceiveLost, Deliver, SystemStep, Counted, Outcomes
  <1>6. ASSUME NEW j \in Jobs, AckWaitExpires(j) PROVE SystemStep
    BY <1>6, UncountedCall DEF AckWaitExpires, AckWaitEnds, SystemStep
  <1>7. CASE \E S \in SUBSET Jobs : DeleteExpired(S) /\ UNCHANGED <<api, worker, stream>>
    BY <1>7 DEF SystemStep
  <1>8. CASE Deaths
    BY <1>8, WorkerDeath DEF Deaths, SystemStep, RequestActs
  <1>9. CASE Restart
    BY <1>9 DEF Restart, SystemStep, Reboots, Counted, Outcomes
  <1>10. CASE UNCHANGED vars
    BY <1>10, SystemStutters DEF vars
  <1> QED
    BY <1>2, <1>3, <1>4, <1>5, <1>6, <1>7, <1>8, <1>9, <1>10 DEF Next

\* Every step keeps the types.
LEMMA NextType ==
    ASSUME IInv, [Next]_vars
    PROVE  TypeOK'
  <1>1. SystemTypeOK'
    BY NextSystem, SystemType DEF IInv, SystemInv
  <1>2. /\ queue \in [Jobs -> Messages] /\ deliveries \in [Jobs -> 0..MaxDeliver]
        /\ ephemeral \in BOOLEAN /\ restarted \in BOOLEAN
    BY DEF IInv, TypeOK
  <1>3. SUFFICES /\ queue' \in [Jobs -> Messages]
                 /\ deliveries' \in [Jobs -> 0..MaxDeliver]
                 /\ ephemeral' \in BOOLEAN /\ restarted' \in BOOLEAN
    BY <1>1 DEF TypeOK, SystemTypeOK
  <1>4. CASE UNCHANGED stream
    BY <1>2, <1>4 DEF stream
  <1>5. ASSUME NEW j \in Jobs, Enqueue(j) \/ AckWaitEnds(j)
        PROVE  /\ queue' \in [Jobs -> Messages]
               /\ UNCHANGED <<deliveries, ephemeral, restarted>>
    BY <1>2, <1>5 DEF Enqueue, AckWaitEnds, Messages
  <1>6. ASSUME NEW w \in Workers, Ack(w) \/ Nack(w)
        PROVE  /\ queue' \in [Jobs -> Messages]
               /\ UNCHANGED <<deliveries, ephemeral, restarted>>
    BY <1>2, <1>6 DEF Ack, Nack, Messages
  <1>7. ASSUME NEW j \in Jobs, Deliver(j)
        PROVE  /\ queue' \in [Jobs -> Messages]
               /\ deliveries' \in [Jobs -> 0..MaxDeliver]
               /\ UNCHANGED <<ephemeral, restarted>>
    <2>1. deliveries[j] + 1 \in 0..MaxDeliver
      BY <1>2, <1>7, MaxDeliverAssumption DEF Deliver, Deliverable
    <2> QED BY <1>2, <1>7, <2>1 DEF Deliver, Messages
  <1>8. CASE Restart
    BY <1>2, <1>8, MaxDeliverAssumption DEF Restart, Messages
  <1> QED
    BY <1>2, <1>4, <1>5, <1>6, <1>7, <1>8
    DEF Next, RequestStep, HandleStep, AckWaitExpires, Receive, ReceiveLost, Deaths, vars, stream

\* What a step must leave alone to keep the message of a job in order; a worker
\* that stops working on an unsettled job has to pay for it.
LEMMA MessageFrame ==
    ASSUME IInv, [Next]_vars, NEW j \in Jobs,
           queue'[j] = queue[j], deliveries'[j] = deliveries[j], restarted' = restarted,
           api'[j] \in {"new", "stored"} => api[j] \in {"new", "stored"},
           Accepted(j)' => Accepted(j),
           Held(j)' => Held(j),
           Working(j) => Working(j)' \/ faults' = faults + 1 \/ Settled(j)'
    PROVE  MessageInv(j)'
  <1>1. MessageInv(j)
    BY DEF IInv
  <1>2. SystemInv /\ SystemStep
    BY NextSystem DEF IInv
  <1>3. /\ faults \in Nat /\ deliveries[j] \in Nat
        /\ faults' \in {faults, faults + 1}
    BY <1>2, StepCounted, Types DEF IInv
  <1>4. ASSUME Accepted(j)', ~Settled(j)'
        PROVE  /\ queue'[j] # "none" \/ restarted'
               /\ deliveries'[j] <= faults' + (IF Working(j)' THEN 1 ELSE 0)
    <2>1. Accepted(j) /\ ~Settled(j)
      BY <1>2, <1>4, StaysSettled DEF Accepted
    <2>2. /\ queue[j] # "none" \/ restarted
          /\ deliveries[j] <= faults + (IF Working(j) THEN 1 ELSE 0)
      BY <1>1, <2>1 DEF MessageInv
    <2>3. CASE Working(j)'
      BY <1>3, <2>2, <2>3
    <2>4. CASE ~Working(j)' /\ ~Working(j)
      BY <1>3, <2>2, <2>4
    <2>5. CASE faults' = faults + 1
      BY <1>3, <2>2, <2>5
    <2> QED BY <1>4, <2>3, <2>4, <2>5
  <1> QED BY <1>1, <1>4 DEF MessageInv

\* The handler's steps keep the messages in order.
LEMMA RequestMessage ==
    ASSUME IInv, [Next]_vars, NEW k \in Jobs,
           RequestStep(k) \/ (RequestDies(k) /\ UNCHANGED <<worker, stream>>),
           NEW j \in Jobs
    PROVE  MessageInv(j)'
  <1>1. /\ api \in [Jobs -> Requests] /\ queue \in [Jobs -> Messages]
        /\ MessageInv(j)
    BY Types DEF IInv
  <1>2. UNCHANGED <<worker, deliveries, restarted>>
    BY DEF RequestStep, Enqueue, stream
  <1>3. (Held(j)' <=> Held(j)) /\ (Working(j)' <=> Working(j))
    BY <1>2 DEF Held, Working, Holds
  <1>4. CASE (Submit(k) \/ Refuse(k) \/ RequestDies(k)) /\ UNCHANGED stream
    <2>1. /\ api'[j] \in {"new", "stored"} => api[j] \in {"new", "stored"}
          /\ Accepted(j)' => Accepted(j)
      BY <1>1, <1>4 DEF Submit, Refuse, RequestDies, Accepted
    <2> QED BY <1>2, <1>3, <1>4, <2>1, MessageFrame DEF stream
  <1>5. CASE Enqueue(k) /\ j # k
    <2>1. api'[j] = api[j] /\ queue'[j] = queue[j]
      BY <1>1, <1>5 DEF Enqueue, Enqueued
    <2> QED BY <1>2, <1>3, <2>1, MessageFrame DEF Accepted
  <1>6. CASE Enqueue(k) /\ j = k
    <2>1. /\ api[j] = "stored"
          /\ api'[j] \in {"accepted", "unqueued"}
          /\ api'[j] = "accepted" => queue'[j] = "ready"
      BY <1>1, <1>6 DEF Enqueue, Enqueued, Outcomes
    <2>2. ~Held(j)' /\ deliveries'[j] = 0
      BY <1>1, <1>2, <1>3, <2>1 DEF MessageInv
    <2>3. faults' \in Nat
      BY NextSystem, StepCounted, Types DEF IInv
    <2> QED BY <2>1, <2>2, <2>3 DEF MessageInv, Accepted
  <1> QED BY <1>4, <1>5, <1>6 DEF RequestStep

\* A worker comes to Nack a job that is not settled only by a call that failed.
LEMMA NackPaid ==
    ASSUME NEW w \in Workers, StoreStep(w), worker'[w].pc = "nack",
           NEW j, j = worker[w].job, ~Settled(j)', faults \in Nat,
           worker \in [Workers -> [pc : Steps, job : Jobs \cup {NoJob}, ok : BOOLEAN]]
    PROVE  faults' = faults + 1
  <1>1. CASE LoadFails(w)
    BY <1>1 DEF LoadFails, CallEnds
  <1>2. CASE LoadSettled(w) \/ LoadUnsettled(w) \/ Process(w)
    <2>1. worker'[w].pc \in {"ack", "mark", "process", "complete"}
      BY <1>2 DEF LoadSettled, LoadUnsettled, Process, GoTo
    <2> QED BY <2>1
  <1>3. ASSUME NEW update, NEW outcome \in Outcomes, Update(j, update, outcome),
               ~UpdateSucceeds(j, outcome)
        PROVE  faults' = faults + 1
    <2>1. CASE outcome # "ok"
      BY <1>3, <2>1 DEF Update, CallEnds
    <2>2. CASE ~Exists(j)
      BY <1>3, <2>2 DEF Update, Exists, Settled
    <2> QED BY <1>3, <2>1, <2>2 DEF UpdateSucceeds
  <1>4. CASE Mark(w)
    <2>1. PICK outcome \in Outcomes :
             /\ Update(j, MarkRunning, outcome)
             /\ GoTo(w, IF UpdateSucceeds(j, outcome) THEN "process" ELSE "nack")
      BY <1>4 DEF Mark
    <2>2. ~UpdateSucceeds(j, outcome)
      BY <2>1 DEF GoTo
    <2> QED BY <1>3, <2>1, <2>2
  <1>5. CASE Complete(w)
    <2>1. PICK outcome \in Outcomes :
             /\ Update(j, Completion(worker[w].ok), outcome)
             /\ GoTo(w, IF UpdateSucceeds(j, outcome) THEN "ack" ELSE "nack")
      BY <1>5 DEF Complete
    <2>2. ~UpdateSucceeds(j, outcome)
      BY <2>1 DEF GoTo
    <2> QED BY <1>3, <2>1, <2>2
  <1> QED BY <1>1, <1>2, <1>4, <1>5 DEF StoreStep

\* The steps of handle that talk to the store and the model do.
LEMMA StoreStepMessage ==
    ASSUME IInv, [Next]_vars, NEW w \in Workers, StoreStep(w), UNCHANGED <<api, stream>>,
           NEW j \in Jobs
    PROVE  MessageInv(j)'
  <1>1. /\ faults \in Nat
        /\ worker \in [Workers -> [pc : Steps, job : Jobs \cup {NoJob}, ok : BOOLEAN]]
    BY Types DEF IInv
  <1>2. /\ \A v \in Workers : worker'[v].job = worker[v].job
        /\ \A v \in Workers \ {w} : worker'[v] = worker[v]
    BY <1>1
    DEF StoreStep, LoadFails, LoadSettled, LoadUnsettled, Process, Mark, Complete, GoTo
  <1>3. Held(j)' <=> Held(j)
    BY <1>2 DEF Held, Holds
  <1>4. ASSUME Working(j), ~Working(j)', ~Settled(j)' PROVE faults' = faults + 1
    <2>1. worker[w].job = j /\ worker'[w].pc = "nack"
      BY <1>2, <1>4 DEF Working, Holds
    <2> QED BY <1>1, <1>4, <2>1, NackPaid
  <1> QED BY <1>3, <1>4, MessageFrame DEF stream, Accepted

\* The end of a delivery does: an Ack is of a settled job, a Nack was paid for
\* before, and a worker's death pays.
LEMMA EndsMessage ==
    ASSUME IInv, [Next]_vars, NEW w \in Workers, UNCHANGED api,
           Ack(w) \/ Nack(w) \/ (WorkerDies(w) /\ UNCHANGED stream),
           NEW j \in Jobs
    PROVE  MessageInv(j)'
  <1>0. PICK k : k = worker[w].job
    OBVIOUS
  <1> USE <1>0
  <1>1. /\ faults \in Nat /\ queue \in [Jobs -> Messages]
        /\ worker \in [Workers -> [pc : Steps, job : Jobs \cup {NoJob}, ok : BOOLEAN]]
        /\ MessageInv(j)
    BY Types DEF IInv
  <1>2. UNCHANGED <<store, deliveries, restarted>> /\ worker[w].pc # "receive"
    BY DEF Ack, Nack, WorkerDies, stream
  <1>3. \A v \in Workers : worker'[v] = IF v = w THEN Idle ELSE worker[v]
    BY <1>1 DEF Ack, Nack, WorkerDies, Released
  <1>4. /\ k \in Jobs /\ Knows(w, k)
        /\ \A v \in Workers \ {w} : worker[v].job # k
    BY <1>2, Busy DEF IInv
  <1>5. \A v \in Workers, i \in Jobs : Holds(v, i)' => v # w /\ worker'[v] = worker[v]
    BY <1>3, NoJobAssumption DEF Holds, Idle
  <1>6. Held(j)' => Held(j)
    BY <1>5 DEF Held, Holds
  <1>7. CASE j # k
    <2>1. queue'[j] = queue[j]
      BY <1>1, <1>4, <1>7 DEF Ack, Nack, WorkerDies, stream
    <2>2. Working(j) => Working(j)'
      BY <1>3, <1>7 DEF Working, Holds
    <2> QED BY <1>2, <1>6, <2>1, <2>2, MessageFrame DEF Accepted
  <1>8. CASE j = k /\ Ack(w)
    <2>1. Settled(j)' /\ ~Held(j)'
      BY <1>2, <1>3, <1>4, <1>5, <1>8 DEF Ack, Knows, Settled, Exists, Held, Holds
    <2>2. api'[j] \notin {"new", "stored"}
      BY <1>2, <1>8, Busy DEF IInv
    <2> QED BY <2>1, <2>2 DEF MessageInv
  <1>9. CASE j = k /\ Nack(w)
    <2>1. ~Held(j)' /\ ~Working(j)
      BY <1>3, <1>4, <1>5, <1>9 DEF Nack, Held, Working, Holds
    <2>2. queue[j] = "delivered" /\ api[j] \notin {"new", "stored"}
      BY <1>1, <1>2, <1>9, Busy DEF MessageInv, IInv, Held, Holds
    <2>3. queue'[j] # "none"
      BY <1>1, <1>9, <2>2 DEF Nack
    <2>4. faults' \in {faults, faults + 1} /\ deliveries[j] \in Nat
      BY <1>1, NextSystem, StepCounted, Types DEF IInv
    <2>5. Accepted(j) /\ ~Settled(j) => deliveries[j] <= faults
      BY <1>1, <2>1, <2>4 DEF MessageInv
    <2>6. Accepted(j) /\ ~Settled(j) =>
             deliveries'[j] <= faults' + (IF Working(j)' THEN 1 ELSE 0)
      BY <1>1, <1>2, <2>4, <2>5
    <2>7. (Accepted(j)' <=> Accepted(j)) /\ (Settled(j)' <=> Settled(j))
      BY <1>2 DEF Accepted, Settled, Exists
    <2> QED BY <2>1, <2>2, <2>3, <2>6, <2>7, Zenon DEF MessageInv
  <1>10. CASE WorkerDies(w) /\ UNCHANGED stream
    <2>1. faults' = faults + 1
      BY <1>10 DEF WorkerDies
    <2> QED BY <1>2, <1>6, <1>10, <2>1, MessageFrame DEF stream, Accepted
  <1> QED BY <1>7, <1>8, <1>9, <1>10

\* A delivery does, heard of or not: it is the worker's, or paid for.
LEMMA DeliverMessage ==
    ASSUME IInv, [Next]_vars, NEW w \in Workers, NEW k \in Jobs,
           Receive(w, k) \/ ReceiveLost(w, k),
           NEW j \in Jobs
    PROVE  MessageInv(j)'
  <1>1. /\ faults \in Nat /\ queue \in [Jobs -> Messages]
        /\ deliveries \in [Jobs -> 0..MaxDeliver]
        /\ worker \in [Workers -> [pc : Steps, job : Jobs \cup {NoJob}, ok : BOOLEAN]]
        /\ MessageInv(j)
    BY Types DEF IInv
  <1>2. /\ UNCHANGED <<store, api, restarted>>
        /\ queue[k] = "ready"
        /\ queue' = [queue EXCEPT ![k] = "delivered"]
        /\ deliveries' = [deliveries EXCEPT ![k] = @ + 1]
    BY DEF Receive, ReceiveLost, Deliver, Deliverable
  <1>3. CASE j # k
    <2>1. queue'[j] = queue[j] /\ deliveries'[j] = deliveries[j]
      BY <1>1, <1>2, <1>3
    <2>2. Held(j)' => Held(j)
      BY <1>1, <1>3 DEF Receive, ReceiveLost, Received, Held, Holds
    <2>3. Working(j) => Working(j)'
      <3>1. worker[w].job = NoJob
        BY DEF Receive, ReceiveLost, Received, IInv, SystemInv, IdleHoldsNothing, Holds
      <3> QED BY <1>1, <3>1, NoJobAssumption DEF Receive, ReceiveLost, Received, Working, Holds
    <2> QED BY <1>2, <2>1, <2>2, <2>3, MessageFrame DEF Accepted
  <1>4. CASE j = k
    <2>1. ~Held(j) /\ ~Working(j)
      BY <1>1, <1>2, <1>4 DEF MessageInv, Held, Working
    <2>2. api'[j] \notin {"new", "stored"} /\ queue'[j] = "delivered"
      BY <1>1, <1>2, <1>4 DEF MessageInv
    <2>3. Accepted(j) /\ ~Settled(j) => deliveries[j] <= faults
      BY <1>1, <2>1 DEF MessageInv
    <2>4. deliveries'[j] = deliveries[j] + 1 /\ deliveries[j] \in Nat
      BY <1>1, <1>2, <1>4
    <2>5. \/ faults' = faults /\ Working(j)'
          \/ faults' = faults + 1
      <3>1. CASE Receive(w, k)
        <4>1. worker'[w] = [pc |-> "load", job |-> k, ok |-> FALSE]
          BY <1>1, <3>1 DEF Receive, Received
        <4> QED BY <1>4, <3>1, <4>1 DEF Receive, Working, Holds
      <3>2. CASE ReceiveLost(w, k)
        BY <3>2 DEF ReceiveLost, CallEnds
      <3> QED BY <3>1, <3>2
    <2>6. Accepted(j)' /\ ~Settled(j)' =>
             deliveries'[j] <= faults' + (IF Working(j)' THEN 1 ELSE 0)
      <3> SUFFICES ASSUME Accepted(j)', ~Settled(j)'
                   PROVE  deliveries'[j] <= faults' + (IF Working(j)' THEN 1 ELSE 0)
        OBVIOUS
      <3>1. deliveries[j] <= faults
        BY <1>2, <2>3 DEF Accepted, Settled, Exists
      <3> QED BY <1>1, <2>4, <2>5, <3>1
    <2> QED BY <2>2, <2>6 DEF MessageInv
  <1> QED BY <1>3, <1>4

\* No delivery is within any allowance.
LEMMA NoneCovered ==
    ASSUME NEW n \in Nat, NEW d, d = 0, NEW P
    PROVE  d <= n + (IF P THEN 1 ELSE 0)
  OBVIOUS

\* A new server begins with an empty stream.
LEMMA RestartMessage ==
    ASSUME IInv, Restart, NEW j \in Jobs
    PROVE  MessageInv(j)'
  <1>1. faults' \in Nat
    BY Types DEF IInv, Restart, CallEnds
  <1>2. ~Held(j)'
    BY NoJobAssumption DEF Restart, Held, Holds, Idle
  <1>3. queue'[j] = "none" /\ deliveries'[j] = 0
    BY DEF Restart
  <1>4. deliveries'[j] <= faults' + (IF Working(j)' THEN 1 ELSE 0)
    BY <1>1, <1>3, NoneCovered
  <1>5. restarted'
    BY DEF Restart
  <1> QED BY <1>2, <1>3, <1>4, <1>5, Zenon DEF MessageInv

\* Every step keeps the invariant.
LEMMA NextIInv == IInv /\ [Next]_vars => IInv'
  <1> SUFFICES ASSUME IInv, [Next]_vars PROVE IInv'
    OBVIOUS
  <1>1. TypeOK' /\ SystemInv'
    BY NextType, NextSystem, SystemStepInv DEF IInv
  <1>2. ASSUME NEW j \in Jobs PROVE MessageInv(j)'
    <2>1. ASSUME UNCHANGED <<api, worker, stream>> PROVE MessageInv(j)'
      BY <2>1, MessageFrame DEF stream, Held, Working, Holds, Accepted
    <2>2. CASE \E k \in Jobs : AckWaitExpires(k)
      <3>1. PICK k \in Jobs : AckWaitExpires(k)
        BY <2>2
      <3>2. /\ ~Held(k) /\ UNCHANGED <<store, faults, api, worker, deliveries, restarted>>
            /\ queue' = [queue EXCEPT ![k] = "ready"] /\ queue[k] = "delivered"
        BY <3>1 DEF AckWaitExpires, AckWaitEnds
      <3>3. queue \in [Jobs -> Messages] /\ MessageInv(j)
        BY Types DEF IInv
      <3>4. (Held(j)' <=> Held(j)) /\ (Working(j)' <=> Working(j))
        BY <3>2 DEF Held, Working, Holds
      <3> QED BY <3>2, <3>3, <3>4 DEF MessageInv, Accepted, Settled, Exists
    <2> QED
      BY <2>1, <2>2, RequestMessage, StoreStepMessage, EndsMessage, DeliverMessage,
         RestartMessage
      DEF Next, HandleStep, Deaths, Ack, Nack, vars
  <1> QED BY <1>1, <1>2 DEF IInv

\* The inductive invariant holds in every behaviour.
THEOREM Invariant == Spec => []IInv
  BY InitIInv, NextIInv, PTL DEF Spec

\* Type correctness.
THEOREM TypeCorrect == Spec => []TypeOK
  <1>1. IInv => TypeOK
    BY DEF IInv
  <1> QED BY <1>1, Invariant, PTL

\* Every delivery of an accepted, unsettled job but the one a worker holds was
\* spent on a fault (handle, Nack and the redeliveries of queue.go).
THEOREM PaidFor == Spec => []DeliveriesPaidFor
  <1>1. ASSUME IInv PROVE DeliveriesPaidFor
    <2>1. ASSUME NEW j \in Jobs, Accepted(j), ~Settled(j)
          PROVE  deliveries[j] <= faults + (IF Held(j) THEN 1 ELSE 0)
      <3>1. /\ faults \in Nat /\ deliveries[j] \in Nat
            /\ deliveries[j] <= faults + (IF Working(j) THEN 1 ELSE 0)
        BY <1>1, <2>1, Types DEF IInv, MessageInv
      <3>2. Working(j) => Held(j)
        BY DEF Working, Held
      <3> QED BY <3>1, <3>2
    <2> QED BY <2>1 DEF DeliveriesPaidFor
  <1> QED BY <1>1, Invariant, PTL

\* With fewer faults than deliveries, and unless a server in memory restarted,
\* an accepted job is held or will be delivered again until it is settled.
THEOREM StillDelivered == Spec => []AcceptedStillDelivered
  <1>1. ASSUME IInv PROVE AcceptedStillDelivered
    <2>1. ASSUME ~restarted, MaxFaults < MaxDeliver, NEW j \in Jobs, Accepted(j), ~Settled(j)
          PROVE  queue[j] # "none" /\ (Held(j) \/ deliveries[j] < MaxDeliver)
      <3>1. /\ faults \in Nat /\ deliveries[j] \in Nat /\ faults <= MaxFaults
            /\ queue[j] # "none"
            /\ deliveries[j] <= faults + (IF Working(j) THEN 1 ELSE 0)
        BY <1>1, <2>1, Types DEF IInv, MessageInv
      <3>2. CASE Working(j)
        BY <3>1, <3>2 DEF Working, Held
      <3>3. CASE ~Working(j)
        BY <2>1, <3>1, <3>3, FaultsAssumption, MaxDeliverAssumption
      <3> QED BY <3>2, <3>3
    <2> QED BY <2>1 DEF AcceptedStillDelivered
  <1> QED BY <1>1, Invariant, PTL

\* The system over JetStream is one of requests, workers and a store as
\* JobSystemProofs describes them, and so implements the life cycle of a job,
\* whatever the stream loses.
THEOREM Refinement == Spec => SystemSpec /\ Lifecycle!Spec
  <1>1. Init => StoreInit /\ IntakeInit /\ SchedulerInit
    BY DEF Init
  <1>2. Spec => SystemSpec
    BY <1>1, Invariant, NextSystem, PTL DEF Spec, SystemSpec
  <1> QED BY <1>2, SystemLifecycle

\* The outcome of an accepted job is final, and the model is not called for it
\* again.
THEOREM OutcomeFinal == Spec => [][OutcomeKept /\ CallsRunningJobs]_vars
  <1>1. IInv /\ [Next]_vars => OutcomeKept /\ CallsRunningJobs
    BY NextSystem, SystemStepOutcome DEF IInv
  <1> QED BY <1>1, Invariant, PTL DEF Spec
=============================================================================
