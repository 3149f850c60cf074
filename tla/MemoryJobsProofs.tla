-------------------------- MODULE MemoryJobsProofs --------------------------
(***************************************************************************)
(* Theorems about MemoryJobs for every set of jobs and workers, every      *)
(* capacity of the channel and every number of failed calls and restarts,  *)
(* over either store.                                                      *)
(***************************************************************************)
EXTENDS MemoryJobs, JobSystemProofs, SequenceTheorems

Waits(j) == \E i \in DOMAIN channel : channel[i] = j

\* A job in the channel was enqueued, once, and nobody works on it; and until
\* the first restart an accepted job that is not settled is somewhere.
ChannelInv ==
    /\ \A h, i \in DOMAIN channel : channel[h] = channel[i] => h = i
    /\ \A j \in Jobs : Waits(j) => api[j] \notin {"new", "stored"} /\ ~Held(j)
    /\ restarts = 0 => \A j \in Jobs : Accepted(j) /\ ~Settled(j) => Waits(j) \/ Held(j)

\* The inductive invariant of MemoryJobs.
IInv ==
    /\ TypeOK
    /\ SystemInv
    /\ ChannelInv

\* What a send and a receive make of the channel.
LEMMA Send ==
    ASSUME channel \in Seq(Jobs), NEW j \in Jobs
    PROVE  /\ Append(channel, j) \in Seq(Jobs)
           /\ Len(Append(channel, j)) = Len(channel) + 1
           /\ DOMAIN Append(channel, j) = DOMAIN channel \cup {Len(channel) + 1}
           /\ Len(channel) + 1 \notin DOMAIN channel
           /\ Append(channel, j)[Len(channel) + 1] = j
           /\ \A i \in DOMAIN channel : Append(channel, j)[i] = channel[i]
  <1>1. /\ Append(channel, j) \in Seq(Jobs)
        /\ Len(Append(channel, j)) = Len(channel) + 1
        /\ Append(channel, j)[Len(channel) + 1] = j
        /\ \A i \in 1..Len(channel) : Append(channel, j)[i] = channel[i]
    BY AppendProperties
  <1>2. /\ DOMAIN channel = 1..Len(channel) /\ Len(channel) \in Nat
        /\ DOMAIN Append(channel, j) = 1..(Len(channel) + 1)
    BY <1>1, LenProperties
  <1> QED BY <1>1, <1>2

LEMMA HeadLeaves ==
    ASSUME channel \in Seq(Jobs), channel # <<>>
    PROVE  /\ Head(channel) \in Jobs /\ Tail(channel) \in Seq(Jobs)
           /\ 1 \in DOMAIN channel /\ channel[1] = Head(channel)
           /\ Len(Tail(channel)) = Len(channel) - 1
           /\ \A i \in DOMAIN Tail(channel) :
                 i + 1 \in DOMAIN channel /\ i + 1 # 1 /\ Tail(channel)[i] = channel[i + 1]
           /\ \A i \in DOMAIN channel \ {1} :
                 i - 1 \in DOMAIN Tail(channel) /\ Tail(channel)[i - 1] = channel[i]
  <1>1. /\ Head(channel) \in Jobs /\ Tail(channel) \in Seq(Jobs)
        /\ Len(Tail(channel)) = Len(channel) - 1
        /\ \A i \in 1..Len(Tail(channel)) : Tail(channel)[i] = channel[i + 1]
    BY HeadTailProperties
  <1>2. /\ DOMAIN channel = 1..Len(channel) /\ Len(channel) \in Nat /\ Len(channel) # 0
        /\ DOMAIN Tail(channel) = 1..(Len(channel) - 1)
    BY <1>1, LenProperties, EmptySeq
  <1>3. channel[1] = Head(channel)
    BY DEF Head
  <1>4. \A i \in 1..(Len(channel) - 1) : i + 1 \in 1..Len(channel) /\ i + 1 # 1
    BY <1>2
  <1>5. \A i \in (1..Len(channel)) \ {1} : i - 1 \in 1..(Len(channel) - 1) /\ (i - 1) + 1 = i
    BY <1>2
  <1> QED BY <1>1, <1>2, <1>3, <1>4, <1>5

\* The invariant, in a form the proofs use.
LEMMA Parts ==
    ASSUME IInv
    PROVE  /\ SystemTypeOK /\ SystemInv /\ ChannelInv
           /\ store \in [Jobs -> JobRecord \cup {ErrNotFound}]
           /\ api \in [Jobs -> Requests]
           /\ worker \in [Workers -> [pc : Steps, job : Jobs \cup {NoJob}, ok : BOOLEAN]]
           /\ channel \in Seq(Jobs) /\ Len(channel) \in 0..Capacity
           /\ DOMAIN channel = 1..Len(channel)
           /\ durable \in BOOLEAN /\ restarts \in 0..MaxRestarts
  <1>1. channel \in Seq(Jobs) /\ Len(channel) <= Capacity
    BY DEF IInv, TypeOK
  <1>2. Len(channel) \in 0..Capacity /\ DOMAIN channel = 1..Len(channel)
    BY <1>1, LenProperties, MemoryAssumption
  <1> QED BY <1>1, <1>2 DEF IInv, TypeOK, SystemTypeOK, StoreTypeOK, IntakeTypeOK, SchedulerTypeOK

\* Under the invariant every step is a SystemStep: what a worker receives was
\* enqueued, and is in no other place.
LEMMA NextSystem == IInv /\ [Next]_vars => SystemStep
  <1> SUFFICES ASSUME IInv, [Next]_vars PROVE SystemStep
    OBVIOUS
  <1>1. ASSUME NEW j \in Jobs, RequestStep(j) PROVE SystemStep
    <2>1. CASE Submit(j) /\ UNCHANGED worker
      BY <2>1 DEF SystemStep, RequestActs
    <2>2. CASE Refuse(j) /\ UNCHANGED worker
      BY <2>2, Parts, AtomicRefuse DEF SystemStep, RequestActs
    <2>3. CASE Enqueue(j)
      <3>1. \E outcome \in Outcomes : Enqueued(j, outcome) /\ CallEnds(outcome)
        BY <2>3 DEF Enqueue, CallEnds, Outcomes
      <3> QED BY <2>3, <3>1 DEF Enqueue, SystemStep, RequestActs
    <2> QED BY <1>1, <2>1, <2>2, <2>3 DEF RequestStep
  <1>2. ASSUME NEW w \in Workers, HandleStep(w) PROVE SystemStep
    <2>1. CASE StoreStep(w) /\ UNCHANGED api
      BY <2>1, Parts, AtomicStoreStep DEF SystemStep
    <2>2. CASE Ack(w) \/ Nack(w)
      <3>1. Ends(w) /\ UNCHANGED api
        BY <2>2, UncountedCall DEF Ack, Nack, Ends
      <3> QED BY <3>1 DEF SystemStep
    <2> QED BY <1>2, <2>1, <2>2 DEF HandleStep
  <1>3. ASSUME NEW w \in Workers, Receive(w) PROVE SystemStep
    <2>1. Head(channel) \in Jobs /\ Waits(Head(channel))
      BY <1>3, Parts, HeadLeaves DEF Receive, Waits
    <2>2. Begins(w, Head(channel)) /\ UNCHANGED api
      BY <1>3, <2>1, Parts, UncountedCall DEF Receive, Begins, ChannelInv
    <2> QED BY <2>1, <2>2 DEF SystemStep
  <1>4. CASE Restart
    <2>1. Reboots
      BY <1>4, Parts, UncountedCall DEF Restart, Reboots
    <2> QED BY <2>1 DEF SystemStep
  <1>5. CASE \E S \in SUBSET Jobs : DeleteExpired(S) /\ UNCHANGED <<api, worker>>
    BY <1>5 DEF SystemStep
  <1>6. CASE UNCHANGED vars
    BY <1>6, SystemStutters DEF vars
  <1> QED BY <1>1, <1>2, <1>3, <1>4, <1>5, <1>6 DEF Next

\* What a step that leaves the channel alone must do to keep it in order.
LEMMA ChannelFrame ==
    ASSUME IInv, SystemStep, UNCHANGED <<channel, restarts>>,
           \A j \in Jobs : /\ api'[j] \in {"new", "stored"} => api[j] \in {"new", "stored"}
                           /\ Accepted(j)' => Accepted(j)
                           /\ Held(j)' => Held(j)
                           /\ Held(j) /\ ~Settled(j) /\ Accepted(j) => Held(j)'
    PROVE  ChannelInv'
  <1>1. \A j \in Jobs : Waits(j)' <=> Waits(j)
    BY DEF Waits
  <1>2. ASSUME NEW j \in Jobs, Accepted(j)', ~Settled(j)' PROVE Accepted(j) /\ ~Settled(j)
    BY <1>2, Parts, StaysSettled DEF Accepted
  <1> QED BY <1>1, <1>2, Parts DEF ChannelInv

\* A send puts a job in the channel that was neither there nor anybody's, or
\* that the sender held and holds no more.
LEMMA SendChannel ==
    ASSUME IInv, SystemStep, NEW k \in Jobs, ~Waits(k), channel' = Append(channel, k),
           api'[k] \notin {"new", "stored"}, ~Held(k)', UNCHANGED restarts,
           \A j \in Jobs \ {k} : api'[j] = api[j] /\ (Held(j)' <=> Held(j))
    PROVE  ChannelInv'
  <1>1. PICK n : n = Len(channel) + 1
    OBVIOUS
  <1>2. /\ DOMAIN channel' = DOMAIN channel \cup {n} /\ n \notin DOMAIN channel
        /\ channel'[n] = k
        /\ \A i \in DOMAIN channel : channel'[i] = channel[i]
    BY <1>1, Parts, Send
  <1>3. \A j \in Jobs : Waits(j)' <=> Waits(j) \/ j = k
    BY <1>2 DEF Waits
  <1>4. \A h, i \in DOMAIN channel' : channel'[h] = channel'[i] => h = i
    BY <1>2, Parts DEF ChannelInv, Waits
  <1>5. ASSUME NEW j \in Jobs \ {k}, Accepted(j)', ~Settled(j)' PROVE Accepted(j) /\ ~Settled(j)
    BY <1>5, Parts, StaysSettled DEF Accepted
  <1> QED BY <1>3, <1>4, <1>5, Parts DEF ChannelInv

\* A receive takes the first job out of the channel and gives it to the worker.
LEMMA ReceiveChannel ==
    ASSUME IInv, SystemStep, NEW w \in Workers, Receive(w)
    PROVE  ChannelInv'
  <1>1. PICK k : k = Head(channel)
    OBVIOUS
  <1>2. /\ k \in Jobs /\ channel' = Tail(channel) /\ UNCHANGED <<store, api, restarts>>
        /\ 1 \in DOMAIN channel /\ channel[1] = k
        /\ \A i \in DOMAIN channel' :
              i + 1 \in DOMAIN channel /\ i + 1 # 1 /\ channel'[i] = channel[i + 1]
        /\ \A i \in DOMAIN channel \ {1} :
              i - 1 \in DOMAIN channel' /\ channel'[i - 1] = channel[i]
    BY <1>1, Parts, HeadLeaves DEF Receive
  <1>3. \A j \in Jobs : Waits(j)' <=> Waits(j) /\ j # k
    <2>1. ASSUME NEW j \in Jobs, Waits(j)' PROVE Waits(j) /\ j # k
      <3>1. PICK i \in DOMAIN channel' : channel'[i] = j
        BY <2>1 DEF Waits
      <3>2. i + 1 \in DOMAIN channel /\ i + 1 # 1 /\ channel[i + 1] = j
        BY <1>2, <3>1
      <3> QED BY <1>2, <3>2, Parts DEF Waits, ChannelInv
    <2>2. ASSUME NEW j \in Jobs, Waits(j), j # k PROVE Waits(j)'
      <3>1. PICK i \in DOMAIN channel \ {1} : channel[i] = j
        BY <1>2, <2>2 DEF Waits
      <3>2. i - 1 \in DOMAIN channel' /\ channel'[i - 1] = j
        BY <1>2, <3>1
      <3> QED BY <3>2 DEF Waits
    <2> QED BY <2>1, <2>2
  <1>4. \A j \in Jobs : Held(j)' <=> Held(j) \/ j = k
    <2>1. \A v \in Workers : worker'[v].job = IF v = w THEN k ELSE worker[v].job
      BY <1>1, Parts DEF Receive, Received
    <2>2. \A j \in Jobs : ~Holds(w, j)
      BY Parts, NoJobAssumption DEF Receive, Received, SystemInv, IdleHoldsNothing, Holds
    <2> QED BY <2>1, <2>2 DEF Held, Holds
  <1>5. \A h, i \in DOMAIN channel' : channel'[h] = channel'[i] => h = i
    <2> SUFFICES ASSUME NEW h \in DOMAIN channel', NEW i \in DOMAIN channel',
                        channel'[h] = channel'[i]
                 PROVE  h = i
      OBVIOUS
    <2>1. h + 1 = i + 1
      BY <1>2, Parts DEF ChannelInv
    <2>2. DOMAIN channel' = 1..Len(channel') /\ Len(channel') \in Nat
      BY <1>2, Parts, HeadLeaves, LenProperties DEF Receive
    <2> QED BY <2>1, <2>2
  <1> QED BY <1>2, <1>3, <1>4, <1>5, Parts DEF ChannelInv, Accepted, Settled, Exists

\* Every step keeps the channel in order.
LEMMA NextChannel ==
    ASSUME IInv, [Next]_vars
    PROVE  ChannelInv' /\ channel' \in Seq(Jobs) /\ Len(channel') <= Capacity
  <1>1. SystemStep
    BY NextSystem
  <1>2. CASE UNCHANGED channel
    <2>1. channel' \in Seq(Jobs) /\ Len(channel') <= Capacity
      BY <1>2, Parts
    <2>2. ASSUME NEW j \in Jobs, RequestStep(j) PROVE ChannelInv'
      <3>1. UNCHANGED <<worker, restarts>>
        BY <2>2 DEF RequestStep, Enqueue
      <3>2. \A k \in Jobs : Held(k)' <=> Held(k)
        BY <3>1 DEF Held, Holds
      <3>3. CASE Submit(j) \/ Refuse(j)
        <4>1. \A k \in Jobs : /\ api'[k] \in {"new", "stored"} => api[k] \in {"new", "stored"}
                              /\ Accepted(k)' => Accepted(k)
          BY <3>3, Parts DEF Submit, Refuse, Accepted
        <4> QED BY <1>1, <1>2, <3>1, <3>2, <4>1, ChannelFrame
      <3>4. CASE Enqueued(j, "lost")
        <4>1. \A k \in Jobs : /\ api'[k] \in {"new", "stored"} => api[k] \in {"new", "stored"}
                              /\ Accepted(k)' => Accepted(k)
          BY <3>4, Parts DEF Enqueued, Accepted
        <4> QED BY <1>1, <1>2, <3>1, <3>2, <4>1, ChannelFrame
      <3>5. CASE channel' = Append(channel, j)
        BY <1>2, <3>5, Parts, Send
      <3> QED BY <2>2, <3>3, <3>4, <3>5 DEF RequestStep, Enqueue
    <2>3. ASSUME NEW w \in Workers, HandleStep(w) PROVE ChannelInv'
      <3>1. UNCHANGED <<api, restarts>>
        BY <2>3 DEF HandleStep, Ack, Nack
      <3>2. CASE StoreStep(w)
        <4>0. (\E pc : GoTo(w, pc)) \/ Process(w)
          BY <3>2 DEF StoreStep, LoadFails, LoadSettled, LoadUnsettled, Mark, Complete
        <4>1. \A v \in Workers : worker'[v].job = worker[v].job
          BY <4>0, Parts DEF GoTo, Process
        <4> QED BY <1>1, <1>2, <3>1, <4>1, ChannelFrame DEF Held, Holds, Accepted
      <3>3. CASE Ack(w)
        <4>1. \A v \in Workers : worker'[v].job = IF v = w THEN NoJob ELSE worker[v].job
          BY <3>3, Parts DEF Ack, Released, Idle
        <4>2. ASSUME NEW j \in Jobs, Holds(w, j) PROVE Settled(j)
          BY <3>3, <4>2, Parts DEF Ack, SystemInv, JobInv, Knows
        <4>3. \A j \in Jobs : /\ Held(j)' => Held(j)
                              /\ Held(j) /\ ~Settled(j) => Held(j)'
          BY <4>1, <4>2, NoJobAssumption DEF Held, Holds
        <4> QED BY <1>1, <1>2, <3>1, <4>3, ChannelFrame DEF Accepted
      <3>4. CASE channel' = Append(channel, worker[w].job) /\ Nack(w)
        BY <1>2, <3>4, Parts, Send, Busy DEF Nack
      <3> QED BY <2>3, <3>2, <3>3, <3>4 DEF HandleStep, Nack
    <2>4. ASSUME NEW w \in Workers, Receive(w) PROVE ChannelInv'
      BY <1>1, <2>4, ReceiveChannel
    <2>5. ASSUME UNCHANGED <<api, worker, restarts>> PROVE ChannelInv'
      BY <1>1, <1>2, <2>5, ChannelFrame DEF Held, Holds, Accepted
    <2>6. ASSUME Restart PROVE ChannelInv'
      <3>1. channel' = <<>> /\ restarts' # 0
        BY <2>6, Parts, MemoryAssumption DEF Restart
      <3>2. DOMAIN channel' = {}
        BY <3>1, EmptySeq
      <3> QED BY <3>1, <3>2 DEF ChannelInv, Waits
    <2> QED BY <2>1, <2>2, <2>3, <2>4, <2>5, <2>6 DEF Next, vars
  <1>3. ASSUME NEW k \in Jobs, HasRoom, channel' = Append(channel, k)
        PROVE  channel' \in Seq(Jobs) /\ Len(channel') <= Capacity
    BY <1>3, Parts, Send, MemoryAssumption DEF HasRoom
  <1>4. ASSUME NEW j \in Jobs, RequestStep(j), ~UNCHANGED channel
        PROVE  ChannelInv' /\ channel' \in Seq(Jobs) /\ Len(channel') <= Capacity
    <2>1. /\ HasRoom /\ channel' = Append(channel, j) /\ Enqueued(j, "ok")
          /\ UNCHANGED <<worker, restarts>>
      BY <1>4 DEF RequestStep, Enqueue
    <2>2. /\ api[j] = "stored" /\ api'[j] = "accepted"
          /\ \A k \in Jobs \ {j} : api'[k] = api[k]
      BY <2>1, Parts DEF Enqueued
    <2>3. ~Waits(j)
      BY <2>2, Parts DEF ChannelInv
    <2>4. ~Held(j)
      BY <2>2, Parts DEF SystemInv, JobInv, Held
    <2>5. \A k \in Jobs : Held(k)' <=> Held(k)
      BY <2>1 DEF Held, Holds
    <2> QED BY <1>1, <1>3, <2>1, <2>2, <2>3, <2>4, <2>5, SendChannel
  <1>5. ASSUME NEW w \in Workers, HandleStep(w), ~UNCHANGED channel
        PROVE  ChannelInv' /\ channel' \in Seq(Jobs) /\ Len(channel') <= Capacity
    <2>0. PICK k : k = worker[w].job
      OBVIOUS
    <2>1. /\ HasRoom /\ channel' = Append(channel, k) /\ Released(w)
          /\ worker[w].pc = "nack" /\ UNCHANGED <<api, restarts>>
      BY <1>5, <2>0 DEF HandleStep, Ack, Nack
    <2>2. /\ k \in Jobs /\ api[k] \notin {"new", "stored"}
          /\ \A v \in Workers \ {w} : worker[v].job # k
      BY <2>0, <2>1, Parts, Busy
    <2>3. Held(k)
      BY <2>0 DEF Held, Holds
    <2>4. \A v \in Workers : worker'[v].job = IF v = w THEN NoJob ELSE worker[v].job
      BY <2>1, Parts DEF Released, Idle
    <2>5. ~Held(k)' /\ \A j \in Jobs \ {k} : Held(j)' <=> Held(j)
      BY <2>0, <2>2, <2>4, NoJobAssumption DEF Held, Holds
    <2>6. ~Waits(k)
      BY <2>2, <2>3, Parts DEF ChannelInv
    <2> QED BY <1>1, <1>3, <2>1, <2>2, <2>5, <2>6, SendChannel
  <1>6. ASSUME NEW w \in Workers, Receive(w)
        PROVE  ChannelInv' /\ channel' \in Seq(Jobs) /\ Len(channel') <= Capacity
    <2>1. channel' \in Seq(Jobs) /\ Len(channel') <= Capacity
      BY <1>6, Parts, HeadLeaves, MemoryAssumption DEF Receive
    <2> QED BY <1>1, <1>6, <2>1, ReceiveChannel
  <1>7. CASE Restart
    <2>1. channel' = <<>> /\ restarts' # 0
      BY <1>7, Parts, MemoryAssumption DEF Restart
    <2>2. DOMAIN channel' = {} /\ channel' \in Seq(Jobs) /\ Len(channel') <= Capacity
      BY <2>1, EmptySeq, MemoryAssumption
    <2> QED BY <2>1, <2>2 DEF ChannelInv, Waits
  <1> QED BY <1>2, <1>4, <1>5, <1>6, <1>7 DEF Next, vars

-----------------------------------------------------------------------------
LEMMA InitIInv == Init => IInv
  <1> SUFFICES ASSUME Init PROVE IInv
    OBVIOUS
  <1>1. SystemInv /\ SystemTypeOK
    BY SystemInit DEF Init, SystemInv
  <1>2. DOMAIN channel = {} /\ Len(channel) = 0 /\ channel \in Seq(Jobs)
    BY EmptySeq DEF Init
  <1>3. TypeOK
    BY <1>1, <1>2, MemoryAssumption DEF Init, TypeOK, SystemTypeOK
  <1>4. \A j \in Jobs : ~Accepted(j)
    BY DEF Init, IntakeInit, Accepted
  <1> QED BY <1>1, <1>2, <1>3, <1>4 DEF IInv, ChannelInv, Waits

LEMMA NextIInv == IInv /\ [Next]_vars => IInv'
  <1> SUFFICES ASSUME IInv, [Next]_vars PROVE IInv'
    OBVIOUS
  <1>1. SystemInv' /\ SystemTypeOK'
    BY NextSystem, SystemStepInv, Parts DEF SystemInv
  <1>2. durable' \in BOOLEAN /\ restarts' \in 0..MaxRestarts
    <2>1. CASE Restart
      BY <2>1, Parts, MemoryAssumption DEF Restart
    <2>2. CASE UNCHANGED <<durable, restarts>>
      BY <2>2, Parts
    <2> QED BY <2>1, <2>2 DEF Next, RequestStep, Enqueue, HandleStep, Ack, Nack, Receive, vars
  <1> QED BY <1>1, <1>2, NextChannel DEF IInv, TypeOK, SystemTypeOK

\* The inductive invariant holds in every behaviour.
THEOREM Invariant == Spec => []IInv
  BY InitIInv, NextIInv, PTL DEF Spec

\* The types hold, the capacity of the channel among them.
THEOREM TypeCorrect == Spec => []TypeOK
  <1>1. IInv => TypeOK
    BY DEF IInv
  <1> QED BY <1>1, Invariant, PTL

\* A job is in the channel once or with one worker, whatever was sent again.
THEOREM Once == Spec => []QueuedOnce
  <1>1. IInv => QueuedOnce
    <2> SUFFICES ASSUME IInv PROVE QueuedOnce
      OBVIOUS
    <2>1. IsInjective(channel)
      BY Parts DEF ChannelInv, IsInjective
    <2>2. ASSUME NEW w \in Workers, worker[w].pc # "receive"
          PROVE  /\ worker[w].job \notin ToSet(channel)
                 /\ \A v \in Workers \ {w} : ~Holds(v, worker[w].job)
      <3>1. PICK k : k = worker[w].job
        OBVIOUS
      <3>2. k \in Jobs /\ Held(k) /\ \A v \in Workers \ {w} : worker[v].job # k
        BY <2>2, <3>1, Parts, Busy DEF Held, Holds
      <3>3. ~Waits(k)
        BY <3>2, Parts DEF ChannelInv
      <3> QED BY <3>1, <3>2, <3>3 DEF Waits, ToSet, Holds
    <2> QED BY <2>1, <2>2 DEF QueuedOnce
  <1> QED BY <1>1, Invariant, PTL

\* Until the first restart no accepted job is lost (create, handle and Nack).
THEOREM NeverStranded == Spec => []AcceptedNeverStranded
  <1>1. IInv => AcceptedNeverStranded
    BY Parts DEF ChannelInv, Waits, AcceptedNeverStranded, ToSet
  <1> QED BY <1>1, Invariant, PTL

\* With either store, restarts included, the system is one of requests, workers
\* and a store as JobSystemProofs describes them ...
THEOREM RefinesSystem == Spec => SystemSpec
  <1>1. Init => StoreInit /\ IntakeInit /\ SchedulerInit
    BY DEF Init
  <1>2. IInv /\ [Next]_vars => [SystemStep]_<<store, faults, api, worker>>
    BY NextSystem
  <1> QED BY <1>1, <1>2, Invariant, PTL DEF Spec, SystemSpec

\* ... and so implements the life cycle of a job.
THEOREM Refinement == Spec => ImplementsLifecycle
  BY RefinesSystem, SystemLifecycle DEF ImplementsLifecycle
=============================================================================
