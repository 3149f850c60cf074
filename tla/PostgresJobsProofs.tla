------------------------- MODULE PostgresJobsProofs -------------------------
(***************************************************************************)
(* Theorems about PostgresJobs for every set of jobs and workers and every *)
(* bound on faults.  While leases outlast the work, requests, workers and  *)
(* records are those of JobSystemProofs, and what is proved here is how    *)
(* the rows of the queue follow them.  With leases that run out under a    *)
(* worker, what remains is proved for a system without failed calls.       *)
(***************************************************************************)
EXTENDS PostgresJobs, JobSystemProofs

-----------------------------------------------------------------------------
\* A call that ends leaves the count of faults within its bound.
LEMMA CallEndsType ==
    ASSUME faults \in 0..MaxFaults, NEW outcome, CallEnds(outcome)
    PROVE  faults' \in 0..MaxFaults
  BY FaultsAssumption DEF CallEnds

\* An Update by anyone keeps the store's type.
LEMMA UpdateType ==
    ASSUME StoreTypeOK, NEW j, NEW update, NEW outcome,
           \A job \in JobRecord : Apply(job, update) \in JobRecord,
           Update(j, update, outcome)
    PROVE  StoreTypeOK'
  <1>1. faults' \in 0..MaxFaults
    BY CallEndsType DEF StoreTypeOK, Update
  <1>2. store' \in [Jobs -> JobRecord \cup {ErrNotFound}]
    <2>1. CASE j \in Jobs /\ Exists(j)
      <3>1. Apply(store[j], update) \in JobRecord
        BY <2>1 DEF StoreTypeOK, Exists
      <3> QED BY <3>1 DEF StoreTypeOK, Update
    <2>2. CASE ~(j \in Jobs /\ Exists(j))
      BY <2>2 DEF StoreTypeOK, Update, Exists
    <2> QED BY <2>1, <2>2
  <1> QED BY <1>1, <1>2 DEF StoreTypeOK

-----------------------------------------------------------------------------
\* The initial state has its type ...
LEMMA InitType == Init => TypeOK
  BY FaultsAssumption
  DEF Init, TypeOK, StoreInit, StoreTypeOK, IntakeInit, IntakeTypeOK, Requests,
      SchedulerInit, SchedulerTypeOK, Idle, Steps, Rows

\* ... and every step keeps it.
LEMMA NextType == TypeOK /\ [Next]_vars => TypeOK'
  <1> SUFFICES ASSUME TypeOK, [Next]_vars PROVE TypeOK'
    OBVIOUS
  <1> USE DEF TypeOK
  <1>1. ASSUME NEW j \in Jobs, Submit(j), UNCHANGED <<worker, queue>> PROVE TypeOK'
    <2>1. PICK outcome \in Outcomes :
             /\ Create(j, outcome)
             /\ api' = [api EXCEPT ![j] = IF outcome = "ok" THEN "stored" ELSE "unstored"]
      BY <1>1 DEF Submit
    <2>2. NewJob \in JobRecord
      BY DEF NewJob, JobRecord, Statuses
    <2>3. StoreTypeOK'
      BY <2>1, <2>2, CallEndsType DEF Create, StoreTypeOK
    <2> QED BY <1>1, <2>1, <2>3 DEF IntakeTypeOK, Requests, SchedulerTypeOK
  <1>2. ASSUME NEW j \in Jobs, Refuse(j), UNCHANGED <<worker, queue>> PROVE TypeOK'
    <2>1. StoreTypeOK'
      BY <1>2, ApplyType, UpdateType DEF Refuse
    <2> QED BY <1>2, <2>1 DEF Refuse, IntakeTypeOK, Requests, SchedulerTypeOK
  <1>3. ASSUME NEW j \in Jobs, RequestDies(j), UNCHANGED <<worker, queue>> PROVE TypeOK'
    BY <1>3, FaultsAssumption
    DEF RequestDies, StoreTypeOK, IntakeTypeOK, Requests, SchedulerTypeOK
  <1>4. ASSUME NEW j \in Jobs, Enqueue(j) PROVE TypeOK'
    <2>1. PICK outcome \in Outcomes :
             /\ Enqueued(j, outcome)
             /\ CallEnds(outcome)
             /\ queue' = IF outcome = "lost" THEN queue ELSE [queue EXCEPT ![j] = "ready"]
      BY <1>4 DEF Enqueue
    <2>2. faults' \in 0..MaxFaults
      BY <2>1, CallEndsType DEF StoreTypeOK
    <2> QED
      BY <1>4, <2>1, <2>2
      DEF Enqueue, Enqueued, StoreTypeOK, IntakeTypeOK, Requests, SchedulerTypeOK, Rows
  <1>5. ASSUME NEW w \in Workers, StoreStep(w), UNCHANGED <<api, queue>> PROVE TypeOK'
    <2>1. StoreTypeOK'
      <3>1. CASE LoadFails(w)
        BY <3>1, CallEndsType DEF LoadFails, StoreTypeOK
      <3>2. CASE LoadSettled(w) \/ LoadUnsettled(w) \/ Process(w)
        BY <3>2 DEF LoadSettled, LoadUnsettled, Process, StoreTypeOK
      <3>3. CASE Mark(w)
        BY <3>3, ApplyType, UpdateType DEF Mark
      <3>4. CASE Complete(w)
        <4>1. worker[w].ok \in BOOLEAN
          BY DEF SchedulerTypeOK
        <4> QED BY <3>4, <4>1, ApplyType, UpdateType DEF Complete
      <3> QED BY <1>5, <3>1, <3>2, <3>3, <3>4 DEF StoreStep
    <2>2. SchedulerTypeOK'
      BY <1>5
      DEF StoreStep, LoadFails, LoadSettled, LoadUnsettled, Mark, Process, Complete,
          GoTo, SchedulerTypeOK, Steps
    <2> QED BY <1>5, <2>1, <2>2 DEF IntakeTypeOK
  <1>6. ASSUME NEW w \in Workers, Ack(w) \/ Nack(w) PROVE TypeOK'
    <2>1. faults' \in 0..MaxFaults
      BY <1>6, CallEndsType DEF Ack, Nack, StoreTypeOK
    <2>2. SchedulerTypeOK'
      <3>1. worker' = [worker EXCEPT ![w] = Idle]
        BY <1>6 DEF Ack, Nack, Released
      <3> QED BY <3>1 DEF Idle, SchedulerTypeOK, Steps
    <2>3. queue' \in [Jobs -> Rows]
      BY <1>6 DEF Ack, Nack, Rows
    <2> QED BY <1>6, <2>1, <2>2, <2>3 DEF Ack, Nack, StoreTypeOK, IntakeTypeOK
  <1>7. ASSUME NEW w \in Workers, WorkerDies(w), UNCHANGED <<api, queue>> PROVE TypeOK'
    BY <1>7, FaultsAssumption
    DEF WorkerDies, Released, Idle, StoreTypeOK, IntakeTypeOK, SchedulerTypeOK, Steps
  <1>8. ASSUME NEW w \in Workers, NEW j \in Jobs, Receive(w, j) \/ ReceiveLost(w, j)
        PROVE TypeOK'
    <2>1. faults' \in 0..MaxFaults
      BY <1>8, CallEndsType DEF Receive, ReceiveLost, StoreTypeOK
    <2>2. SchedulerTypeOK'
      <3>1. worker' \in {worker,
                [worker EXCEPT ![w] = [pc |-> "load", job |-> j, ok |-> FALSE]]}
        BY <1>8 DEF Receive, ReceiveLost, Received
      <3>2. CASE worker' = worker
        BY <3>2 DEF SchedulerTypeOK
      <3>3. CASE worker' = [worker EXCEPT ![w] = [pc |-> "load", job |-> j, ok |-> FALSE]]
        BY <3>3 DEF SchedulerTypeOK, Steps
      <3> QED BY <3>1, <3>2, <3>3
    <2>3. queue' \in [Jobs -> Rows]
      BY <1>8 DEF Receive, ReceiveLost, Rows
    <2> QED BY <1>8, <2>1, <2>2, <2>3 DEF Receive, ReceiveLost, StoreTypeOK, IntakeTypeOK
  <1>9. ASSUME NEW j \in Jobs, LeaseExpires(j) \/ LeaseOverrun(j) PROVE TypeOK'
    BY <1>9
    DEF LeaseExpires, LeaseOverrun, LeaseEnds, StoreTypeOK, IntakeTypeOK,
        SchedulerTypeOK, Rows
  <1>10. ASSUME NEW S \in SUBSET Jobs, DeleteExpired(S), UNCHANGED <<api, worker, queue>>
         PROVE TypeOK'
    BY <1>10 DEF DeleteExpired, StoreTypeOK, IntakeTypeOK, SchedulerTypeOK
  <1>11. CASE UNCHANGED vars
    BY <1>11 DEF vars, StoreTypeOK, IntakeTypeOK, SchedulerTypeOK
  <1> QED
    BY <1>1, <1>2, <1>3, <1>4, <1>5, <1>6, <1>7, <1>8, <1>9, <1>10, <1>11
    DEF Next, RequestStep, HandleStep

\* Type correctness of the whole system, overrun leases included.
THEOREM TypeCorrect == Spec => []TypeOK
  BY InitType, NextType, PTL DEF Spec

-----------------------------------------------------------------------------
\* What holds of the row of one job while leases outlast the work.
RowInv(j) ==
    /\ api[j] \in {"new", "stored", "unstored"} => queue[j] = "none"
    /\ Held(j) => queue[j] = "leased"
    /\ Accepted(j) /\ ~Settled(j) => queue[j] # "none"

\* The inductive invariant, as that of the system and of each row.
LEMMA IInvByRow ==
    /\ IInv <=> TypeOK /\ SystemInv /\ \A j \in Jobs : RowInv(j)
    /\ IInv' <=> TypeOK' /\ SystemInv' /\ \A j \in Jobs : RowInv(j)'
  <1>1. IInv => TypeOK /\ SystemInv /\ \A j \in Jobs : RowInv(j)
    BY DEF IInv, BeforeEnqueue, ExclusiveDelivery, WorkersKnow, AcceptedNeverStranded,
           AcceptedRecordConsistent, TypeOK, SystemInv, SystemTypeOK, JobInv, RowInv, Held
  <1>2. TypeOK /\ SystemInv /\ (\A j \in Jobs : RowInv(j)) => IInv
    BY DEF IInv, BeforeEnqueue, ExclusiveDelivery, WorkersKnow, AcceptedNeverStranded,
           AcceptedRecordConsistent, TypeOK, SystemInv, SystemTypeOK, JobInv, RowInv, Held
  <1>3. IInv' => TypeOK' /\ SystemInv' /\ \A j \in Jobs : RowInv(j)'
    BY DEF IInv, BeforeEnqueue, ExclusiveDelivery, WorkersKnow, AcceptedNeverStranded,
           AcceptedRecordConsistent, TypeOK, SystemInv, SystemTypeOK, JobInv, RowInv, Held
  <1>4. TypeOK' /\ SystemInv' /\ (\A j \in Jobs : RowInv(j)') => IInv'
    BY DEF IInv, BeforeEnqueue, ExclusiveDelivery, WorkersKnow, AcceptedNeverStranded,
           AcceptedRecordConsistent, TypeOK, SystemInv, SystemTypeOK, JobInv, RowInv, Held
  <1> QED BY <1>1, <1>2, <1>3, <1>4

\* Initially there are no rows.
LEMMA InitIInv == Init => IInv
  <1> SUFFICES ASSUME Init PROVE IInv
    OBVIOUS
  <1>1. SystemInv
    BY SystemInit DEF Init
  <1>2. ASSUME NEW j \in Jobs PROVE RowInv(j)
    <2>1. api[j] = "new" /\ queue[j] = "none" /\ ~Held(j)
      BY NoJobAssumption DEF Init, IntakeInit, SchedulerInit, Idle, Held, Holds
    <2> QED BY <2>1 DEF RowInv, Accepted
  <1> QED BY <1>1, <1>2, InitType, IInvByRow

\* Under the invariant every step is a SystemStep: a row is ready only when its
\* job was enqueued and nobody holds it.
LEMMA NextSystem ==
    ASSUME ~Overruns, IInv, [Next]_vars
    PROVE  SystemStep
  <1>1. SystemInv
    BY IInvByRow
  <1>2. ASSUME NEW j \in Jobs, RequestStep(j) PROVE SystemStep
    <2>1. CASE (Submit(j) \/ RequestDies(j)) /\ UNCHANGED worker
      BY <2>1 DEF SystemStep, RequestActs
    <2>2. CASE Refuse(j) /\ UNCHANGED worker
      BY <1>1, <2>2, AtomicRefuse DEF SystemStep, RequestActs
    <2>3. CASE Enqueue(j)
      BY <2>3 DEF Enqueue, SystemStep, RequestActs
    <2> QED BY <1>2, <2>1, <2>2, <2>3 DEF RequestStep
  <1>3. ASSUME NEW w \in Workers, HandleStep(w) PROVE SystemStep
    <2>1. CASE StoreStep(w) /\ UNCHANGED api
      BY <1>1, <2>1, AtomicStoreStep DEF SystemStep
    <2>2. CASE Ack(w) \/ Nack(w)
      <3>1. Ends(w) /\ UNCHANGED api
        BY <2>2 DEF Ack, Nack, Ends, Counted, Outcomes
      <3> QED BY <3>1 DEF SystemStep
    <2> QED BY <1>3, <2>1, <2>2 DEF HandleStep
  <1>4. ASSUME NEW w \in Workers, NEW j \in Jobs, Receive(w, j) PROVE SystemStep
    <2>1. queue[j] = "ready" /\ RowInv(j)
      BY <1>4, IInvByRow DEF Receive
    <2>2. Begins(w, j) /\ UNCHANGED api
      BY <1>4, <2>1, UncountedCall DEF Receive, RowInv, Begins
    <2> QED BY <2>2 DEF SystemStep
  <1>5. ASSUME NEW w \in Workers, NEW j \in Jobs, ReceiveLost(w, j) PROVE SystemStep
    BY <1>5 DEF ReceiveLost, SystemStep, Counted, Outcomes
  <1>6. ASSUME NEW j \in Jobs, LeaseExpires(j) PROVE SystemStep
    BY <1>6, UncountedCall DEF LeaseExpires, SystemStep
  <1>7. ASSUME NEW w \in Workers, WorkerDies(w), UNCHANGED api PROVE SystemStep
    BY <1>7, WorkerDeath DEF SystemStep
  <1>8. CASE \E S \in SUBSET Jobs : DeleteExpired(S) /\ UNCHANGED <<api, worker, queue>>
    BY <1>8 DEF SystemStep
  <1>9. CASE UNCHANGED vars
    BY <1>9, SystemStutters DEF vars
  <1> QED
    BY <1>2, <1>3, <1>4, <1>5, <1>6, <1>7, <1>8, <1>9 DEF Next, LeaseOverrun

\* What a step must leave alone to keep the row of a job in order.
LEMMA RowFrame ==
    ASSUME ~Overruns, IInv, [Next]_vars, NEW j \in Jobs,
           queue'[j] = queue[j],
           api'[j] \in {"new", "stored", "unstored"} => api[j] \in {"new", "stored", "unstored"},
           Accepted(j)' => Accepted(j),
           Held(j)' => Held(j)
    PROVE  RowInv(j)'
  <1>1. RowInv(j) /\ SystemInv /\ SystemStep
    BY IInvByRow, NextSystem
  <1>2. Accepted(j)' /\ ~Settled(j)' => Accepted(j) /\ ~Settled(j)
    BY <1>1, StaysSettled DEF Accepted
  <1> QED BY <1>1, <1>2 DEF RowInv

\* A request writes the row of its job before it answers 202.
LEMMA RequestRow ==
    ASSUME ~Overruns, IInv, [Next]_vars, NEW k \in Jobs, RequestStep(k), NEW j \in Jobs
    PROVE  RowInv(j)'
  <1>1. /\ api \in [Jobs -> Requests] /\ queue \in [Jobs -> Rows]
        /\ RowInv(j)
    BY IInvByRow DEF TypeOK, IntakeTypeOK
  <1>2. Held(j)' <=> Held(j)
    BY DEF RequestStep, Enqueue, Held, Holds
  <1>3. CASE (Submit(k) \/ Refuse(k) \/ RequestDies(k)) /\ UNCHANGED queue
    <2>1. /\ api'[j] \in {"new", "stored", "unstored"} => api[j] \in {"new", "stored", "unstored"}
          /\ Accepted(j)' => Accepted(j)
      BY <1>1, <1>3 DEF Submit, Refuse, RequestDies, Accepted
    <2> QED BY <1>2, <1>3, <2>1, RowFrame
  <1>4. CASE Enqueue(k) /\ j # k
    <2>1. api'[j] = api[j] /\ queue'[j] = queue[j]
      BY <1>1, <1>4 DEF Enqueue, Enqueued
    <2> QED BY <1>2, <2>1, RowFrame DEF Accepted
  <1>5. CASE Enqueue(k) /\ j = k
    <2>1. /\ api[j] = "stored"
          /\ api'[j] \in {"accepted", "unqueued"}
          /\ api'[j] = "accepted" => queue'[j] = "ready"
      BY <1>1, <1>5 DEF Enqueue, Enqueued, Outcomes
    <2>2. ~Held(j)'
      BY <1>1, <1>2, <2>1 DEF RowInv
    <2> QED BY <2>1, <2>2 DEF RowInv, Accepted
  <1> QED BY <1>3, <1>4, <1>5 DEF RequestStep

\* A worker that ends its delivery deletes the row only of a settled job, and
\* ends the lease of no other worker.
LEMMA ReleaseRow ==
    ASSUME ~Overruns, IInv, [Next]_vars, NEW w \in Workers,
           Ack(w) \/ Nack(w) \/ (WorkerDies(w) /\ UNCHANGED <<api, queue>>), NEW j \in Jobs
    PROVE  RowInv(j)'
  <1>1. /\ queue \in [Jobs -> Rows]
        /\ worker \in [Workers -> [pc : Steps, job : Jobs \cup {NoJob}, ok : BOOLEAN]]
        /\ RowInv(j) /\ SystemInv
    BY IInvByRow DEF TypeOK, SchedulerTypeOK
  <1>2. /\ worker[w].pc # "receive" /\ UNCHANGED <<store, api>>
        /\ worker' = [worker EXCEPT ![w] = Idle]
    BY DEF Ack, Nack, WorkerDies, Released
  <1>3. \A v \in Workers : Holds(v, j)' => v # w /\ Holds(v, j)
    BY <1>1, <1>2, NoJobAssumption DEF Holds, Idle
  <1>4. CASE UNCHANGED queue \/ worker[w].job # j
    <2>1. queue'[j] = queue[j]
      BY <1>1, <1>4 DEF Ack, Nack
    <2>2. Held(j)' => Held(j)
      BY <1>3 DEF Held
    <2> QED BY <1>2, <2>1, <2>2, RowFrame DEF Accepted
  <1>5. CASE ~UNCHANGED queue /\ worker[w].job = j
    <2>1. /\ api[j] \notin {"new", "stored"} /\ Knows(w, j)
          /\ \A v \in Workers \ {w} : worker[v].job # j
      BY <1>1, <1>2, <1>5, Busy
    <2>2. queue[j] = "leased"
      BY <1>1, <1>5 DEF RowInv, Held, Holds
    <2>3. ~Held(j)'
      BY <1>3, <2>1 DEF Held, Holds
    <2>4. queue'[j] = "ready" \/ Settled(j)
      BY <1>1, <1>5, <2>1 DEF Ack, Nack, WorkerDies, Knows
    <2>5. api[j] # "unstored"
      BY <1>1, <2>2 DEF RowInv
    <2> QED BY <1>2, <2>1, <2>3, <2>4, <2>5 DEF RowInv, Accepted, Settled, Exists
  <1> QED BY <1>4, <1>5

\* Receive, answered or not, leases a row that was there.
LEMMA ReceiveRow ==
    ASSUME ~Overruns, IInv, [Next]_vars, NEW w \in Workers, NEW k \in Jobs,
           Receive(w, k) \/ ReceiveLost(w, k), NEW j \in Jobs
    PROVE  RowInv(j)'
  <1>1. /\ queue \in [Jobs -> Rows]
        /\ worker \in [Workers -> [pc : Steps, job : Jobs \cup {NoJob}, ok : BOOLEAN]]
        /\ RowInv(j)
    BY IInvByRow DEF TypeOK, SchedulerTypeOK
  <1>2. /\ UNCHANGED <<store, api>> /\ queue[k] = "ready"
        /\ queue' = [queue EXCEPT ![k] = "leased"]
    BY DEF Receive, ReceiveLost
  <1>3. CASE j = k
    BY <1>1, <1>2, <1>3 DEF RowInv
  <1>4. CASE j # k
    <2>1. queue'[j] = queue[j]
      BY <1>1, <1>2, <1>4
    <2>2. Held(j)' => Held(j)
      BY <1>1, <1>4 DEF Receive, ReceiveLost, Received, Held, Holds
    <2> QED BY <1>2, <2>1, <2>2, RowFrame DEF Accepted
  <1> QED BY <1>3, <1>4

\* Every step keeps the invariant.
LEMMA NextIInv == ~Overruns /\ IInv /\ [Next]_vars => IInv'
  <1> SUFFICES ASSUME ~Overruns, IInv, [Next]_vars PROVE IInv'
    OBVIOUS
  <1>1. TypeOK' /\ SystemInv'
    BY NextType, NextSystem, SystemStepInv, IInvByRow
  <1>2. ASSUME NEW j \in Jobs PROVE RowInv(j)'
    <2>1. ASSUME UNCHANGED <<api, queue>>, \A w \in Workers : Holds(w, j)' => Holds(w, j)
          PROVE  RowInv(j)'
      BY <2>1, RowFrame DEF Accepted, Held
    <2>2. CASE \E w \in Workers : StoreStep(w) /\ UNCHANGED <<api, queue>>
      <3>1. worker \in [Workers -> [pc : Steps, job : Jobs \cup {NoJob}, ok : BOOLEAN]]
        BY IInvByRow DEF TypeOK, SchedulerTypeOK
      <3>2. \A w \in Workers : Holds(w, j)' => Holds(w, j)
        BY <2>2, <3>1
        DEF StoreStep, LoadFails, LoadSettled, LoadUnsettled, Mark, Process, Complete,
            GoTo, Holds
      <3> QED BY <2>1, <2>2, <3>2
    <2>3. CASE \E k \in Jobs : LeaseExpires(k)
      <3>1. PICK k \in Jobs : LeaseExpires(k)
        BY <2>3
      <3>2. /\ ~Held(k) /\ UNCHANGED <<store, api, worker>>
            /\ queue' = [queue EXCEPT ![k] = "ready"] /\ queue[k] = "leased"
        BY <3>1 DEF LeaseExpires, LeaseEnds
      <3>3. queue \in [Jobs -> Rows] /\ RowInv(j)
        BY IInvByRow DEF TypeOK
      <3>4. Held(j)' <=> Held(j)
        BY <3>2 DEF Held, Holds
      <3> QED BY <3>2, <3>3, <3>4 DEF RowInv, Accepted, Settled, Exists
    <2>4. CASE UNCHANGED <<api, worker, queue>>
      BY <2>1, <2>4 DEF Holds
    <2> QED
      BY <2>2, <2>3, <2>4, RequestRow, ReleaseRow, ReceiveRow
      DEF Next, HandleStep, LeaseOverrun, vars
  <1> QED BY <1>1, <1>2, IInvByRow

\* The inductive invariant holds in every behaviour without overrun leases.
THEOREM Invariant == ASSUME ~Overruns PROVE Spec => []IInv
  BY InitIInv, NextIInv, PTL DEF Spec

\* No two workers hold a delivery of one job (Receive's lease).
THEOREM Exclusive == ASSUME ~Overruns PROVE Spec => []ExclusiveDelivery
  <1>1. IInv => ExclusiveDelivery
    BY DEF IInv
  <1> QED BY <1>1, Invariant, PTL

\* A job answered 202 keeps its row until it is settled (create and handle).
THEOREM NeverStranded == ASSUME ~Overruns PROVE Spec => []AcceptedNeverStranded
  <1>1. IInv => AcceptedNeverStranded
    BY DEF IInv
  <1> QED BY <1>1, Invariant, PTL

\* The fields of an accepted job's record agree with its status (handle).
THEOREM RecordConsistent == ASSUME ~Overruns PROVE Spec => []AcceptedRecordConsistent
  <1>1. IInv => AcceptedRecordConsistent
    BY DEF IInv
  <1> QED BY <1>1, Invariant, PTL

\* Ack deletes the row of settled jobs only, and nothing else deletes rows.
THEOREM AckSettled == ASSUME ~Overruns PROVE Spec => AckOnlyWhenSettled
  <1>1. ASSUME IInv, [Next]_vars, NEW j \in Jobs, queue[j] # "none", queue'[j] = "none"
        PROVE  Settled(j)
    <2>1. /\ queue \in [Jobs -> Rows] /\ SystemInv
      BY <1>1, IInvByRow DEF TypeOK
    <2>2. ASSUME NEW w \in Workers, Ack(w) PROVE Settled(j)
      <3>1. worker[w].pc = "ack" /\ worker[w].job = j
        BY <1>1, <2>1, <2>2 DEF Ack
      <3>2. Knows(w, j)
        BY <2>1, <3>1, Busy
      <3> QED BY <3>1, <3>2 DEF Knows
    <2>3. ASSUME NEW k \in Jobs, Enqueue(k) \/ LeaseEnds(k) PROVE FALSE
      BY <1>1, <2>1, <2>3 DEF Enqueue, LeaseEnds
    <2>4. ASSUME NEW w \in Workers, NEW k \in Jobs, Receive(w, k) \/ ReceiveLost(w, k)
          PROVE  FALSE
      BY <1>1, <2>1, <2>4 DEF Receive, ReceiveLost
    <2>5. ASSUME NEW w \in Workers, Nack(w) PROVE FALSE
      BY <1>1, <2>1, <2>5 DEF Nack
    <2> QED
      BY <1>1, <2>2, <2>3, <2>4, <2>5
      DEF Next, RequestStep, HandleStep, LeaseExpires, LeaseOverrun, vars
  <1>2. IInv /\ [Next]_vars =>
            \A j \in Jobs : queue[j] # "none" /\ queue'[j] = "none" => Settled(j)
    BY <1>1
  <1> QED BY <1>2, Invariant, PTL DEF Spec, AckOnlyWhenSettled

\* The outcome of an accepted job never changes until its record expires.
THEOREM OutcomeFinal == ASSUME ~Overruns PROVE Spec => AcceptedOutcomeFinal
  <1>1. ~Overruns /\ IInv /\ [Next]_vars => OutcomeKept
    BY NextSystem, SystemStepOutcome, IInvByRow
  <1> QED BY <1>1, Invariant, PTL DEF Spec, AcceptedOutcomeFinal

\* An accepted job is handed to the model only while it is running.
THEOREM NoCallAfter == ASSUME ~Overruns PROVE Spec => NoCallAfterOutcome
  <1>1. ~Overruns /\ IInv /\ [Next]_vars => CallsRunningJobs
    BY NextSystem, SystemStepOutcome, IInvByRow
  <1> QED BY <1>1, Invariant, PTL DEF Spec, NoCallAfterOutcome

\* Without overrun leases the system is one of requests, workers and a store as
\* JobSystemProofs describes them ...
THEOREM RefinesSystem == ASSUME ~Overruns PROVE Spec => SystemSpec
  <1>1. Init => StoreInit /\ IntakeInit /\ SchedulerInit
    BY DEF Init
  <1> QED BY <1>1, Invariant, NextSystem, PTL DEF Spec, SystemSpec

\* ... and so implements the life cycle of a job.
THEOREM Refinement == ASSUME ~Overruns PROVE Spec => ImplementsLifecycle
  BY RefinesSystem, SystemLifecycle DEF ImplementsLifecycle

-----------------------------------------------------------------------------
\* What holds of the row of one job when leases may run out under a worker but
\* no call fails: a job that waits has its row.
CalmRow(j) ==
    /\ ~Accepted(j) => queue[j] = "none"
    /\ Accepted(j) /\ Waiting(j) => queue[j] # "none"

CalmIInv == TypeOK /\ \A j \in Jobs : CalmInv(j) /\ CalmRow(j)

\* Without failed calls every step is a CalmStep.
LEMMA NextCalm ==
    ASSUME MaxFaults = 0, CalmIInv, [Next]_vars
    PROVE  CalmStep
  <1>1. SystemTypeOK /\ store \in [Jobs -> JobRecord \cup {ErrNotFound}]
    BY DEF CalmIInv, TypeOK, SystemTypeOK, StoreTypeOK
  <1>2. ~(faults < MaxFaults)
    BY <1>1 DEF SystemTypeOK, StoreTypeOK
  <1>3. ASSUME NEW j \in Jobs, RequestStep(j) PROVE CalmStep
    <2>1. CASE Submit(j) /\ UNCHANGED worker
      <3>1. PICK outcome \in Outcomes :
               /\ Create(j, outcome)
               /\ api' = [api EXCEPT ![j] = IF outcome = "ok" THEN "stored" ELSE "unstored"]
        BY <2>1 DEF Submit
      <3>2. outcome = "ok"
        BY <1>1, <3>1, NoFault DEF Create
      <3> QED BY <2>1, <3>1, <3>2 DEF CalmStep, Create, Submit
    <2>2. CASE Enqueue(j)
      <3>1. PICK outcome \in Outcomes : Enqueued(j, outcome) /\ CallEnds(outcome)
        BY <2>2 DEF Enqueue
      <3>2. outcome = "ok"
        BY <1>1, <3>1, NoFault
      <3> QED BY <2>2, <3>1, <3>2 DEF CalmStep, Enqueue
    <2>3. CASE Refuse(j) \/ RequestDies(j)
      BY <1>2, <2>3 DEF Refuse, RequestDies, CalmIInv, CalmInv
    <2> QED BY <1>3, <2>1, <2>2, <2>3 DEF RequestStep
  <1>4. ASSUME NEW w \in Workers, StoreStep(w) PROVE CalmWork(w)
    <2>1. CASE LoadFails(w)
      BY <1>2, <2>1 DEF LoadFails, CallEnds
    <2>2. CASE Mark(w)
      <3>1. PICK outcome \in Outcomes :
               /\ Update(worker[w].job, MarkRunning, outcome)
               /\ GoTo(w, IF UpdateSucceeds(worker[w].job, outcome) THEN "process" ELSE "nack")
        BY <2>2 DEF Mark
      <3>2. outcome = "ok"
        BY <1>1, <3>1, NoFault DEF Update
      <3>3. CASE Exists(worker[w].job)
        <4>1. \E job \in JobRecord :
                 store' = [store EXCEPT ![worker[w].job] = Apply(job, MarkRunning)]
          <5>1. store' = [store EXCEPT ![worker[w].job] = Apply(store[worker[w].job], MarkRunning)]
            BY <3>1, <3>2, <3>3 DEF Update
          <5>2. CASE worker[w].job \in Jobs
            BY <1>1, <3>3, <5>1, <5>2 DEF Exists
          <5>3. CASE worker[w].job \notin Jobs
            <6>1. NewJob \in JobRecord
              BY DEF NewJob, JobRecord, Statuses
            <6> QED BY <1>1, <5>1, <5>3, <6>1
          <5> QED BY <5>2, <5>3
        <4> QED BY <2>2, <3>1, <3>2, <3>3, <4>1 DEF CalmWork, Mark, UpdateSucceeds
      <3>4. CASE ~Exists(worker[w].job)
        BY <2>2, <3>1, <3>4 DEF CalmWork, Mark, Update, UpdateSucceeds
      <3> QED BY <3>3, <3>4
    <2>3. CASE Complete(w)
      <3>1. PICK outcome \in Outcomes :
               /\ Update(worker[w].job, Completion(worker[w].ok), outcome)
               /\ GoTo(w, IF UpdateSucceeds(worker[w].job, outcome) THEN "ack" ELSE "nack")
        BY <2>3 DEF Complete
      <3>2. outcome = "ok"
        BY <1>1, <3>1, NoFault DEF Update
      <3>3. CASE Exists(worker[w].job)
        <4>1. \E job \in JobRecord :
                 store' = [store EXCEPT ![worker[w].job] = Apply(job, Completion(worker[w].ok))]
          <5>1. store' = [store EXCEPT ![worker[w].job] =
                              Apply(store[worker[w].job], Completion(worker[w].ok))]
            BY <3>1, <3>2, <3>3 DEF Update
          <5>2. CASE worker[w].job \in Jobs
            BY <1>1, <3>3, <5>1, <5>2 DEF Exists
          <5>3. CASE worker[w].job \notin Jobs
            <6>1. NewJob \in JobRecord
              BY DEF NewJob, JobRecord, Statuses
            <6> QED BY <1>1, <5>1, <5>3, <6>1
          <5> QED BY <5>2, <5>3
        <4> QED BY <2>3, <3>1, <3>2, <3>3, <4>1 DEF CalmWork, Complete, UpdateSucceeds
      <3>4. CASE ~Exists(worker[w].job)
        BY <2>3, <3>1, <3>4 DEF CalmWork, Complete, Update, UpdateSucceeds
      <3> QED BY <3>3, <3>4
    <2> QED BY <1>4, <2>1, <2>2, <2>3 DEF StoreStep, CalmWork
  <1>5. ASSUME NEW w \in Workers, HandleStep(w) PROVE CalmStep
    BY <1>4, <1>5 DEF HandleStep, Ack, Nack, CalmWork, CalmStep
  <1>6. ASSUME NEW w \in Workers, NEW j \in Jobs, Receive(w, j) PROVE CalmStep
    BY <1>6 DEF Receive, CalmIInv, CalmRow, CalmStep
  <1>7. ASSUME NEW w \in Workers, NEW j \in Jobs, ReceiveLost(w, j) PROVE FALSE
    BY <1>2, <1>7 DEF ReceiveLost, CallEnds
  <1>8. ASSUME NEW w \in Workers, WorkerDies(w) PROVE FALSE
    BY <1>2, <1>8 DEF WorkerDies
  <1>9. CASE UNCHANGED <<store, api, worker>>
    BY <1>9 DEF CalmStep
  <1>10. CASE \E S \in SUBSET Jobs : DeleteExpired(S) /\ UNCHANGED <<api, worker, queue>>
    BY <1>10 DEF DeleteExpired, CalmStep
  <1> QED
    BY <1>3, <1>5, <1>6, <1>7, <1>8, <1>9, <1>10 DEF Next, LeaseExpires, LeaseOverrun, vars

\* A row leaves the queue only by the Ack of a worker that holds its job.
LEMMA CalmNext == MaxFaults = 0 /\ CalmIInv /\ [Next]_vars => CalmIInv'
  <1> SUFFICES ASSUME MaxFaults = 0, CalmIInv, [Next]_vars PROVE CalmIInv'
    OBVIOUS
  <1>1. /\ TypeOK /\ SystemTypeOK /\ queue \in [Jobs -> Rows]
        /\ api \in [Jobs -> Requests]
    BY DEF CalmIInv, TypeOK, SystemTypeOK, IntakeTypeOK
  <1>2. CalmStep
    BY NextCalm
  <1>3. ASSUME NEW j \in Jobs PROVE CalmInv(j)' /\ CalmRow(j)'
    <2>1. CalmInv(j) /\ CalmRow(j)
      BY DEF CalmIInv
    <2>2. /\ CalmInv(j)'
          /\ Accepted(j)' /\ Waiting(j)' => api[j] = "stored" \/ (Accepted(j) /\ Waiting(j))
      BY <1>1, <1>2, <2>1, CalmStepInv
    <2>3. ASSUME queue[j] # "none" => queue'[j] # "none" \/ ~Waiting(j),
                 queue'[j] # "none" => Accepted(j)',
                 api'[j] = "accepted" => api[j] = "accepted" \/ queue'[j] # "none"
          PROVE  CalmRow(j)'
      BY <2>1, <2>2, <2>3 DEF CalmRow, Accepted
    <2>4. ASSUME UNCHANGED queue, Accepted(j)' <=> Accepted(j) PROVE CalmRow(j)'
      BY <2>1, <2>3, <2>4 DEF CalmRow, Accepted
    <2>5. ASSUME NEW k \in Jobs, RequestStep(k) PROVE CalmRow(j)'
      <3>1. CASE Submit(k) /\ UNCHANGED queue
        BY <1>1, <2>4, <3>1 DEF Submit, Accepted
      <3>2. CASE Enqueue(k)
        <4>1. PICK outcome \in Outcomes :
                 /\ Enqueued(k, outcome) /\ CallEnds(outcome)
                 /\ queue' = IF outcome = "lost" THEN queue ELSE [queue EXCEPT ![k] = "ready"]
          BY <3>2 DEF Enqueue
        <4>2. outcome = "ok"
          BY <1>1, <4>1, NoFault
        <4>3. queue' = [queue EXCEPT ![k] = "ready"] /\ api' = [api EXCEPT ![k] = "accepted"]
          BY <4>1, <4>2 DEF Enqueued
        <4> QED BY <1>1, <2>1, <2>3, <4>3 DEF CalmRow, Accepted
      <3>3. CASE Refuse(k) \/ RequestDies(k)
        BY <1>1, <3>3 DEF Refuse, RequestDies, CalmIInv, CalmInv, SystemTypeOK, StoreTypeOK
      <3> QED BY <2>5, <3>1, <3>2, <3>3 DEF RequestStep
    <2>6. ASSUME NEW w \in Workers, Ack(w) PROVE CalmRow(j)'
      <3>1. /\ queue' \in {queue, [queue EXCEPT ![worker[w].job] = "none"]} /\ UNCHANGED api
            /\ worker[w].pc = "ack"
        BY <2>6 DEF Ack
      <3>2. queue'[j] # queue[j] => worker[w].job = j /\ queue'[j] = "none"
        BY <1>1, <3>1
      <3>3. worker[w].job = j => ~Waiting(j)
        BY <2>1, <3>1 DEF CalmInv, Holds
      <3> QED BY <2>1, <2>3, <3>1, <3>2, <3>3 DEF CalmRow, Accepted
    <2>7. ASSUME NEW w \in Workers, Nack(w) PROVE CalmRow(j)'
      <3>1. UNCHANGED api /\ (queue'[j] = "none" <=> queue[j] = "none")
        BY <1>1, <2>7 DEF Nack
      <3> QED BY <2>1, <2>3, <3>1 DEF CalmRow, Accepted
    <2>8. ASSUME NEW k \in Jobs, queue[k] # "none", UNCHANGED api,
                 queue' = [queue EXCEPT ![k] = "leased"] \/ queue' = [queue EXCEPT ![k] = "ready"]
          PROVE  CalmRow(j)'
      <3>1. queue'[j] = "none" <=> queue[j] = "none"
        BY <1>1, <2>8
      <3> QED BY <2>1, <2>3, <2>8, <3>1 DEF CalmRow, Accepted
    <2>9. ASSUME NEW w \in Workers, NEW k \in Jobs, Receive(w, k) \/ ReceiveLost(w, k)
          PROVE  CalmRow(j)'
      BY <2>8, <2>9 DEF Receive, ReceiveLost
    <2>10. ASSUME NEW k \in Jobs, LeaseExpires(k) \/ LeaseOverrun(k) PROVE CalmRow(j)'
      BY <2>8, <2>10 DEF LeaseExpires, LeaseOverrun, LeaseEnds
    <2>11. ASSUME UNCHANGED <<api, queue>> PROVE CalmRow(j)'
      BY <2>4, <2>11 DEF Accepted
    <2> QED
      BY <2>2, <2>5, <2>6, <2>7, <2>9, <2>10, <2>11 DEF Next, HandleStep, vars
  <1> QED BY <1>1, <1>3, NextType DEF CalmIInv

\* As long as no call fails, no accepted job is forgotten, whatever leases run
\* out under busy workers: Ack and Nack by job ID do no harm here.
THEOREM NeverForgotten == ASSUME MaxFaults = 0 PROVE Spec => []AcceptedNeverForgotten
  <1>1. Init => CalmIInv
    <2>1. ASSUME Init, NEW j \in Jobs PROVE CalmInv(j) /\ CalmRow(j)
      BY <2>1, CalmInit DEF Init, IntakeInit, CalmRow, Accepted
    <2> QED BY <2>1, InitType DEF CalmIInv
  <1>2. CalmIInv => AcceptedNeverForgotten
    <2> SUFFICES ASSUME CalmIInv, NEW j \in Jobs, Accepted(j), ~Settled(j)
                 PROVE  queue[j] # "none" \/ Held(j)
      BY DEF AcceptedNeverForgotten
    <2>1. SystemTypeOK /\ CalmInv(j) /\ CalmRow(j)
      BY DEF CalmIInv, TypeOK, SystemTypeOK
    <2> QED BY <2>1, CalmUnsettled DEF CalmRow
  <1> QED BY <1>1, <1>2, CalmNext, PTL DEF Spec
=============================================================================
