--------------------------- MODULE JobSystemProofs --------------------------
(***************************************************************************)
(* What requests, workers and the store do under every queue that gives a  *)
(* job to one worker at a time: SystemStep, an abstraction of the systems  *)
(* of this project, and what follows from it for each of them.  The proof  *)
(* module of a system shows that its steps are SystemSteps, which needs    *)
(* the invariant of its queue; records, outcomes and the life cycle of a   *)
(* job are then proved here, once.                                         *)
(***************************************************************************)
EXTENDS JobSystem, TLAPS

\* A call ended, with its fault counted if it failed.
Counted == \E outcome \in Outcomes : CallEnds(outcome)

\* An Update that ended: done if the caller was told so.  What it applies to is
\* the record in the store, except that under Redis the record of a job nobody
\* was promised may have changed since it was read.
Updates(j, update, done) ==
    \/ /\ Exists(j)
       /\ \E job \in JobRecord :
             /\ Accepted(j) => job = store[j]
             /\ store' = [store EXCEPT ![j] = Apply(job, update)]
    \/ ~done /\ UNCHANGED store

Refuses(j) ==
    /\ api[j] = "unqueued"
    /\ Updates(j, QueueUnavailable, FALSE) /\ Counted
    /\ api' = [api EXCEPT ![j] = "refused"]

RequestActs(j) ==
    \/ Submit(j)
    \/ \E outcome \in Outcomes : Enqueued(j, outcome) /\ CallEnds(outcome)
    \/ Refuses(j)
    \/ RequestDies(j)

Marks(w) ==
    /\ worker[w].pc = "mark" /\ Counted
    /\ \E done \in BOOLEAN :
          /\ Updates(worker[w].job, MarkRunning, done)
          /\ GoTo(w, IF done THEN "process" ELSE "nack")

Completes(w) ==
    /\ worker[w].pc = "complete" /\ Counted
    /\ \E done \in BOOLEAN :
          /\ Updates(worker[w].job, Completion(worker[w].ok), done)
          /\ GoTo(w, IF done THEN "ack" ELSE "nack")

WorkerActs(w) ==
    \/ LoadFails(w) \/ LoadSettled(w) \/ LoadUnsettled(w)
    \/ Process(w)
    \/ Marks(w)
    \/ Completes(w)

\* A delivery is over: by Ack, by Nack, or with its worker.
Ends(w) ==
    /\ worker[w].pc # "receive"
    /\ Released(w) /\ Counted
    /\ UNCHANGED store

\* A delivery begins: of a job that was enqueued and that no worker holds.
Begins(w, j) ==
    /\ api[j] \notin {"new", "stored"} /\ ~Held(j)
    /\ Received(w, j) /\ Counted
    /\ UNCHANGED store

\* The server starts again: requests and workers are gone, and perhaps records.
Reboots ==
    /\ worker' = [w \in Workers |-> Idle]
    /\ api' = [j \in Jobs |-> IF api[j] \in {"stored", "unqueued"} THEN "gone" ELSE api[j]]
    /\ UNCHANGED store \/ store' = [j \in Jobs |-> ErrNotFound]
    /\ Counted

SystemStep ==
    \/ \E j \in Jobs : RequestActs(j) /\ UNCHANGED worker
    \/ \E w \in Workers : (WorkerActs(w) \/ Ends(w)) /\ UNCHANGED api
    \/ \E w \in Workers, j \in Jobs : Begins(w, j) /\ UNCHANGED api
    \/ \E S \in SUBSET Jobs : DeleteExpired(S) /\ UNCHANGED <<api, worker>>
    \/ Reboots
    \/ Counted /\ UNCHANGED <<store, api, worker>>

-----------------------------------------------------------------------------
SystemTypeOK == StoreTypeOK /\ IntakeTypeOK /\ SchedulerTypeOK

\* What holds of one job: its record is new until it was enqueued, only then
\* and only one worker may hold it, that worker knows it, and the fields of an
\* accepted job's record agree.
JobInv(j) ==
    /\ api[j] = "new" => ~Exists(j)
    /\ api[j] = "stored" => store[j] \in {NewJob, ErrNotFound}
    /\ \A w \in Workers : Holds(w, j) =>
          /\ api[j] \notin {"new", "stored"}
          /\ \A v \in Workers \ {w} : ~Holds(v, j)
          /\ Knows(w, j)
    /\ Accepted(j) /\ Exists(j) => Consistent(store[j])

\* The inductive invariant of SystemStep.
SystemInv ==
    /\ SystemTypeOK
    /\ IdleHoldsNothing
    /\ \A j \in Jobs : JobInv(j)

-----------------------------------------------------------------------------
\* The updates that create and handle write leave a record a record.
LEMMA ApplyType ==
    ASSUME NEW job \in JobRecord, NEW ok \in BOOLEAN
    PROVE  /\ Apply(job, MarkRunning) \in JobRecord
           /\ Apply(job, Completion(ok)) \in JobRecord
           /\ Apply(job, QueueUnavailable) \in JobRecord
  BY DEF Apply, MarkRunning, Completion, QueueUnavailable, JobRecord, Statuses

\* A call that ends leaves the count of faults within its bound.
LEMMA CountedType ==
    ASSUME faults \in 0..MaxFaults, Counted
    PROVE  faults' \in 0..MaxFaults
  BY FaultsAssumption DEF Counted, CallEnds

\* An Update by anyone keeps the type of the store.
LEMMA UpdatesType ==
    ASSUME store \in [Jobs -> JobRecord \cup {ErrNotFound}], NEW j, NEW update,
           NEW done \in BOOLEAN,
           \A job \in JobRecord : Apply(job, update) \in JobRecord,
           Updates(j, update, done)
    PROVE  store' \in [Jobs -> JobRecord \cup {ErrNotFound}]
  <1>1. CASE UNCHANGED store
    BY <1>1
  <1>2. CASE \E job \in JobRecord : store' = [store EXCEPT ![j] = Apply(job, update)]
    <2>1. PICK job \in JobRecord : store' = [store EXCEPT ![j] = Apply(job, update)]
      BY <1>2
    <2>2. Apply(job, update) \in JobRecord
      OBVIOUS
    <2> QED BY <2>1, <2>2
  <1> QED BY <1>1, <1>2 DEF Updates

\* Initially every job is new and not stored, and all workers wait.
LEMMA SystemInit ==
    ASSUME StoreInit, IntakeInit, SchedulerInit
    PROVE  SystemInv
  <1>1. SystemTypeOK
    BY FaultsAssumption
    DEF StoreInit, IntakeInit, SchedulerInit, Idle, SystemTypeOK, StoreTypeOK,
        IntakeTypeOK, Requests, SchedulerTypeOK, Steps
  <1>2. \A w \in Workers : worker[w].pc = "receive" /\ worker[w].job = NoJob
    BY DEF SchedulerInit, Idle
  <1>3. \A j \in Jobs : api[j] = "new" /\ ~Exists(j)
    BY DEF StoreInit, IntakeInit, Exists
  <1>4. \A j \in Jobs : JobInv(j)
    BY <1>2, <1>3, NoJobAssumption DEF JobInv, Holds, Accepted
  <1> QED BY <1>1, <1>2, <1>4 DEF SystemInv, IdleHoldsNothing, Holds

\* Every step ends at most one call, and counts its fault.
LEMMA StepCounted ==
    ASSUME SystemStep
    PROVE  Counted /\ (faults \in Nat => faults' \in {faults, faults + 1})
  <1>1. ASSUME NEW j \in Jobs, RequestActs(j) PROVE Counted
    <2>1. CASE Submit(j)
      BY <2>1 DEF Submit, Create, Counted
    <2>2. CASE RequestDies(j)
      BY <2>2 DEF RequestDies, Counted, CallEnds, Outcomes
    <2> QED BY <1>1, <2>1, <2>2 DEF RequestActs, Refuses, Counted
  <1>2. ASSUME NEW w \in Workers, WorkerActs(w) PROVE Counted
    BY <1>2
    DEF WorkerActs, LoadFails, LoadSettled, LoadUnsettled, Process, Marks, Completes,
        Counted, CallEnds, Outcomes
  <1>3. ASSUME NEW S, DeleteExpired(S) PROVE Counted
    BY <1>3 DEF DeleteExpired, Counted, CallEnds, Outcomes
  <1>4. Counted
    BY <1>1, <1>2, <1>3 DEF SystemStep, Ends, Begins, Reboots
  <1> QED BY <1>4 DEF Counted, CallEnds

\* Every step keeps the types.
LEMMA SystemType == SystemTypeOK /\ SystemStep => SystemTypeOK'
  <1> SUFFICES ASSUME SystemTypeOK, SystemStep PROVE SystemTypeOK'
    OBVIOUS
  <1>1. /\ store \in [Jobs -> JobRecord \cup {ErrNotFound}]
        /\ faults \in 0..MaxFaults
        /\ api \in [Jobs -> Requests]
        /\ worker \in [Workers -> [pc : Steps, job : Jobs \cup {NoJob}, ok : BOOLEAN]]
    BY DEF SystemTypeOK, StoreTypeOK, IntakeTypeOK, SchedulerTypeOK
  <1>2. SUFFICES /\ store' \in [Jobs -> JobRecord \cup {ErrNotFound}]
                 /\ Counted
                 /\ api' \in [Jobs -> Requests]
                 /\ worker' \in [Workers -> [pc : Steps, job : Jobs \cup {NoJob}, ok : BOOLEAN]]
    BY <1>1, CountedType DEF SystemTypeOK, StoreTypeOK, IntakeTypeOK, SchedulerTypeOK
  <1>3. ASSUME NEW j \in Jobs, RequestActs(j), UNCHANGED worker
        PROVE  /\ store' \in [Jobs -> JobRecord \cup {ErrNotFound}]
               /\ Counted
               /\ api' \in [Jobs -> Requests]
    <2>1. CASE Submit(j)
      <3>1. NewJob \in JobRecord
        BY DEF NewJob, JobRecord, Statuses
      <3> QED BY <1>1, <2>1, <3>1 DEF Submit, Create, Counted, Requests
    <2>2. CASE \E outcome \in Outcomes : Enqueued(j, outcome) /\ CallEnds(outcome)
      BY <1>1, <2>2 DEF Enqueued, Counted, Requests
    <2>3. CASE Refuses(j)
      <3>1. store' \in [Jobs -> JobRecord \cup {ErrNotFound}]
        BY <1>1, <2>3, ApplyType, UpdatesType DEF Refuses
      <3> QED BY <1>1, <2>3, <3>1 DEF Refuses, Requests
    <2>4. CASE RequestDies(j)
      BY <1>1, <2>4 DEF RequestDies, Counted, CallEnds, Outcomes, Requests
    <2> QED BY <1>3, <2>1, <2>2, <2>3, <2>4 DEF RequestActs
  <1>4. ASSUME NEW w \in Workers, WorkerActs(w)
        PROVE  /\ store' \in [Jobs -> JobRecord \cup {ErrNotFound}]
               /\ Counted
               /\ worker' \in [Workers -> [pc : Steps, job : Jobs \cup {NoJob}, ok : BOOLEAN]]
    <2>1. CASE LoadFails(w) \/ LoadSettled(w) \/ LoadUnsettled(w) \/ Process(w)
      <3>1. UNCHANGED store /\ Counted
        BY <2>1
        DEF LoadFails, LoadSettled, LoadUnsettled, Process, Counted, CallEnds, Outcomes
      <3>2. worker' \in [Workers -> [pc : Steps, job : Jobs \cup {NoJob}, ok : BOOLEAN]]
        BY <1>1, <2>1 DEF LoadFails, LoadSettled, LoadUnsettled, Process, GoTo, Steps
      <3> QED BY <1>1, <3>1, <3>2
    <2>2. CASE Marks(w)
      <3>1. store' \in [Jobs -> JobRecord \cup {ErrNotFound}]
        BY <1>1, <2>2, ApplyType, UpdatesType DEF Marks
      <3> QED BY <1>1, <2>2, <3>1 DEF Marks, GoTo, Steps
    <2>3. CASE Completes(w)
      <3>1. worker[w].ok \in BOOLEAN
        BY <1>1
      <3>2. store' \in [Jobs -> JobRecord \cup {ErrNotFound}]
        BY <1>1, <2>3, <3>1, ApplyType, UpdatesType DEF Completes
      <3> QED BY <1>1, <2>3, <3>2 DEF Completes, GoTo, Steps
    <2> QED BY <1>4, <2>1, <2>2, <2>3 DEF WorkerActs
  <1>5. Idle \in [pc : Steps, job : Jobs \cup {NoJob}, ok : BOOLEAN]
    BY DEF Idle, Steps
  <1>6. ASSUME NEW w \in Workers, Ends(w)
        PROVE  Counted /\ worker' \in [Workers -> [pc : Steps, job : Jobs \cup {NoJob}, ok : BOOLEAN]]
    BY <1>1, <1>5, <1>6 DEF Ends, Released
  <1>7. ASSUME NEW w \in Workers, NEW j \in Jobs, Begins(w, j)
        PROVE  Counted /\ worker' \in [Workers -> [pc : Steps, job : Jobs \cup {NoJob}, ok : BOOLEAN]]
    <2>1. [pc |-> "load", job |-> j, ok |-> FALSE] \in [pc : Steps, job : Jobs \cup {NoJob}, ok : BOOLEAN]
      BY DEF Steps
    <2> QED BY <1>1, <1>7, <2>1 DEF Begins, Received
  <1>8. ASSUME NEW S \in SUBSET Jobs, DeleteExpired(S)
        PROVE  Counted /\ store' \in [Jobs -> JobRecord \cup {ErrNotFound}]
    BY <1>1, <1>8 DEF DeleteExpired, Counted, CallEnds, Outcomes
  <1>9. CASE Reboots
    BY <1>1, <1>5, <1>9 DEF Reboots, Requests
  <1> QED
    BY <1>1, <1>3, <1>4, <1>6, <1>7, <1>8, <1>9 DEF SystemStep, Ends, Begins

-----------------------------------------------------------------------------
\* A step that touches one job, and no worker that holds another, keeps the
\* invariant if it keeps what the invariant says of that job.
LEMMA Frame ==
    ASSUME SystemInv, SystemTypeOK', IdleHoldsNothing', NEW j, JobInv(j)',
           \A k \in Jobs \ {j} : /\ store'[k] = store[k]
                                 /\ api'[k] = api[k]
                                 /\ \A w \in Workers :
                                       Holds(w, k)' => worker'[w] = worker[w]
    PROVE  SystemInv'
  <1>1. ASSUME NEW k \in Jobs \ {j} PROVE JobInv(k)'
    <2>1. JobInv(k)
      BY DEF SystemInv
    <2> QED BY <2>1 DEF JobInv, Knows, Settled, Exists, Holds, Accepted
  <1> QED BY <1>1 DEF SystemInv

\* A busy worker holds a job, alone, and what it learned of it is true.
LEMMA Busy ==
    ASSUME SystemInv, NEW w \in Workers, worker[w].pc # "receive",
           NEW j, j = worker[w].job
    PROVE  /\ j \in Jobs
           /\ api[j] \notin {"new", "stored"}
           /\ Knows(w, j)
           /\ \A v \in Workers \ {w} : worker[v].job # j
           /\ Accepted(j) /\ Exists(j) => Consistent(store[j])
  <1>1. j \in Jobs
    BY DEF SystemInv, IdleHoldsNothing, Holds, SystemTypeOK, SchedulerTypeOK
  <1>2. JobInv(j)
    BY <1>1 DEF SystemInv
  <1> QED BY <1>1, <1>2 DEF JobInv, Holds

\* The handler's steps keep the invariant.
LEMMA RequestActsInv ==
    ASSUME SystemInv, SystemTypeOK', NEW j \in Jobs, RequestActs(j), UNCHANGED worker
    PROVE  SystemInv'
  <1>1. IdleHoldsNothing'
    BY DEF SystemInv, IdleHoldsNothing, Holds
  <1>2. JobInv(j)
    BY DEF SystemInv
  <1>3. /\ store \in [Jobs -> JobRecord \cup {ErrNotFound}]
        /\ api \in [Jobs -> Requests]
    BY DEF SystemInv, SystemTypeOK, StoreTypeOK, IntakeTypeOK
  <1>4. CASE Submit(j)
    <2>1. /\ api[j] = "new"
          /\ api' \in {[api EXCEPT ![j] = "stored"], [api EXCEPT ![j] = "unstored"]}
          /\ store' \in {store, [store EXCEPT ![j] = NewJob]}
      BY <1>4 DEF Submit, Create
    <2>2. \A w \in Workers : ~Holds(w, j)'
      BY <1>2, <2>1 DEF JobInv, Holds
    <2>3. store[j] = ErrNotFound
      BY <1>2, <2>1 DEF JobInv, Exists
    <2>4. JobInv(j)'
      BY <1>3, <2>1, <2>2, <2>3 DEF JobInv, Accepted
    <2> QED BY <1>1, <1>3, <2>1, <2>4, Frame DEF Holds
  <1>5. CASE \E outcome \in Outcomes : Enqueued(j, outcome)
    <2>1. /\ api[j] = "stored" /\ UNCHANGED store
          /\ api' \in {[api EXCEPT ![j] = "accepted"], [api EXCEPT ![j] = "unqueued"]}
      BY <1>5 DEF Enqueued
    <2>2. \A w \in Workers : ~Holds(w, j)'
      BY <1>2, <2>1 DEF JobInv, Holds
    <2>3. Exists(j)' => Consistent(store[j])'
      BY <1>2, <2>1 DEF JobInv, Exists, Consistent, NewJob, Terminal
    <2>4. JobInv(j)'
      BY <1>3, <2>1, <2>2, <2>3 DEF JobInv
    <2> QED BY <1>1, <1>3, <2>1, <2>4, Frame DEF Holds
  <1>6. CASE Refuses(j)
    <2>1. api[j] = "unqueued" /\ api' = [api EXCEPT ![j] = "refused"]
      BY <1>6 DEF Refuses
    <2>2. /\ \A k \in Jobs \ {j} : store'[k] = store[k]
          /\ Settled(j) => Settled(j)'
      <3>1. CASE UNCHANGED store
        BY <3>1 DEF Settled, Exists
      <3>2. CASE ~UNCHANGED store
        <4>1. PICK job : store' = [store EXCEPT ![j] = Apply(job, QueueUnavailable)]
          BY <1>6, <3>2 DEF Refuses, Updates
        <4>2. store'[j].status \in Terminal
          BY <1>3, <4>1 DEF Apply, QueueUnavailable, Terminal
        <4> QED BY <1>3, <4>1, <4>2 DEF Settled
      <3> QED BY <3>1, <3>2
    <2>3. JobInv(j)'
      BY <1>2, <1>3, <2>1, <2>2 DEF JobInv, Knows, Holds, Accepted
    <2> QED BY <1>1, <1>3, <2>1, <2>2, <2>3, Frame DEF Holds
  <1>7. CASE RequestDies(j)
    <2>1. /\ api[j] \in {"stored", "unqueued"} /\ UNCHANGED store
          /\ api' = [api EXCEPT ![j] = "gone"]
      BY <1>7 DEF RequestDies
    <2>2. JobInv(j)'
      BY <1>2, <1>3, <2>1 DEF JobInv, Knows, Holds, Settled, Exists, Accepted
    <2> QED BY <1>1, <1>3, <2>1, <2>2, Frame DEF Holds
  <1> QED BY <1>4, <1>5, <1>6, <1>7 DEF RequestActs

\* Marking a queued job running keeps its record's fields in agreement with the
\* status ...
LEMMA MarkConsistent ==
    ASSUME NEW job \in JobRecord, job.status = "queued", Consistent(job)
    PROVE  Consistent(Apply(job, MarkRunning))
  <1>1. job.completedAt = FALSE
    BY DEF Consistent, Terminal, JobRecord
  <1>2. Apply(job, MarkRunning) = MarkRunning
    BY <1>1 DEF Apply, MarkRunning
  <1> QED BY <1>2 DEF Consistent, MarkRunning, Terminal

\* ... and so does completing a running one.
LEMMA CompletionConsistent ==
    ASSUME NEW job \in JobRecord, NEW ok \in BOOLEAN,
           job.status = "running", Consistent(job)
    PROVE  Consistent(Apply(job, Completion(ok)))
  <1>1. job.startedAt = TRUE
    BY DEF Consistent, JobRecord
  <1>2. Apply(job, Completion(ok)) =
          [status |-> IF ok THEN "succeeded" ELSE "failed", result |-> ok,
           startedAt |-> TRUE, completedAt |-> TRUE]
    BY <1>1 DEF Apply, Completion
  <1>3. CASE ok = TRUE
    BY <1>2, <1>3 DEF Consistent, Terminal
  <1>4. CASE ok = FALSE
    BY <1>2, <1>4 DEF Consistent, Terminal
  <1> QED BY <1>3, <1>4

\* An Update changed nothing, unknown to its caller, or this one record.
LEMMA UpdatesRecord ==
    ASSUME store \in [Jobs -> JobRecord \cup {ErrNotFound}], NEW j \in Jobs,
           NEW update, NEW done \in BOOLEAN, Updates(j, update, done)
    PROVE  \/ ~done /\ UNCHANGED store
           \/ /\ Exists(j)
              /\ \E job \in JobRecord :
                    /\ Accepted(j) => job = store[j]
                    /\ store' = [store EXCEPT ![j] = Apply(job, update)]
                    /\ store'[j] = Apply(job, update)
              /\ store'[j].status = update.status
              /\ \A k \in Jobs \ {j} : store'[k] = store[k]
  <1>1. CASE \E job \in JobRecord : /\ Accepted(j) => job = store[j]
                                    /\ store' = [store EXCEPT ![j] = Apply(job, update)]
    <2>1. PICK job \in JobRecord : /\ Accepted(j) => job = store[j]
                                   /\ store' = [store EXCEPT ![j] = Apply(job, update)]
      BY <1>1
    <2>2. store'[j] = Apply(job, update)
      BY <2>1
    <2>3. store'[j].status = update.status
      BY <2>2 DEF Apply
    <2> QED BY <2>1, <2>2, <2>3 DEF Updates
  <1> QED BY <1>1 DEF Updates

\* The steps of handle that talk to the store and the model keep the invariant.
LEMMA WorkerActsInv ==
    ASSUME SystemInv, SystemTypeOK', NEW w \in Workers, WorkerActs(w), UNCHANGED api
    PROVE  SystemInv'
  <1>0. PICK j : j = worker[w].job
    OBVIOUS
  <1> USE <1>0
  <1>1. worker[w].pc # "receive"
    BY DEF WorkerActs, LoadFails, LoadSettled, LoadUnsettled, Marks, Process, Completes
  <1>2. /\ j \in Jobs
        /\ api[j] \notin {"new", "stored"}
        /\ Knows(w, j)
        /\ \A v \in Workers \ {w} : worker[v].job # j
        /\ Accepted(j) /\ Exists(j) => Consistent(store[j])
    BY <1>1, Busy
  <1>3. /\ store \in [Jobs -> JobRecord \cup {ErrNotFound}]
        /\ worker \in [Workers -> [pc : Steps, job : Jobs \cup {NoJob}, ok : BOOLEAN]]
    BY DEF SystemInv, SystemTypeOK, StoreTypeOK, SchedulerTypeOK
  \* What the step does to the worker and to the record.
  <1>4. /\ worker' = [worker EXCEPT ![w] = worker'[w]]
        /\ worker'[w].job = j
        /\ worker'[w].pc # "receive"
        /\ \A k \in Jobs \ {j} : store'[k] = store[k]
        /\ Knows(w, j)'
        /\ Accepted(j) /\ Exists(j)' => Consistent(store[j])'
    <2>1. CASE LoadFails(w)
      <3>1. worker' = [worker EXCEPT ![w].pc = "nack"] /\ UNCHANGED store
        BY <2>1 DEF LoadFails, GoTo
      <3> QED BY <1>2, <1>3, <3>1 DEF Knows, Exists
    <2>2. CASE LoadSettled(w)
      <3>1. worker' = [worker EXCEPT ![w].pc = "ack"] /\ UNCHANGED store /\ Settled(j)
        BY <2>2 DEF LoadSettled, GoTo
      <3> QED BY <1>2, <1>3, <3>1 DEF Knows, Exists, Settled
    <2>3. CASE LoadUnsettled(w)
      <3>1. /\ worker' = [worker EXCEPT ![w].pc =
                              IF store[j].status = "queued" THEN "mark" ELSE "process"]
            /\ UNCHANGED store
            /\ Exists(j) /\ store[j].status \notin Terminal
        BY <2>3 DEF LoadUnsettled, GoTo, Settled
      <3>2. store[j].status \in {"queued", "running"}
        BY <1>2, <1>3, <3>1 DEF Exists, JobRecord, Statuses, Terminal
      <3> QED BY <1>2, <1>3, <3>1, <3>2 DEF Knows, Exists
    <2>4. CASE Process(w)
      <3>1. PICK ok \in BOOLEAN :
               worker' = [worker EXCEPT ![w].pc = "complete", ![w].ok = ok]
        BY <2>4 DEF Process
      <3>2. worker[w].pc = "process" /\ UNCHANGED store
        BY <2>4 DEF Process
      <3> QED BY <1>2, <1>3, <3>1, <3>2 DEF Knows, Exists, Accepted
    <2>5. CASE Marks(w)
      <3>1. PICK done \in BOOLEAN :
               /\ Updates(j, MarkRunning, done)
               /\ worker' = [worker EXCEPT ![w].pc = IF done THEN "process" ELSE "nack"]
        BY <2>5 DEF Marks, GoTo
      <3>2. CASE ~done /\ UNCHANGED store
        <4>1. worker' = [worker EXCEPT ![w].pc = "nack"]
          BY <3>1, <3>2
        <4> QED BY <1>2, <1>3, <3>2, <4>1 DEF Knows, Exists
      <3>3. CASE ~(~done /\ UNCHANGED store)
        <4>1. PICK job \in JobRecord :
                 /\ Accepted(j) => job = store[j]
                 /\ store'[j] = Apply(job, MarkRunning)
          BY <1>2, <1>3, <3>1, <3>3, UpdatesRecord
        <4>2. /\ Exists(j)
              /\ store'[j].status = "running"
              /\ \A k \in Jobs \ {j} : store'[k] = store[k]
          BY <1>2, <1>3, <3>1, <3>3, UpdatesRecord DEF MarkRunning
        <4>3. ASSUME Accepted(j) PROVE Consistent(store'[j])
          <5>1. job.status = "queued" /\ Consistent(job)
            BY <1>2, <2>5, <4>1, <4>2, <4>3 DEF Knows, Marks
          <5> QED BY <4>1, <5>1, MarkConsistent
        <4> QED BY <1>2, <1>3, <3>1, <4>2, <4>3 DEF Knows, Accepted
      <3> QED BY <3>2, <3>3
    <2>6. CASE Completes(w)
      <3>1. PICK done \in BOOLEAN :
               /\ Updates(j, Completion(worker[w].ok), done)
               /\ worker' = [worker EXCEPT ![w].pc = IF done THEN "ack" ELSE "nack"]
        BY <2>6 DEF Completes, GoTo
      <3>2. Completion(worker[w].ok).status \in Terminal
        BY DEF Completion, Terminal
      <3>3. CASE ~done /\ UNCHANGED store
        <4>1. worker' = [worker EXCEPT ![w].pc = "nack"]
          BY <3>1, <3>3
        <4> QED BY <1>2, <1>3, <3>3, <4>1 DEF Knows, Exists
      <3>4. CASE ~(~done /\ UNCHANGED store)
        <4>1. PICK job \in JobRecord :
                 /\ Accepted(j) => job = store[j]
                 /\ store'[j] = Apply(job, Completion(worker[w].ok))
          BY <1>2, <1>3, <3>1, <3>4, UpdatesRecord
        <4>2. /\ Exists(j)
              /\ store'[j].status \in Terminal
              /\ \A k \in Jobs \ {j} : store'[k] = store[k]
          BY <1>2, <1>3, <3>1, <3>2, <3>4, UpdatesRecord
        <4>3. ASSUME Accepted(j) PROVE Consistent(store'[j])
          <5>1. job.status = "running" /\ Consistent(job)
            BY <1>2, <2>6, <4>1, <4>2, <4>3 DEF Knows, Completes
          <5>2. worker[w].ok \in BOOLEAN
            BY <1>3
          <5> QED BY <4>1, <5>1, <5>2, CompletionConsistent
        <4> QED BY <1>2, <1>3, <3>1, <4>2, <4>3 DEF Knows, Settled, Accepted
      <3> QED BY <3>3, <3>4
    <2> QED BY <2>1, <2>2, <2>3, <2>4, <2>5, <2>6 DEF WorkerActs
  <1>5. \A v \in Workers : /\ worker'[v].job = worker[v].job
                           /\ v # w => worker'[v] = worker[v]
    BY <1>3, <1>4
  <1>6. IdleHoldsNothing'
    BY <1>1, <1>4, <1>5 DEF SystemInv, IdleHoldsNothing, Holds
  <1>7. JobInv(j)'
    BY <1>2, <1>4, <1>5 DEF JobInv, Holds, Accepted
  <1> QED BY <1>2, <1>4, <1>5, <1>6, <1>7, Frame DEF Holds

\* The end of a delivery keeps the invariant ...
LEMMA EndsInv ==
    ASSUME SystemInv, SystemTypeOK', NEW w \in Workers, Ends(w), UNCHANGED api
    PROVE  SystemInv'
  <1>1. worker \in [Workers -> [pc : Steps, job : Jobs \cup {NoJob}, ok : BOOLEAN]]
    BY DEF SystemInv, SystemTypeOK, SchedulerTypeOK
  <1>2. \A v \in Workers : worker'[v] = IF v = w THEN Idle ELSE worker[v]
    BY <1>1 DEF Ends, Released
  <1>3. IdleHoldsNothing'
    BY <1>2 DEF SystemInv, IdleHoldsNothing, Holds, Idle
  <1>4. UNCHANGED store
    BY DEF Ends
  <1>5. \A v \in Workers, j \in Jobs : Holds(v, j)' => v # w /\ worker'[v] = worker[v]
    BY <1>2, NoJobAssumption DEF Holds, Idle
  <1>6. ASSUME NEW j \in Jobs PROVE JobInv(j)'
    <2>1. JobInv(j)
      BY DEF SystemInv
    <2> QED BY <1>4, <1>5, <2>1 DEF JobInv, Knows, Holds, Settled, Exists, Accepted
  <1> QED BY <1>3, <1>6 DEF SystemInv

\* ... and so does the begin of one, of a job that nobody held.
LEMMA BeginsInv ==
    ASSUME SystemInv, SystemTypeOK', NEW w \in Workers, NEW j \in Jobs,
           Begins(w, j), UNCHANGED api
    PROVE  SystemInv'
  <1>1. worker \in [Workers -> [pc : Steps, job : Jobs \cup {NoJob}, ok : BOOLEAN]]
    BY DEF SystemInv, SystemTypeOK, SchedulerTypeOK
  <1>2. \A v \in Workers : worker'[v] =
            IF v = w THEN [pc |-> "load", job |-> j, ok |-> FALSE] ELSE worker[v]
    BY <1>1 DEF Begins, Received
  <1>3. IdleHoldsNothing'
    BY <1>2, NoJobAssumption DEF SystemInv, IdleHoldsNothing, Holds
  <1>4. /\ UNCHANGED store
        /\ api[j] \notin {"new", "stored"}
        /\ \A v \in Workers : ~Holds(v, j)
    BY DEF Begins, Held
  <1>5. JobInv(j)
    BY DEF SystemInv
  <1>6. JobInv(j)'
    BY <1>2, <1>4, <1>5 DEF JobInv, Holds, Knows, Settled, Exists, Accepted
  <1>7. \A k \in Jobs \ {j} : \A v \in Workers : Holds(v, k)' => worker'[v] = worker[v]
    BY <1>2 DEF Holds
  <1> QED BY <1>3, <1>4, <1>6, <1>7, Frame

\* Expired records may go, and so may everything a server kept in memory.
LEMMA LossInv ==
    ASSUME SystemInv, SystemTypeOK',
           \/ \E S \in SUBSET Jobs : DeleteExpired(S) /\ UNCHANGED <<api, worker>>
           \/ Reboots
    PROVE  SystemInv'
  <1>1. \A j \in Jobs : store'[j] \in {store[j], ErrNotFound}
    BY DEF DeleteExpired, Reboots, SystemTypeOK, StoreTypeOK
  <1>2. CASE UNCHANGED <<api, worker>>
    <2>1. IdleHoldsNothing'
      BY <1>2 DEF SystemInv, IdleHoldsNothing, Holds
    <2>2. ASSUME NEW j \in Jobs PROVE JobInv(j)'
      <3>1. JobInv(j)
        BY DEF SystemInv
      <3>2. CASE store'[j] = store[j]
        BY <1>2, <3>1, <3>2 DEF JobInv, Knows, Holds, Settled, Exists, Accepted
      <3>3. CASE store'[j] = ErrNotFound
        BY <1>2, <3>1, <3>3 DEF JobInv, Knows, Holds, Settled, Exists, Accepted
      <3> QED BY <1>1, <3>2, <3>3
    <2> QED BY <2>1, <2>2 DEF SystemInv
  <1>3. CASE Reboots
    <2>1. \A w \in Workers : worker'[w] = Idle
      BY <1>3 DEF Reboots
    <2>2. IdleHoldsNothing'
      BY <2>1 DEF IdleHoldsNothing, Holds, Idle
    <2>3. \A w \in Workers, j \in Jobs : ~Holds(w, j)'
      BY <2>1, NoJobAssumption DEF Holds, Idle
    <2>4. ASSUME NEW j \in Jobs PROVE JobInv(j)'
      <3>1. JobInv(j)
        BY DEF SystemInv
      <3>2. /\ api'[j] = "new" => api[j] = "new"
            /\ api'[j] # "stored"
            /\ api'[j] = "accepted" => api[j] = "accepted"
        BY <1>3 DEF Reboots
      <3> QED BY <1>1, <2>3, <3>1, <3>2 DEF JobInv, Exists, Accepted
    <2> QED BY <2>2, <2>4 DEF SystemInv
  <1> QED BY <1>2, <1>3

\* SystemStep keeps its invariant.
LEMMA SystemStepInv == SystemInv /\ SystemStep => SystemInv'
  <1> SUFFICES ASSUME SystemInv, SystemStep PROVE SystemInv'
    OBVIOUS
  <1>1. SystemTypeOK'
    BY SystemType DEF SystemInv
  <1>2. CASE UNCHANGED <<store, api, worker>>
    <2>1. IdleHoldsNothing'
      BY <1>2 DEF SystemInv, IdleHoldsNothing, Holds
    <2>2. ASSUME NEW j \in Jobs PROVE JobInv(j)'
      <3>1. JobInv(j)
        BY DEF SystemInv
      <3> QED BY <1>2, <3>1 DEF JobInv, Knows, Holds, Settled, Exists, Accepted
    <2> QED BY <1>1, <2>1, <2>2 DEF SystemInv
  <1> QED
    BY <1>1, <1>2, RequestActsInv, WorkerActsInv, EndsInv, BeginsInv, LossInv DEF SystemStep

-----------------------------------------------------------------------------
\* Who may write the record of a job: its request, which is not accepted then;
\* the worker that holds the job, while it marks or completes it; or the cleanup.
LEMMA Writers ==
    ASSUME SystemInv, SystemStep, NEW j \in Jobs, store'[j] # store[j]
    PROVE  \/ api[j] \in {"new", "unqueued"}
           \/ Exists(j) /\ \E w \in Workers :
                 Holds(w, j) /\ worker[w].pc \in {"mark", "complete"}
           \/ store'[j] = ErrNotFound
  <1>1. store \in [Jobs -> JobRecord \cup {ErrNotFound}]
    BY DEF SystemInv, SystemTypeOK, StoreTypeOK
  <1>2. ASSUME NEW k \in Jobs, RequestActs(k) PROVE api[j] \in {"new", "unqueued"}
    BY <1>1, <1>2
    DEF RequestActs, Submit, Enqueued, Refuses, RequestDies, Create, Updates
  <1>3. ASSUME NEW w \in Workers, WorkerActs(w)
        PROVE  Exists(j) /\ Holds(w, j) /\ worker[w].pc \in {"mark", "complete"}
    <2>1. CASE LoadFails(w) \/ LoadSettled(w) \/ LoadUnsettled(w) \/ Process(w)
      BY <2>1 DEF LoadFails, LoadSettled, LoadUnsettled, Process
    <2>2. CASE Marks(w)
      BY <1>1, <2>2 DEF Marks, Updates, Holds
    <2>3. CASE Completes(w)
      BY <1>1, <2>3 DEF Completes, Updates, Holds
    <2> QED BY <1>3, <2>1, <2>2, <2>3 DEF WorkerActs
  <1>4. ASSUME NEW S \in SUBSET Jobs, DeleteExpired(S) PROVE store'[j] = ErrNotFound
    BY <1>4 DEF DeleteExpired
  <1>5. CASE Reboots
    BY <1>5 DEF Reboots
  <1>6. ~UNCHANGED store
    OBVIOUS
  <1> QED BY <1>2, <1>3, <1>4, <1>5, <1>6 DEF SystemStep, Ends, Begins

\* The outcome of an accepted job is left alone, and a worker that calls the
\* model for one finds it running.
LEMMA SystemStepOutcome == SystemInv /\ SystemStep => OutcomeKept /\ CallsRunningJobs
  <1> SUFFICES ASSUME SystemInv, SystemStep PROVE OutcomeKept /\ CallsRunningJobs
    OBVIOUS
  <1>1. ASSUME NEW w \in Workers, NEW j \in Jobs, Holds(w, j) PROVE Knows(w, j)
    BY <1>1 DEF SystemInv, JobInv
  <1>2. CallsRunningJobs
    BY <1>1 DEF CallsRunningJobs, Knows
  <1>3. ASSUME NEW j \in Jobs, Accepted(j), Exists(j), store[j].status \in Terminal,
               store'[j] # store[j]
        PROVE  store'[j] = ErrNotFound
    <2>1. ASSUME NEW w \in Workers, Holds(w, j), worker[w].pc \in {"mark", "complete"}
          PROVE  FALSE
      BY <1>1, <1>3, <2>1 DEF Knows, Terminal
    <2> QED BY <1>3, <2>1, Writers DEF Accepted
  <1> QED BY <1>2, <1>3 DEF OutcomeKept

\* An accepted job that is not settled was accepted by this step, or accepted
\* and not settled before it: nothing takes a job back from its outcome.
LEMMA StaysSettled ==
    ASSUME SystemInv, SystemStep, NEW j \in Jobs, Accepted(j)', ~Settled(j)'
    PROVE  api[j] = "stored" \/ (Accepted(j) /\ ~Settled(j))
  <1>1. api[j] \in {"stored", "accepted"}
    <2>1. api \in [Jobs -> Requests]
      BY DEF SystemInv, SystemTypeOK, IntakeTypeOK
    <2>2. ASSUME NEW k \in Jobs, RequestActs(k) PROVE api[j] \in {"stored", "accepted"}
      BY <2>1, <2>2 DEF RequestActs, Submit, Enqueued, Refuses, RequestDies, Accepted
    <2>3. CASE Reboots
      BY <2>3 DEF Reboots, Accepted
    <2>4. CASE UNCHANGED api
      BY <2>4 DEF Accepted
    <2> QED BY <2>2, <2>3, <2>4 DEF SystemStep
  <1>2. ASSUME Accepted(j), Settled(j) PROVE FALSE
    <2>1. store'[j] # store[j] /\ store'[j] # ErrNotFound
      BY <1>2 DEF Settled, Exists
    <2>2. PICK w \in Workers : /\ Exists(j) /\ Holds(w, j)
                               /\ worker[w].pc \in {"mark", "complete"}
      BY <1>2, <2>1, Writers DEF Accepted
    <2>3. Knows(w, j)
      BY <2>2 DEF SystemInv, JobInv
    <2> QED BY <1>2, <2>2, <2>3 DEF Knows, Settled, Terminal
  <1> QED BY <1>1, <1>2 DEF Accepted

-----------------------------------------------------------------------------
\* The initial state is one of the life cycle ...
LEMMA InitLifecycle == StoreInit /\ IntakeInit => Lifecycle!Init
  BY DEF StoreInit, IntakeInit, Lifecycle!Init, Phase, PhaseOf, Answer, AnswerTo, Exists

\* An update that reaches the record of a job moves the job to its status.
LEMMA UpdatedPhase ==
    ASSUME store \in [Jobs -> JobRecord \cup {ErrNotFound}], NEW j \in Jobs, Exists(j),
           NEW job \in JobRecord, store' = [store EXCEPT ![j] = job]
    PROVE  Phase' = [Phase EXCEPT ![j] = job.status] /\ Phase[j] # "absent"
  <1>1. job # ErrNotFound
    BY NotFoundAssumption
  <1>2. store[j].status # "absent"
    BY DEF Exists, JobRecord, Statuses
  <1> QED BY <1>1, <1>2 DEF Phase, PhaseOf, Exists

\* ... a step of a request maps to what its client sees of it ...
LEMMA RequestLifecycle ==
    ASSUME SystemInv, NEW j \in Jobs, RequestActs(j)
    PROVE  Lifecycle!Next \/ UNCHANGED <<Phase, Answer>>
  <1>1. /\ store \in [Jobs -> JobRecord \cup {ErrNotFound}]
        /\ api \in [Jobs -> Requests]
    BY DEF SystemInv, SystemTypeOK, StoreTypeOK, IntakeTypeOK
  <1>2. JobInv(j)
    BY DEF SystemInv
  <1>3. CASE Submit(j)
    <2>1. PICK outcome \in Outcomes :
             /\ Create(j, outcome)
             /\ api' = [api EXCEPT ![j] = IF outcome = "ok" THEN "stored" ELSE "unstored"]
      BY <1>3 DEF Submit
    <2>2. api[j] = "new" /\ Answer[j] = "none"
      BY <1>3 DEF Submit, Answer, AnswerTo
    <2>3. Answer' = [Answer EXCEPT ![j] = IF outcome = "ok" THEN "pending" ELSE "503"]
      BY <1>1, <2>1 DEF Answer, AnswerTo
    <2>4. CASE outcome = "lost"
      BY <2>1, <2>2, <2>3, <2>4 DEF Create, Phase, PhaseOf, Exists, Lifecycle!Next, Lifecycle!Submit
    <2>5. CASE outcome # "lost"
      <3>1. store' = [store EXCEPT ![j] = NewJob]
        BY <2>1, <2>5 DEF Create
      <3>2. NewJob \in JobRecord /\ NewJob.status = "queued"
        BY DEF NewJob, JobRecord, Statuses
      <3>3. NewJob # ErrNotFound
        BY <3>2, NotFoundAssumption
      <3>4. Phase' = [Phase EXCEPT ![j] = "queued"]
        BY <1>1, <3>1, <3>2, <3>3 DEF Phase, PhaseOf, Exists
      <3> QED
        BY <2>2, <2>3, <3>4 DEF Lifecycle!Next, Lifecycle!Submit, Lifecycle!Becomes
    <2> QED BY <2>4, <2>5
  <1>4. CASE \E outcome \in Outcomes : Enqueued(j, outcome)
    <2>1. PICK outcome \in Outcomes : Enqueued(j, outcome)
      BY <1>4
    <2>2. api[j] = "stored" /\ Answer[j] = "pending" /\ UNCHANGED Phase
      BY <2>1 DEF Enqueued, Answer, AnswerTo, Phase, PhaseOf, Exists
    <2>3. Phase[j] \in {"queued", "absent"}
      BY <1>2, <2>2 DEF JobInv, Phase, PhaseOf, Exists, NewJob
    <2>4. Answer' = [Answer EXCEPT ![j] = IF outcome = "ok" THEN "202" ELSE "pending"]
      BY <1>1, <2>1 DEF Enqueued, Answer, AnswerTo
    <2>5. CASE outcome = "ok"
      BY <2>2, <2>3, <2>4, <2>5 DEF Lifecycle!Next, Lifecycle!Accept
    <2>6. CASE outcome # "ok"
      BY <2>2, <2>4, <2>6 DEF Answer
    <2> QED BY <2>5, <2>6
  <1>5. CASE Refuses(j)
    <2>1. Updates(j, QueueUnavailable, FALSE)
      BY <1>5 DEF Refuses
    <2>2. Answer[j] = "pending" /\ Answer' = [Answer EXCEPT ![j] = "503"]
      BY <1>1, <1>5 DEF Refuses, Answer, AnswerTo
    <2>3. CASE UNCHANGED store
      BY <2>2, <2>3 DEF Phase, PhaseOf, Exists, Lifecycle!Next, Lifecycle!Refuse
    <2>4. CASE ~UNCHANGED store
      <3>1. PICK job \in JobRecord : store' = [store EXCEPT ![j] = Apply(job, QueueUnavailable)]
        BY <2>1, <2>4 DEF Updates
      <3>2. /\ Apply(job, QueueUnavailable) \in JobRecord
            /\ Apply(job, QueueUnavailable).status = "failed"
            /\ Exists(j)
        BY <2>1, <2>4, ApplyType DEF Apply, QueueUnavailable, Updates
      <3>3. Phase' = [Phase EXCEPT ![j] = "failed"] /\ Phase[j] # "absent"
        BY <1>1, <3>1, <3>2, UpdatedPhase
      <3> QED BY <2>2, <3>3 DEF Lifecycle!Next, Lifecycle!Refuse, Lifecycle!Becomes
    <2> QED BY <2>3, <2>4
  <1>6. CASE RequestDies(j)
    <2>1. Answer[j] = "pending" /\ Answer' = [Answer EXCEPT ![j] = "503"]
      BY <1>1, <1>6 DEF RequestDies, Answer, AnswerTo
    <2>2. UNCHANGED Phase
      BY <1>6 DEF RequestDies, Phase, PhaseOf, Exists
    <2> QED BY <2>1, <2>2 DEF Lifecycle!Next, Lifecycle!Refuse
  <1> QED BY <1>3, <1>4, <1>5, <1>6 DEF RequestActs

\* ... a step of handle to the start or the end of the job ...
LEMMA WorkerActsLifecycle ==
    ASSUME SystemInv, NEW w \in Workers, WorkerActs(w), UNCHANGED api
    PROVE  Lifecycle!Next \/ UNCHANGED <<Phase, Answer>>
  <1>0. PICK j : j = worker[w].job
    OBVIOUS
  <1> USE <1>0
  <1>1. /\ store \in [Jobs -> JobRecord \cup {ErrNotFound}]
        /\ api \in [Jobs -> Requests]
        /\ worker \in [Workers -> [pc : Steps, job : Jobs \cup {NoJob}, ok : BOOLEAN]]
    BY DEF SystemInv, SystemTypeOK, StoreTypeOK, IntakeTypeOK, SchedulerTypeOK
  <1>2. UNCHANGED Answer
    BY DEF Answer, AnswerTo
  <1>3. CASE UNCHANGED store
    BY <1>2, <1>3 DEF Phase, PhaseOf, Exists
  <1>4. CASE ~UNCHANGED store
    <2>1. worker[w].pc \in {"mark", "complete"} /\ Exists(j)
      BY <1>4 DEF WorkerActs, LoadFails, LoadSettled, LoadUnsettled, Marks, Process,
                  Completes, Updates
    <2>2. j \in Jobs /\ api[j] \notin {"new", "stored"} /\ Knows(w, j)
      BY <2>1, Busy
    <2>3. Phase[j] = store[j].status
      BY <2>1, <2>2 DEF Phase, PhaseOf
    <2>4. Answer[j] \in {"202", "pending", "503"} /\ (Answer[j] = "202" => Accepted(j))
      BY <1>1, <2>2 DEF Answer, AnswerTo, Accepted
    <2>5. CASE Marks(w)
      <3>1. PICK job \in JobRecord : store' = [store EXCEPT ![j] = Apply(job, MarkRunning)]
        BY <1>4, <2>5 DEF Marks, Updates
      <3>2. PICK record \in JobRecord : record = Apply(job, MarkRunning)
        BY ApplyType
      <3>3. Phase' = [Phase EXCEPT ![j] = "running"] /\ Phase[j] # "absent"
        <4>1. record.status = "running"
          BY <3>2 DEF Apply, MarkRunning
        <4>2. store' = [store EXCEPT ![j] = record]
          BY <3>1, <3>2
        <4>3. Phase' = [Phase EXCEPT ![j] = record.status] /\ Phase[j] # "absent"
          BY <1>1, <2>1, <2>2, <4>2, UpdatedPhase
        <4> QED BY <4>1, <4>3
      <3>4. Accepted(j) => Phase[j] = "queued"
        BY <2>1, <2>2, <2>3, <2>5 DEF Knows, Marks
      <3> QED
        BY <1>2, <2>2, <2>4, <3>3, <3>4
        DEF Lifecycle!Next, Lifecycle!Start, Lifecycle!Contend, Lifecycle!Becomes
    <2>6. CASE Completes(w)
      <3>1. PICK job \in JobRecord :
               store' = [store EXCEPT ![j] = Apply(job, Completion(worker[w].ok))]
        BY <1>4, <2>6 DEF Completes, Updates
      <3>2. PICK status \in {"succeeded", "failed"} : Completion(worker[w].ok).status = status
        BY DEF Completion
      <3>3. worker[w].ok \in BOOLEAN
        BY <1>1
      <3>4. /\ Apply(job, Completion(worker[w].ok)) \in JobRecord
            /\ Apply(job, Completion(worker[w].ok)).status = status
        BY <3>2, <3>3, ApplyType DEF Apply
      <3>5. Phase' = [Phase EXCEPT ![j] = status] /\ Phase[j] # "absent"
        BY <1>1, <2>1, <2>2, <3>1, <3>4, UpdatedPhase
      <3>6. Accepted(j) => Phase[j] = "running"
        BY <2>1, <2>2, <2>3, <2>6 DEF Knows, Completes
      <3> QED
        BY <1>2, <2>2, <2>4, <3>5, <3>6
        DEF Lifecycle!Next, Lifecycle!Finish, Lifecycle!Contend, Lifecycle!Becomes
    <2> QED
      BY <1>4, <2>5, <2>6
      DEF WorkerActs, LoadFails, LoadSettled, LoadUnsettled, Process
  <1> QED BY <1>3, <1>4

\* ... and records that go, with a server or one by one, to their loss.
LEMMA LossLifecycle ==
    ASSUME SystemInv,
           \/ \E S \in SUBSET Jobs : DeleteExpired(S) /\ UNCHANGED <<api, worker>>
           \/ Reboots
    PROVE  Lifecycle!Next
  <1>1. /\ store \in [Jobs -> JobRecord \cup {ErrNotFound}]
        /\ api \in [Jobs -> Requests]
    BY DEF SystemInv, SystemTypeOK, StoreTypeOK, IntakeTypeOK
  <1>2. \A j \in Jobs : Exists(j) => Phase[j] # "absent"
    BY <1>1 DEF Phase, PhaseOf, Exists, JobRecord, Statuses
  <1>3. PICK records \in SUBSET Jobs :
           /\ \A j \in records : Exists(j)
           /\ store' = [j \in Jobs |-> IF j \in records THEN ErrNotFound ELSE store[j]]
    <2>1. CASE \E S \in SUBSET Jobs : DeleteExpired(S)
      BY <2>1 DEF DeleteExpired
    <2>2. CASE UNCHANGED store
      <3>1. {} \in SUBSET Jobs /\ store' = [j \in Jobs |-> IF j \in {} THEN ErrNotFound ELSE store[j]]
        BY <1>1, <2>2
      <3> QED BY <3>1
    <2>3. CASE store' = [j \in Jobs |-> ErrNotFound]
      <3>1. PICK S \in SUBSET Jobs : S = {j \in Jobs : Exists(j)}
        OBVIOUS
      <3>2. store' = [j \in Jobs |-> IF j \in S THEN ErrNotFound ELSE store[j]]
        BY <1>1, <2>3, <3>1 DEF Exists
      <3> QED BY <3>1, <3>2
    <2> QED BY <2>1, <2>2, <2>3 DEF Reboots
  <1>4. PICK requests \in SUBSET Jobs :
           /\ \A j \in requests : api[j] \in {"stored", "unqueued"}
           /\ api' = [j \in Jobs |-> IF j \in requests THEN "gone" ELSE api[j]]
    <2>1. CASE UNCHANGED api
      <3>1. {} \in SUBSET Jobs /\ api' = [j \in Jobs |-> IF j \in {} THEN "gone" ELSE api[j]]
        BY <1>1, <2>1
      <3> QED BY <3>1
    <2>2. CASE Reboots
      <3>1. PICK S \in SUBSET Jobs : S = {j \in Jobs : api[j] \in {"stored", "unqueued"}}
        OBVIOUS
      <3>2. api' = [j \in Jobs |-> IF j \in S THEN "gone" ELSE api[j]]
        BY <2>2, <3>1 DEF Reboots
      <3> QED BY <3>1, <3>2
    <2> QED BY <2>1, <2>2
  <1>5. \A j \in requests : Answer[j] = "pending"
    BY <1>4 DEF Answer, AnswerTo
  <1>6. Phase' = [j \in Jobs |-> IF j \in records THEN "absent" ELSE Phase[j]]
    BY <1>3 DEF Phase, PhaseOf, Exists
  <1>7. Answer' = [j \in Jobs |-> IF j \in requests THEN "503" ELSE Answer[j]]
    BY <1>4 DEF Answer, AnswerTo
  <1>8. Lifecycle!Lose(records, requests)
    BY <1>2, <1>3, <1>5, <1>6, <1>7 DEF Lifecycle!Lose
  <1> QED BY <1>3, <1>4, <1>8 DEF Lifecycle!Next

\* Every SystemStep is a step of the life cycle, or none of its concern.
LEMMA SystemStepLifecycle ==
    SystemInv /\ SystemStep => [Lifecycle!Next]_<<Phase, Answer>>
  <1> SUFFICES ASSUME SystemInv, SystemStep
               PROVE  Lifecycle!Next \/ UNCHANGED <<Phase, Answer>>
    OBVIOUS
  <1>1. CASE UNCHANGED <<store, api>>
    BY <1>1 DEF Phase, PhaseOf, Answer, AnswerTo, Exists
  <1> QED
    BY <1>1, RequestLifecycle, WorkerActsLifecycle, LossLifecycle DEF SystemStep, Ends, Begins

-----------------------------------------------------------------------------
\* A call that does not fail changes no count.
LEMMA UncountedCall == UNCHANGED faults => Counted
  BY DEF Counted, CallEnds, Outcomes

\* Where the store updates a record in one step, as all stores but the one of
\* Redis do, the updates of create and handle are those of SystemStep.
LEMMA AtomicRefuse ==
    ASSUME SystemInv, NEW j \in Jobs, Refuse(j)
    PROVE  Refuses(j)
  <1>1. PICK outcome \in Outcomes : Update(j, QueueUnavailable, outcome)
    BY DEF Refuse
  <1>2. Exists(j) => store[j] \in JobRecord
    BY DEF SystemInv, SystemTypeOK, StoreTypeOK, Exists
  <1>3. Updates(j, QueueUnavailable, FALSE)
    BY <1>1, <1>2 DEF Update, Updates
  <1> QED BY <1>1, <1>3 DEF Refuse, Refuses, Update, Counted

LEMMA AtomicStoreStep ==
    ASSUME SystemInv, NEW w \in Workers, StoreStep(w)
    PROVE  WorkerActs(w)
  <1>0. PICK j : j = worker[w].job
    OBVIOUS
  <1> USE <1>0
  <1>1. CASE Mark(w)
    <2>1. j \in Jobs
      BY <1>1, Busy DEF Mark
    <2>2. Exists(j) => store[j] \in JobRecord
      BY <2>1 DEF SystemInv, SystemTypeOK, StoreTypeOK, Exists
    <2>3. PICK outcome \in Outcomes :
             /\ Update(j, MarkRunning, outcome)
             /\ GoTo(w, IF UpdateSucceeds(j, outcome) THEN "process" ELSE "nack")
      BY <1>1 DEF Mark
    <2>4. PICK done \in BOOLEAN : done <=> UpdateSucceeds(j, outcome)
      BY DEF UpdateSucceeds
    <2>5. Updates(j, MarkRunning, done) /\ Counted
      BY <2>2, <2>3, <2>4 DEF Update, Updates, UpdateSucceeds, Counted
    <2> QED BY <1>1, <2>3, <2>4, <2>5 DEF WorkerActs, Mark, Marks
  <1>2. CASE Complete(w)
    <2>1. j \in Jobs
      BY <1>2, Busy DEF Complete
    <2>2. Exists(j) => store[j] \in JobRecord
      BY <2>1 DEF SystemInv, SystemTypeOK, StoreTypeOK, Exists
    <2>3. PICK outcome \in Outcomes :
             /\ Update(j, Completion(worker[w].ok), outcome)
             /\ GoTo(w, IF UpdateSucceeds(j, outcome) THEN "ack" ELSE "nack")
      BY <1>2 DEF Complete
    <2>4. PICK done \in BOOLEAN : done <=> UpdateSucceeds(j, outcome)
      BY DEF UpdateSucceeds
    <2>5. Updates(j, Completion(worker[w].ok), done) /\ Counted
      BY <2>2, <2>3, <2>4 DEF Update, Updates, UpdateSucceeds, Counted
    <2> QED BY <1>2, <2>3, <2>4, <2>5 DEF WorkerActs, Complete, Completes
  <1> QED BY <1>1, <1>2 DEF StoreStep, WorkerActs

\* A worker that dies ends its delivery.
LEMMA WorkerDeath == ASSUME NEW w, WorkerDies(w) PROVE Ends(w)
  BY DEF WorkerDies, Ends, Counted, CallEnds, Outcomes

-----------------------------------------------------------------------------
\* The abstract system, in the variables that the systems share.
SystemSpec ==
    /\ StoreInit /\ IntakeInit /\ SchedulerInit
    /\ [][SystemStep]_<<store, faults, api, worker>>

\* Unchanged variables are a SystemStep too.
LEMMA SystemStutters == UNCHANGED <<store, faults, api, worker>> => SystemStep
  BY DEF SystemStep, Counted, CallEnds, Outcomes

\* The invariant of requests, workers and records.
THEOREM SystemInvariant == SystemSpec => []SystemInv
  BY SystemInit, SystemStepInv, SystemStutters, PTL DEF SystemSpec

\* Requests, workers and store implement the life cycle of a job under any
\* queue that gives each job to one worker at a time (create and handle).
THEOREM SystemLifecycle == SystemSpec => Lifecycle!Spec
  BY SystemInvariant, SystemStepLifecycle, SystemStutters, InitLifecycle, PTL
  DEF SystemSpec, Lifecycle!Spec, Lifecycle!vars

-----------------------------------------------------------------------------
\* The same system when no call fails, but deliveries of one job may overlap
\* because leases run out under workers that are still busy.
Waiting(j) == Exists(j) /\ store[j].status = "queued"

Running(j) == Exists(j) /\ store[j].status = "running"

\* A step of handle: an Update that finds a record succeeds, whatever another
\* worker made of that record since it was loaded.
CalmWork(w) ==
    \/ LoadSettled(w) \/ LoadUnsettled(w) \/ Process(w)
    \/ /\ worker[w].pc = "mark" /\ GoTo(w, "process")
       /\ \E job \in JobRecord : store' = [store EXCEPT ![worker[w].job] = Apply(job, MarkRunning)]
    \/ /\ worker[w].pc = "complete" /\ GoTo(w, "ack")
       /\ \E job \in JobRecord :
             store' = [store EXCEPT ![worker[w].job] = Apply(job, Completion(worker[w].ok))]
    \/ /\ worker[w].pc \in {"mark", "complete"} /\ ~Exists(worker[w].job)
       /\ GoTo(w, "nack") /\ UNCHANGED store
    \/ worker[w].pc \in {"ack", "nack"} /\ Released(w) /\ UNCHANGED store

CalmStep ==
    \/ /\ UNCHANGED worker
       /\ \E j \in Jobs : \/ /\ api[j] = "new" /\ api' = [api EXCEPT ![j] = "stored"]
                            /\ store' = [store EXCEPT ![j] = NewJob]
                         \/ Enqueued(j, "ok")
    \/ (\E w \in Workers : CalmWork(w)) /\ UNCHANGED api
    \/ \E w \in Workers, j \in Jobs : Accepted(j) /\ Received(w, j) /\ UNCHANGED <<store, api>>
    \/ (\A j \in Jobs : store'[j] \in {store[j], ErrNotFound}) /\ UNCHANGED <<api, worker>>

\* Only accepted jobs are worked on.  A record that is queued was never marked,
\* and never is queued again once it was, so no worker past Mark holds a job
\* that waits; and a running record has a worker that will store its outcome.
CalmInv(j) ==
    /\ api[j] \in {"new", "stored", "accepted"}
    /\ ~Accepted(j) => ~Held(j)
    /\ \A w \in Workers :
          Holds(w, j) /\ worker[w].pc \in {"process", "complete", "ack"} => ~Waiting(j)
    /\ Running(j) => \E w \in Workers : Holds(w, j) /\ worker[w].pc \in {"process", "complete"}

\* Without failed calls the updates of create and handle leave known statuses.
LEMMA CalmWorkInv ==
    ASSUME SystemTypeOK, NEW w \in Workers, CalmWork(w), UNCHANGED api,
           NEW j \in Jobs, CalmInv(j)
    PROVE  CalmInv(j)' /\ (Waiting(j)' => Waiting(j))
  <1>1. /\ store \in [Jobs -> JobRecord \cup {ErrNotFound}]
        /\ worker \in [Workers -> [pc : Steps, job : Jobs \cup {NoJob}, ok : BOOLEAN]]
    BY DEF SystemTypeOK, StoreTypeOK, SchedulerTypeOK
  <1>2. \A v \in Workers \ {w} : worker'[v] = worker[v]
    BY <1>1 DEF CalmWork, LoadSettled, LoadUnsettled, Process, GoTo, Released
  <1>3. CASE worker[w].job # j
    <2>1. store'[j] = store[j]
      BY <1>1, <1>3 DEF CalmWork, LoadSettled, LoadUnsettled, Process
    <2>2. ~Holds(w, j)'
      BY <1>1, <1>3, NoJobAssumption
      DEF CalmWork, LoadSettled, LoadUnsettled, Process, GoTo, Released, Idle, Holds
    <2> QED BY <1>2, <1>3, <2>1, <2>2 DEF CalmInv, Held, Holds, Accepted, Waiting, Running, Exists
  <1>4. CASE worker[w].job = j
    <2>1. Held(j) /\ Accepted(j)
      BY <1>4 DEF CalmInv, Held, Holds
    <2>2. ASSUME worker'[w].job = j, worker'[w].pc \in {"process", "complete"},
                 Waiting(j)' => Waiting(j), ~Waiting(j)'
          PROVE  CalmInv(j)'
      BY <1>2, <2>1, <2>2 DEF CalmInv, Holds, Accepted
    <2>3. ASSUME ~Running(j)', Waiting(j)' => Waiting(j),
                 worker'[w].pc \in {"process", "complete", "ack"} => ~Waiting(j)'
          PROVE  CalmInv(j)'
      BY <1>2, <2>1, <2>3 DEF CalmInv, Holds, Accepted
    <2>4. CASE LoadSettled(w)
      <3>1. ~Waiting(j)' /\ ~Running(j)'
        BY <1>4, <2>4 DEF LoadSettled, Settled, Waiting, Running, Exists, Terminal
      <3> QED BY <2>3, <3>1
    <2>5. CASE LoadUnsettled(w)
      <3>1. /\ worker' = [worker EXCEPT ![w].pc =
                              IF store[j].status = "queued" THEN "mark" ELSE "process"]
            /\ UNCHANGED store /\ Exists(j) /\ worker[w].pc = "load"
        BY <1>4, <2>5 DEF LoadUnsettled, GoTo, Settled
      <3>2. CASE store[j].status = "queued"
        <4>1. worker'[w].pc = "mark" /\ ~Running(j)' /\ (Waiting(j)' <=> Waiting(j))
          BY <1>1, <3>1, <3>2 DEF Waiting, Running, Exists
        <4> QED BY <2>3, <4>1
      <3>3. CASE store[j].status # "queued"
        <4>1. worker'[w].pc = "process" /\ worker'[w].job = j /\ ~Waiting(j)'
          BY <1>1, <1>4, <3>1, <3>3 DEF Waiting, Exists
        <4> QED BY <2>2, <4>1
      <3> QED BY <3>2, <3>3
    <2>6. CASE Process(w)
      <3>1. /\ worker'[w].pc = "complete" /\ worker'[w].job = j /\ UNCHANGED store
            /\ worker[w].pc = "process"
        BY <1>1, <1>4, <2>6 DEF Process
      <3>2. ~Waiting(j)'
        BY <1>4, <3>1 DEF CalmInv, Holds, Waiting, Exists
      <3> QED BY <2>2, <3>1, <3>2
    <2>7. CASE /\ worker[w].pc = "mark" /\ GoTo(w, "process")
               /\ \E job \in JobRecord : store' = [store EXCEPT ![j] = Apply(job, MarkRunning)]
      <3>1. worker'[w].pc = "process" /\ worker'[w].job = j
        BY <1>1, <1>4, <2>7 DEF GoTo
      <3>2. store'[j].status = "running"
        BY <1>1, <2>7 DEF Apply, MarkRunning
      <3> QED BY <2>2, <3>1, <3>2 DEF Waiting
    <2>8. CASE /\ worker[w].pc = "complete" /\ GoTo(w, "ack")
               /\ \E job \in JobRecord :
                     store' = [store EXCEPT ![j] = Apply(job, Completion(worker[w].ok))]
      <3>1. store'[j].status \in Terminal
        BY <1>1, <2>8 DEF Apply, Completion, Terminal
      <3> QED BY <2>3, <3>1 DEF Waiting, Running, Terminal
    <2>9. CASE /\ worker[w].pc \in {"mark", "complete"} /\ ~Exists(j)
               /\ GoTo(w, "nack") /\ UNCHANGED store
      BY <2>3, <2>9 DEF Waiting, Running, Exists
    <2>10. CASE worker[w].pc \in {"ack", "nack"} /\ Released(w) /\ UNCHANGED store
      <3>1. worker'[w] = Idle /\ ~Holds(w, j)' /\ worker[w].pc \in {"ack", "nack"}
        BY <1>1, <2>10, NoJobAssumption DEF Released, Idle, Holds
      <3>2. /\ Waiting(j)' <=> Waiting(j)
            /\ Running(j)' <=> Running(j)
        BY <2>10 DEF Waiting, Running, Exists
      <3>3. CASE Running(j)
        <4>1. PICK v \in Workers : Holds(v, j) /\ worker[v].pc \in {"process", "complete"}
          BY <3>3 DEF CalmInv
        <4>2. v # w
          BY <3>1, <4>1
        <4> QED BY <1>2, <2>1, <3>1, <3>2, <4>1, <4>2 DEF CalmInv, Holds, Accepted
      <3>4. CASE ~Running(j)
        BY <1>2, <2>1, <3>1, <3>2, <3>4 DEF CalmInv, Holds, Accepted
      <3> QED BY <3>2, <3>3, <3>4
    <2> QED
      BY <1>4, <2>4, <2>5, <2>6, <2>7, <2>8, <2>9, <2>10 DEF CalmWork
  <1>5. Waiting(j)' => Waiting(j)
    <2>1. CASE UNCHANGED store
      BY <2>1 DEF Waiting, Exists
    <2>2. CASE \E job \in JobRecord : store' = [store EXCEPT ![worker[w].job] = Apply(job, MarkRunning)]
      BY <1>1, <2>2 DEF Waiting, Exists, Apply, MarkRunning
    <2>3. CASE \E job \in JobRecord :
                  store' = [store EXCEPT ![worker[w].job] = Apply(job, Completion(worker[w].ok))]
      BY <1>1, <2>3 DEF Waiting, Exists, Apply, Completion
    <2> QED BY <2>1, <2>2, <2>3 DEF CalmWork, LoadSettled, LoadUnsettled, Process
  <1> QED BY <1>3, <1>4, <1>5

\* Every step keeps CalmInv, and only storing or accepting a job makes it one
\* that is accepted and waits.
LEMMA CalmStepInv ==
    ASSUME SystemTypeOK, CalmStep, NEW j \in Jobs, CalmInv(j)
    PROVE  /\ CalmInv(j)'
           /\ Accepted(j)' /\ Waiting(j)' => api[j] = "stored" \/ (Accepted(j) /\ Waiting(j))
  <1>1. /\ store \in [Jobs -> JobRecord \cup {ErrNotFound}]
        /\ api \in [Jobs -> Requests]
        /\ worker \in [Workers -> [pc : Steps, job : Jobs \cup {NoJob}, ok : BOOLEAN]]
    BY DEF SystemTypeOK, StoreTypeOK, IntakeTypeOK, SchedulerTypeOK
  <1>2. ASSUME NEW k \in Jobs, UNCHANGED worker, api[k] = "new",
               api' = [api EXCEPT ![k] = "stored"], store' = [store EXCEPT ![k] = NewJob]
        PROVE  CalmInv(j)' /\ (Accepted(j)' /\ Waiting(j)' => Accepted(j) /\ Waiting(j))
    <2>1. CASE j = k
      <3>1. api'[j] = "stored" /\ store'[j].status = "queued" /\ ~Accepted(j)'
        BY <1>1, <1>2, <2>1 DEF NewJob, Accepted
      <3>2. \A w \in Workers : ~Holds(w, j)'
        BY <1>2, <2>1 DEF CalmInv, Accepted, Held, Holds
      <3> QED BY <3>1, <3>2 DEF CalmInv, Held, Running
    <2>2. CASE j # k
      BY <1>1, <1>2, <2>2 DEF CalmInv, Held, Holds, Accepted, Waiting, Running, Exists
    <2> QED BY <2>1, <2>2
  <1>3. ASSUME NEW k \in Jobs, UNCHANGED worker, Enqueued(k, "ok")
        PROVE  /\ CalmInv(j)'
               /\ Accepted(j)' /\ Waiting(j)' => api[j] = "stored" \/ (Accepted(j) /\ Waiting(j))
    <2>1. /\ UNCHANGED store /\ api[k] = "stored"
          /\ api' = [api EXCEPT ![k] = "accepted"]
      BY <1>3 DEF Enqueued
    <2> QED
      BY <1>1, <1>3, <2>1 DEF CalmInv, Held, Holds, Accepted, Waiting, Running, Exists
  <1>4. ASSUME NEW w \in Workers, CalmWork(w), UNCHANGED api
        PROVE  CalmInv(j)' /\ (Accepted(j)' /\ Waiting(j)' => Accepted(j) /\ Waiting(j))
    <2>1. CalmInv(j)' /\ (Waiting(j)' => Waiting(j))
      BY <1>4, CalmWorkInv
    <2> QED BY <1>4, <2>1 DEF Accepted
  <1>5. ASSUME NEW w \in Workers, NEW k \in Jobs, Accepted(k), Received(w, k),
               UNCHANGED <<store, api>>
        PROVE  CalmInv(j)' /\ (Accepted(j)' /\ Waiting(j)' => Accepted(j) /\ Waiting(j))
    <2>1. /\ worker[w].pc = "receive"
          /\ worker'[w] = [pc |-> "load", job |-> k, ok |-> FALSE]
          /\ \A v \in Workers \ {w} : worker'[v] = worker[v]
      BY <1>1, <1>5 DEF Received
    <2>2. Waiting(j)' <=> Waiting(j)
      BY <1>5 DEF Waiting, Exists
    <2>3. Running(j)' <=> Running(j)
      BY <1>5 DEF Running, Exists
    <2>4. Running(j) => \E v \in Workers : Holds(v, j)' /\ worker'[v].pc \in {"process", "complete"}
      BY <2>1 DEF CalmInv, Holds
    <2>5. ~Accepted(j)' => ~Held(j)'
      BY <1>5, <2>1 DEF CalmInv, Accepted, Held, Holds
    <2>6. \A v \in Workers :
            Holds(v, j)' /\ worker'[v].pc \in {"process", "complete", "ack"} => ~Waiting(j)
      BY <2>1 DEF CalmInv, Holds
    <2> QED BY <1>5, <2>2, <2>3, <2>4, <2>5, <2>6 DEF CalmInv, Accepted
  <1>6. ASSUME \A k \in Jobs : store'[k] \in {store[k], ErrNotFound}, UNCHANGED <<api, worker>>
        PROVE  CalmInv(j)' /\ (Accepted(j)' /\ Waiting(j)' => Accepted(j) /\ Waiting(j))
    BY <1>6 DEF CalmInv, Held, Holds, Accepted, Waiting, Running, Exists
  <1> QED BY <1>2, <1>3, <1>4, <1>5, <1>6 DEF CalmStep

\* Initially no job is accepted.
LEMMA CalmInit ==
    ASSUME StoreInit, IntakeInit, SchedulerInit, NEW j \in Jobs
    PROVE  CalmInv(j)
  <1>1. api[j] = "new" /\ ~Exists(j)
    BY DEF StoreInit, IntakeInit, Exists
  <1>2. \A w \in Workers : ~Holds(w, j)
    BY NoJobAssumption DEF SchedulerInit, Idle, Holds
  <1> QED BY <1>1, <1>2 DEF CalmInv, Held, Accepted, Running

\* No call fails where no fault may be counted.
LEMMA NoFault ==
    ASSUME MaxFaults = 0, SystemTypeOK, NEW outcome \in Outcomes, CallEnds(outcome)
    PROVE  outcome = "ok" /\ faults' = faults
  BY DEF SystemTypeOK, StoreTypeOK, CallEnds

\* An accepted job that waits or runs is all that is left to settle.
LEMMA CalmUnsettled ==
    ASSUME SystemTypeOK, NEW j \in Jobs, CalmInv(j), ~Settled(j)
    PROVE  Waiting(j) \/ Held(j)
  <1>1. Waiting(j) \/ Running(j)
    BY DEF Settled, Exists, SystemTypeOK, StoreTypeOK, JobRecord, Statuses, Terminal,
           Waiting, Running
  <1> QED BY <1>1 DEF CalmInv, Held
=============================================================================
