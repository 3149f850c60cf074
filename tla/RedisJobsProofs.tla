-------------------------- MODULE RedisJobsProofs ---------------------------
(***************************************************************************)
(* Theorems about RedisJobs for every set of jobs and workers and every    *)
(* bound on faults.  While entries are reclaimed from dead workers only    *)
(* and no key expires inside an Update, its GET and SET amount to one      *)
(* update, and requests, workers and records are those of JobSystemProofs; *)
(* what is proved here is how the entries of the stream follow them.  When *)
(* entries are taken from busy workers and keys expire anywhere, what      *)
(* remains is proved for a system without failed calls.                    *)
(***************************************************************************)
EXTENDS RedisJobs, JobSystemProofs, SequenceTheorems

Entries == [job : Jobs, state : States]

Live(e) == stream[e].state # "gone"

\* What a change of an entry's state, and a new entry, make of the stream.
LEMMA BecomesEntries ==
    ASSUME stream \in Seq(Entries), NEW e \in DOMAIN stream, NEW state \in States
    PROVE  /\ Becomes(e, state) \in Seq(Entries)
           /\ Len(Becomes(e, state)) = Len(stream)
           /\ \A d \in DOMAIN stream : Becomes(e, state)[d] =
                 IF d = e THEN [job |-> stream[e].job, state |-> state] ELSE stream[d]
  <1>1. PICK changed : changed = [job |-> stream[e].job, state |-> state]
    OBVIOUS
  <1>2. e \in 1..Len(stream) /\ stream[e] \in Entries
    BY ElementOfSeq, LenProperties
  <1>3. changed \in Entries /\ [stream[e] EXCEPT !.state = state] = changed
    BY <1>1, <1>2 DEF Entries
  <1>4. Becomes(e, state) = [stream EXCEPT ![e] = changed]
    BY <1>3 DEF Becomes
  <1> QED BY <1>1, <1>2, <1>3, <1>4, ExceptSeq, LenProperties

LEMMA XAddEntries ==
    ASSUME NEW entries \in Seq(Entries), NEW j \in Jobs
    PROVE  /\ XAdd(entries, j) \in Seq(Entries)
           /\ Len(XAdd(entries, j)) = Len(entries) + 1
           /\ XAdd(entries, j)[Len(entries) + 1] = [job |-> j, state |-> "new"]
           /\ \A d \in DOMAIN entries : XAdd(entries, j)[d] = entries[d]
  <1>1. [job |-> j, state |-> "new"] \in Entries
    BY DEF Entries, States
  <1> QED BY <1>1, AppendProperties, LenProperties DEF XAdd

\* The types, in a form the proofs use.
LEMMA Types ==
    ASSUME TypeOK
    PROVE  /\ SystemTypeOK
           /\ store \in [Jobs -> JobRecord \cup {ErrNotFound}]
           /\ api \in [Jobs -> Requests]
           /\ worker \in [Workers -> [pc : Steps, job : Jobs \cup {NoJob}, ok : BOOLEAN]]
           /\ stream \in Seq(Entries) /\ DOMAIN stream = 1..Len(stream) /\ Len(stream) \in Nat
           /\ entry \in [Workers -> 0..Len(stream)]
           /\ read \in [Jobs \cup Workers -> JobRecord \cup {ErrNotFound}]
           /\ ttl \subseteq Jobs /\ \A j \in ttl : Exists(j)
  BY DEF TypeOK, SystemTypeOK, StoreTypeOK, IntakeTypeOK, SchedulerTypeOK, Entries

\* A worker that is not waiting holds a job, and what a worker's own steps make
\* of it is a worker again.
BusyHasJob == \A w \in Workers : worker[w].pc # "receive" => worker[w].job \in Jobs

LEMMA WorkerType ==
    ASSUME SchedulerTypeOK, BusyHasJob, NEW w \in Workers,
           \/ worker[w].pc # "receive" /\ \E pc \in Steps : GoTo(w, pc)
           \/ Process(w)
           \/ Released(w)
           \/ \E j \in Jobs : Received(w, j)
    PROVE  SchedulerTypeOK' /\ BusyHasJob'
  <1> DEFINE Worker == [pc : Steps, job : Jobs \cup {NoJob}, ok : BOOLEAN]
  <1>1. worker \in [Workers -> Worker]
    BY DEF SchedulerTypeOK
  <1>2. ASSUME NEW r \in Worker, r.pc # "receive" => r.job \in Jobs,
               worker' = [worker EXCEPT ![w] = r]
        PROVE  SchedulerTypeOK' /\ BusyHasJob'
    <2> HIDE DEF Worker
    <2>1. worker' \in [Workers -> Worker]
      BY <1>1, <1>2
    <2>2. \A v \in Workers : worker'[v] = IF v = w THEN r ELSE worker[v]
      BY <1>1, <1>2
    <2>3. BusyHasJob'
      BY <1>2, <2>2 DEF BusyHasJob
    <2> QED BY <2>1, <2>3 DEF SchedulerTypeOK, Worker
  <1>3. worker[w] \in Worker
    BY <1>1
  <1>4. ASSUME worker[w].pc # "receive", NEW pc \in Steps, GoTo(w, pc)
        PROVE  SchedulerTypeOK' /\ BusyHasJob'
    <2>1. [worker[w] EXCEPT !.pc = pc] \in Worker
      BY <1>3
    <2>2. [worker[w] EXCEPT !.pc = pc].job \in Jobs
      BY <1>3, <1>4 DEF BusyHasJob
    <2>3. worker' = [worker EXCEPT ![w] = [worker[w] EXCEPT !.pc = pc]]
      BY <1>4 DEF GoTo
    <2> QED BY <1>2, <2>1, <2>2, <2>3
  <1>5. CASE Process(w)
    <2>1. PICK ok \in BOOLEAN : worker' = [worker EXCEPT ![w].pc = "complete", ![w].ok = ok]
      BY <1>5 DEF Process
    <2> DEFINE r == [worker[w] EXCEPT !.pc = "complete", !.ok = ok]
    <2>2. r \in Worker
      BY <1>3 DEF Steps
    <2>3. r.job \in Jobs
      BY <1>3, <1>5 DEF BusyHasJob, Process
    <2>4. worker' = [worker EXCEPT ![w] = r]
      BY <1>1, <2>1
    <2> QED BY <1>2, <2>2, <2>3, <2>4
  <1>6. CASE Released(w)
    <2>1. Idle \in Worker /\ Idle.pc = "receive"
      BY DEF Idle, Steps
    <2> QED BY <1>2, <1>6, <2>1 DEF Released
  <1>7. ASSUME NEW j \in Jobs, Received(w, j)
        PROVE  SchedulerTypeOK' /\ BusyHasJob'
    <2>1. [pc |-> "load", job |-> j, ok |-> FALSE] \in Worker
      BY DEF Steps
    <2> QED BY <1>2, <1>7, <2>1 DEF Received
  <1> QED BY <1>4, <1>5, <1>6, <1>7

\* Only an unfinished Update has read a record.
Reading ==
    /\ \A w \in Workers : read[w] # ErrNotFound => worker[w].pc \in {"mark", "complete"}
    /\ \A j \in Jobs : read[j] # ErrNotFound => api[j] = "unqueued"

Typed == TypeOK /\ BusyHasJob /\ Reading

\* A SET of what was read keeps the types: the key is there afterwards.
LEMMA SetType ==
    ASSUME TypeOK, NEW x \in Jobs \cup Workers, read[x] # ErrNotFound, NEW j, NEW update,
           \A job \in JobRecord : Apply(job, update) \in JobRecord,
           NEW outcome \in Outcomes, Set(x, j, update, outcome)
    PROVE  /\ store' \in [Jobs -> JobRecord \cup {ErrNotFound}]
           /\ Counted
           /\ read' \in [Jobs \cup Workers -> JobRecord \cup {ErrNotFound}]
           /\ \A k \in Jobs : Exists(k) => Exists(k)'
           /\ UNCHANGED ttl
  <1>1. Apply(read[x], update) \in JobRecord
    BY Types
  <1>2. store' = store \/ store' = [store EXCEPT ![j] = Apply(read[x], update)]
    BY DEF Set
  <1>3. Apply(read[x], update) # ErrNotFound
    BY <1>1, NotFoundAssumption
  <1> QED BY <1>1, <1>2, <1>3, Types DEF Set, Counted, Exists

\* Initially nothing is stored, queued or read.
LEMMA InitType == Init => Typed
  <1> SUFFICES ASSUME Init PROVE Typed
    OBVIOUS
  <1>1. SystemTypeOK
    BY SystemInit DEF Init, SystemInv
  <1>2. stream = <<>> /\ Len(stream) = 0 /\ stream \in Seq([job : Jobs, state : States])
    BY EmptySeq DEF Init
  <1>3. TypeOK
    BY <1>1, <1>2 DEF Init, TypeOK, SystemTypeOK
  <1>4. BusyHasJob /\ Reading
    BY DEF Init, SchedulerInit, Idle, BusyHasJob, Reading
  <1> QED BY <1>3, <1>4 DEF Typed

\* Every step keeps the types, with any entry reclaimed and any key expiring.
LEMMA NextType == Typed /\ [Next]_vars => Typed'
  <1> SUFFICES ASSUME Typed, [Next]_vars PROVE Typed'
    OBVIOUS
  <1>1. /\ TypeOK /\ SystemTypeOK /\ SchedulerTypeOK /\ BusyHasJob /\ Reading
        /\ store \in [Jobs -> JobRecord \cup {ErrNotFound}]
        /\ api \in [Jobs -> Requests]
        /\ worker \in [Workers -> [pc : Steps, job : Jobs \cup {NoJob}, ok : BOOLEAN]]
        /\ stream \in Seq(Entries) /\ DOMAIN stream = 1..Len(stream) /\ Len(stream) \in Nat
        /\ entry \in [Workers -> 0..Len(stream)]
        /\ read \in [Jobs \cup Workers -> JobRecord \cup {ErrNotFound}]
        /\ ttl \subseteq Jobs /\ \A j \in ttl : Exists(j)
    BY Types DEF Typed, SystemTypeOK
  <1>2. ASSUME store' \in [Jobs -> JobRecord \cup {ErrNotFound}],
               Counted,
               api' \in [Jobs -> Requests],
               SchedulerTypeOK', BusyHasJob', Reading',
               stream' \in Seq(Entries),
               entry' \in [Workers -> 0..Len(stream')],
               read' \in [Jobs \cup Workers -> JobRecord \cup {ErrNotFound}],
               ttl' \subseteq Jobs, \A j \in ttl' : Exists(j)'
        PROVE  Typed'
    BY <1>1, <1>2, CountedType
    DEF Typed, TypeOK, SystemTypeOK, StoreTypeOK, IntakeTypeOK, Entries
  <1>3. UNCHANGED worker => SchedulerTypeOK' /\ BusyHasJob'
    BY <1>1 DEF SchedulerTypeOK, BusyHasJob
  \* A step of one request, or of one worker, leaves the reads of the others.
  <1>4. ASSUME NEW j \in Jobs, UNCHANGED worker,
               \A k \in Jobs \ {j} : api'[k] = api[k],
               \A x \in (Jobs \cup Workers) \ {j} : read'[x] = read[x],
               read'[j] # ErrNotFound => api'[j] = "unqueued"
        PROVE  Reading'
    BY <1>1, <1>4, RedisAssumption DEF Reading
  <1>5. ASSUME NEW w \in Workers, UNCHANGED api,
               \A v \in Workers \ {w} : worker'[v] = worker[v],
               \A x \in (Jobs \cup Workers) \ {w} : read'[x] = read[x],
               read'[w] # ErrNotFound => worker'[w].pc \in {"mark", "complete"}
        PROVE  Reading'
    BY <1>1, <1>5, RedisAssumption DEF Reading
  \* The stream after a change of one entry.
  <1>6. ASSUME NEW e \in 0..Len(stream), NEW state \in States
        PROVE  Becomes(e, state) \in Seq(Entries) /\ Len(Becomes(e, state)) = Len(stream)
    <2>1. CASE e \in DOMAIN stream
      BY <1>1, <2>1, BecomesEntries
    <2>2. CASE e \notin DOMAIN stream
      <3>1. Becomes(e, state) = stream
        BY <1>1, <2>2 DEF Becomes
      <3> QED BY <1>1, <3>1
    <2> QED BY <2>1, <2>2
  <1>7. ASSUME NEW j \in Jobs, RequestStep(j) PROVE Typed'
    <2>1. CASE Store(j)
      <3>1. PICK outcome \in Outcomes :
               /\ Create(j, outcome)
               /\ api' = [api EXCEPT ![j] = IF outcome = "ok" THEN "stored" ELSE "unstored"]
        BY <2>1 DEF Store, Submit
      <3>2. NewJob \in JobRecord
        BY DEF NewJob, JobRecord, Statuses
      <3>3. /\ store' \in {store, [store EXCEPT ![j] = NewJob]}
            /\ Counted
        BY <3>1 DEF Create, Counted
      <3>4. api' \in [Jobs -> Requests]
        BY <1>1, <3>1 DEF Requests
      <3>5. NewJob # ErrNotFound
        BY <3>2, NotFoundAssumption
      <3>6. \A k \in Jobs : Exists(k) => Exists(k)'
        BY <1>1, <3>3, <3>5 DEF Exists
      <3>7. ttl' \subseteq Jobs /\ \A k \in ttl' : Exists(k)'
        BY <1>1, <2>1, <3>6 DEF Store
      <3>8. Reading'
        BY <1>1, <1>4, <2>1, <3>1 DEF Store, Submit, Reading
      <3> QED BY <1>1, <1>2, <1>3, <2>1, <3>2, <3>3, <3>4, <3>7, <3>8 DEF Store
    <2>2. CASE Enqueue(j)
      <3>1. PICK outcome \in Outcomes :
               /\ Enqueued(j, outcome) /\ CallEnds(outcome)
               /\ stream' = IF outcome = "lost" THEN stream ELSE XAdd(stream, j)
        BY <2>2 DEF Enqueue
      <3>2. stream' \in Seq(Entries) /\ Len(stream') \in {Len(stream), Len(stream) + 1}
        BY <1>1, <3>1, XAddEntries
      <3>3. api' \in [Jobs -> Requests]
        BY <1>1, <3>1 DEF Enqueued, Requests
      <3>4. entry' \in [Workers -> 0..Len(stream')]
        BY <1>1, <2>2, <3>2 DEF Enqueue
      <3>5. Reading'
        BY <1>1, <1>4, <2>2, <3>1 DEF Enqueue, Enqueued, Reading
      <3> QED
        BY <1>1, <1>2, <1>3, <2>2, <3>1, <3>2, <3>3, <3>4, <3>5
        DEF Enqueue, Enqueued, Counted, Exists
    <2>3. CASE RefuseGet(j)
      <3>1. Counted
        BY <2>3 DEF RefuseGet, Counted, CallEnds, Outcomes
      <3>2. Reading'
        BY <1>1, <1>4, <2>3 DEF RefuseGet
      <3> QED BY <1>1, <1>2, <1>3, <2>3, <3>1, <3>2 DEF RefuseGet, Requests, Exists
    <2>4. CASE RefuseSet(j)
      <3>1. /\ store' \in [Jobs -> JobRecord \cup {ErrNotFound}] /\ Counted
            /\ read' \in [Jobs \cup Workers -> JobRecord \cup {ErrNotFound}]
            /\ \A k \in Jobs : Exists(k) => Exists(k)'
            /\ UNCHANGED ttl
        BY <1>1, <2>4, ApplyType, SetType DEF RefuseSet
      <3>2. Reading'
        BY <1>1, <1>4, <2>4 DEF RefuseSet, Set
      <3> QED BY <1>1, <1>2, <1>3, <2>4, <3>1, <3>2 DEF RefuseSet, Requests
    <2> QED BY <1>7, <2>1, <2>2, <2>3, <2>4 DEF RequestStep
  <1>8. ASSUME NEW w \in Workers, RedisStep(w) PROVE Typed'
    <2>1. CASE /\ LoadFails(w) \/ LoadSettled(w) \/ LoadUnsettled(w) \/ Process(w)
               /\ UNCHANGED <<read, ttl>>
      <3>1. UNCHANGED store /\ Counted
        BY <2>1
        DEF LoadFails, LoadSettled, LoadUnsettled, Process, Counted, CallEnds, Outcomes
      <3>2. SchedulerTypeOK' /\ BusyHasJob'
        BY <1>1, <2>1, WorkerType DEF LoadFails, LoadSettled, LoadUnsettled, Steps
      <3>3. read[w] = ErrNotFound
        BY <1>1, <2>1 DEF LoadFails, LoadSettled, LoadUnsettled, Process, Reading
      <3>4. Reading'
        BY <1>1, <1>5, <1>8, <2>1, <3>3
        DEF RedisStep, LoadFails, LoadSettled, LoadUnsettled, Process, GoTo
      <3> QED BY <1>1, <1>2, <1>8, <2>1, <3>1, <3>2, <3>4 DEF RedisStep, Exists
    <2>2. CASE UpdateGet(w)
      <3>1. Counted
        BY <2>2 DEF UpdateGet, Counted, CallEnds, Outcomes
      <3>2. SchedulerTypeOK' /\ BusyHasJob'
        BY <1>1, <1>3, <2>2, WorkerType DEF UpdateGet, Steps
      <3>3. worker[w].job \in Jobs
        BY <1>1, <2>2 DEF UpdateGet, BusyHasJob
      <3>4. read' \in [Jobs \cup Workers -> JobRecord \cup {ErrNotFound}]
        BY <1>1, <2>2, <3>3 DEF UpdateGet
      <3>5. Reading'
        BY <1>1, <1>5, <1>8, <2>2 DEF RedisStep, UpdateGet, GoTo
      <3> QED
        BY <1>1, <1>2, <1>8, <2>2, <3>1, <3>2, <3>4, <3>5 DEF RedisStep, UpdateGet, Exists
    <2>3. CASE UpdateSet(w)
      <3>0. worker[w].ok \in BOOLEAN /\ worker[w].pc # "receive"
        BY <1>1, <2>3 DEF UpdateSet, Reading
      <3>1. PICK update \in {MarkRunning, Completion(worker[w].ok)}, outcome \in Outcomes :
               Set(w, worker[w].job, update, outcome)
        BY <2>3 DEF UpdateSet
      <3>2. \A job \in JobRecord : Apply(job, update) \in JobRecord
        BY <3>0, <3>1, ApplyType
      <3>3. /\ store' \in [Jobs -> JobRecord \cup {ErrNotFound}] /\ Counted
            /\ read' \in [Jobs \cup Workers -> JobRecord \cup {ErrNotFound}]
            /\ \A k \in Jobs : Exists(k) => Exists(k)'
            /\ UNCHANGED ttl
        BY <1>1, <2>3, <3>1, <3>2, SetType DEF UpdateSet
      <3>4. \E pc \in Steps : GoTo(w, pc)
        BY <2>3 DEF UpdateSet, Steps
      <3>5. SchedulerTypeOK' /\ BusyHasJob'
        BY <1>1, <3>0, <3>4, WorkerType
      <3>6. Reading'
        BY <1>1, <1>5, <1>8, <3>1, <3>4 DEF RedisStep, Set, GoTo
      <3> QED BY <1>1, <1>2, <1>8, <3>3, <3>5, <3>6 DEF RedisStep
    <2> QED BY <1>8, <2>1, <2>2, <2>3 DEF RedisStep
  <1>9. ASSUME NEW w \in Workers, Released(w), UNCHANGED <<store, api, ttl>>, Counted,
               stream' \in Seq(Entries), Len(stream') \in {Len(stream), Len(stream) + 1},
               entry' = [entry EXCEPT ![w] = 0],
               \/ read' = [read EXCEPT ![w] = ErrNotFound]
               \/ worker[w].pc \in {"ack", "nack"} /\ UNCHANGED read
        PROVE  Typed'
    <2>1. SchedulerTypeOK' /\ BusyHasJob'
      BY <1>1, <1>9, WorkerType
    <2>2. Reading'
      <3>1. read'[w] = ErrNotFound
        BY <1>1, <1>9 DEF Reading
      <3> QED BY <1>1, <1>5, <1>9, <3>1 DEF Released
    <2>3. read' \in [Jobs \cup Workers -> JobRecord \cup {ErrNotFound}]
      BY <1>1, <1>9
    <2>4. entry' \in [Workers -> 0..Len(stream')]
      BY <1>1, <1>9
    <2> QED BY <1>1, <1>2, <1>9, <2>1, <2>2, <2>3, <2>4 DEF Exists
  <1>10. ASSUME NEW w \in Workers, Ack(w) PROVE Typed'
    <2>1. stream' = stream \/ stream' = Becomes(entry[w], "gone")
      BY <1>10 DEF Ack
    <2>2. stream' \in Seq(Entries) /\ Len(stream') = Len(stream)
      BY <1>1, <1>6, <2>1 DEF States
    <2> QED BY <1>1, <1>9, <1>10, <2>2 DEF Ack, Counted
  <1>11. ASSUME NEW w \in Workers, Nack(w) PROVE Typed'
    <2>1. worker[w].job \in Jobs
      BY <1>1, <1>11 DEF Nack, BusyHasJob
    <2>2. stream' = stream \/ stream' = XAdd(Becomes(entry[w], "gone"), worker[w].job)
      BY <1>11 DEF Nack
    <2>3. Becomes(entry[w], "gone") \in Seq(Entries) /\ Len(Becomes(entry[w], "gone")) = Len(stream)
      BY <1>1, <1>6 DEF States
    <2>4. stream' \in Seq(Entries) /\ Len(stream') \in {Len(stream), Len(stream) + 1}
      BY <1>1, <2>1, <2>2, <2>3, XAddEntries
    <2> QED BY <1>1, <1>9, <1>11, <2>4 DEF Nack, Counted
  <1>12. ASSUME NEW w \in Workers, NEW e \in DOMAIN stream, Receive(w, e) \/ ReceiveLost(w, e)
         PROVE  Typed'
    <2>1. /\ stream' = Becomes(e, "pending") /\ UNCHANGED <<store, api, read, ttl>>
          /\ Counted /\ worker[w].pc = "receive"
      BY <1>12, UncountedCall DEF Receive, ReceiveLost, Received, Counted, Outcomes
    <2>2. stream' \in Seq(Entries) /\ Len(stream') = Len(stream)
      BY <1>1, <1>6, <2>1 DEF States
    <2>0. e \in 1..Len(stream)
      BY <1>1
    <2>3. stream[e].job \in Jobs
      <3>1. stream[e] \in Entries
        BY <1>1, <2>0, ElementOfSeq
      <3> QED BY <3>1 DEF Entries
    <2>4. SchedulerTypeOK' /\ BusyHasJob'
      BY <1>1, <1>3, <1>12, <2>3, WorkerType DEF Receive, ReceiveLost
    <2>5. read[w] = ErrNotFound
      BY <1>1, <2>1 DEF Reading
    <2>6. Reading'
      BY <1>1, <1>5, <1>12, <2>1, <2>5 DEF Receive, ReceiveLost, Received
    <2>7. entry' \in [Workers -> 0..Len(stream')]
      <3>1. Len(stream') = Len(stream) /\ e \in 0..Len(stream)
        BY <1>1, <2>0, <2>2
      <3>2. entry' = entry \/ entry' = [entry EXCEPT ![w] = e]
        BY <1>12 DEF Receive, ReceiveLost
      <3>3. entry' \in [Workers -> 0..Len(stream)]
        BY <1>1, <3>1, <3>2
      <3> QED BY <3>1, <3>3
    <2> QED BY <1>1, <1>2, <2>1, <2>2, <2>4, <2>6, <2>7 DEF Exists
  <1>13. CASE Deaths
    <2>1. ASSUME NEW j \in Jobs, RequestDies(j), read' = [read EXCEPT ![j] = ErrNotFound],
                 UNCHANGED <<worker, stream, entry, ttl>>
          PROVE  Typed'
      <3>1. api' = [api EXCEPT ![j] = "gone"] /\ UNCHANGED store /\ Counted
        BY <2>1 DEF RequestDies, Counted, CallEnds, Outcomes
      <3>2. Reading'
        BY <1>1, <1>4, <2>1, <3>1
      <3> QED BY <1>1, <1>2, <1>3, <2>1, <3>1, <3>2 DEF Requests, Exists
    <2>2. ASSUME NEW w \in Workers, WorkerDies(w), read' = [read EXCEPT ![w] = ErrNotFound],
                 entry' = [entry EXCEPT ![w] = 0], UNCHANGED <<api, stream, ttl>>
          PROVE  Typed'
      BY <1>1, <1>9, <2>2 DEF WorkerDies, Counted, CallEnds, Outcomes
    <2> QED BY <1>13, <2>1, <2>2 DEF Deaths
  <1>14. ASSUME NEW j \in Jobs, Expire(j) PROVE Typed'
    <2>1. Reading'
      BY <1>1, <1>14 DEF Expire, Reading
    <2> QED BY <1>1, <1>2, <1>3, <1>14, <2>1, UncountedCall DEF Expire, Exists
  <1>15. CASE UNCHANGED vars
    <2>1. Reading'
      BY <1>1, <1>15 DEF vars, redis, Reading
    <2> QED BY <1>1, <1>2, <1>3, <1>15, <2>1, UncountedCall DEF vars, redis, Exists
  <1> QED
    BY <1>7, <1>8, <1>10, <1>11, <1>12, <1>13, <1>14, <1>15 DEF Next, HandleStep

-----------------------------------------------------------------------------
\* The entries of the stream, while they are reclaimed from dead workers only:
\* a job has one at most, and only once it was enqueued ...
EntryInv ==
    /\ \A d, e \in DOMAIN stream :
          Live(d) /\ Live(e) /\ stream[d].job = stream[e].job => d = e
    /\ \A e \in DOMAIN stream : Live(e) => api[stream[e].job] \notin {"new", "stored"}

\* ... a busy worker was given the pending entry of its job ...
WorkerEntry(w) ==
    worker[w].pc # "receive" =>
        /\ entry[w] \in DOMAIN stream
        /\ stream[entry[w]] = [job |-> worker[w].job, state |-> "pending"]

\* ... and no accepted job is without one before it is settled.
QueueInv ==
    /\ EntryInv
    /\ \A w \in Workers : WorkerEntry(w)
    /\ AcceptedNeverStranded

\* As no key expires between GET and SET, what an Update has read is there,
\* unchanged if its client was promised anything.
ReadInv ==
    /\ \A j \in Jobs : read[j] # ErrNotFound => Exists(j)
    /\ \A w \in Workers : read[w] # ErrNotFound =>
          /\ Exists(worker[w].job)
          /\ Accepted(worker[w].job) => read[w] = store[worker[w].job]

\* The inductive invariant of RedisJobs.
IInv ==
    /\ Typed
    /\ SystemInv
    /\ QueueInv
    /\ ReadInv
    /\ RecordsExpire

\* While entries are reclaimed from dead workers only, and no key expires in an
\* Update.
Timely == ~Overruns /\ ~ExpiresInUpdate

\* The entry a worker may be given next belongs to a job that nobody holds.
LEMMA NobodyHolds ==
    ASSUME Timely, IInv, NEW e \in DOMAIN stream, NextNew(e) \/ Reclaimable(e)
    PROVE  /\ stream[e].job \in Jobs /\ stream[e].state \in {"new", "pending"}
           /\ api[stream[e].job] \notin {"new", "stored"}
           /\ ~Held(stream[e].job)
  <1>0. PICK j : j = stream[e].job
    OBVIOUS
  <1>1. /\ DOMAIN stream = 1..Len(stream) /\ stream \in Seq(Entries)
        /\ EntryInv /\ BusyHasJob /\ SystemInv
    BY Types DEF IInv, QueueInv, Typed
  <1>2. j \in Jobs
    <2>1. stream[e] \in Entries
      BY <1>1, ElementOfSeq
    <2> QED BY <1>0, <2>1 DEF Entries
  <1>3. Live(e) /\ stream[e].state \in {"new", "pending"}
    BY DEF NextNew, Reclaimable, Live
  <1>4. ASSUME NEW v \in Workers, Holds(v, j) PROVE FALSE
    <2>1. worker[v].pc # "receive"
      BY <1>1, <1>2, <1>4, NoJobAssumption DEF SystemInv, IdleHoldsNothing, Holds
    <2>2. /\ entry[v] \in DOMAIN stream
          /\ stream[entry[v]].job = j /\ stream[entry[v]].state = "pending"
      <3>1. WorkerEntry(v)
        BY DEF IInv, QueueInv
      <3> QED BY <1>4, <2>1, <3>1 DEF WorkerEntry, Holds
    <2>3. entry[v] = e
      BY <1>0, <1>1, <1>3, <2>2 DEF EntryInv, Live
    <2> QED BY <2>2, <2>3 DEF NextNew, Reclaimable, Timely
  <1> QED BY <1>0, <1>1, <1>2, <1>3, <1>4 DEF EntryInv, Held

\* A SET of what was read is an update of the record that is there.
LEMMA SetUpdates ==
    ASSUME IInv, NEW x \in Jobs \cup Workers, read[x] # ErrNotFound, NEW j \in Jobs,
           Exists(j), Accepted(j) => read[x] = store[j],
           NEW update, NEW outcome \in Outcomes, Set(x, j, update, outcome)
    PROVE  Updates(j, update, outcome = "ok") /\ Counted
  <1>1. read[x] \in JobRecord
    BY Types DEF IInv, Typed
  <1>2. CASE outcome = "lost"
    BY <1>2 DEF Set, Updates, Counted
  <1>3. CASE outcome # "lost"
    BY <1>1, <1>3 DEF Set, Updates, Counted
  <1> QED BY <1>2, <1>3

\* Under the invariant every step is a SystemStep.
LEMMA NextSystem ==
    ASSUME Timely, IInv, [Next]_vars
    PROVE  SystemStep
  <1>1. SystemInv /\ ReadInv /\ Typed
    BY DEF IInv
  <1>2. ASSUME NEW j \in Jobs, RequestStep(j) PROVE SystemStep
    <2>1. CASE Store(j)
      BY <2>1 DEF Store, SystemStep, RequestActs
    <2>2. CASE Enqueue(j)
      BY <2>2 DEF Enqueue, SystemStep, RequestActs
    <2>3. CASE RefuseGet(j)
      <3>1. Counted
        BY <2>3 DEF RefuseGet, Counted, CallEnds, Outcomes
      <3> QED
        BY <2>3, <3>1 DEF RefuseGet, SystemStep, RequestActs, Refuses, Updates
    <2>4. CASE RefuseSet(j)
      <3>1. api[j] = "unqueued" /\ Exists(j) /\ read[j] # ErrNotFound
        BY <1>1, <2>4 DEF RefuseSet, Typed, Reading, ReadInv
      <3>2. PICK outcome \in Outcomes : Set(j, j, QueueUnavailable, outcome)
        BY <2>4 DEF RefuseSet
      <3>3. Updates(j, QueueUnavailable, outcome = "ok") /\ Counted
        BY <3>1, <3>2, SetUpdates DEF Accepted
      <3>4. Refuses(j)
        BY <2>4, <3>1, <3>3 DEF RefuseSet, Refuses, Updates
      <3> QED BY <2>4, <3>4 DEF RefuseSet, SystemStep, RequestActs
    <2> QED BY <1>2, <2>1, <2>2, <2>3, <2>4 DEF RequestStep
  <1>3. ASSUME NEW w \in Workers, RedisStep(w) PROVE SystemStep
    <2>1. CASE LoadFails(w) \/ LoadSettled(w) \/ LoadUnsettled(w) \/ Process(w)
      BY <1>3, <2>1 DEF RedisStep, SystemStep, WorkerActs
    <2>2. CASE UpdateGet(w)
      <3>1. Counted
        BY <2>2 DEF UpdateGet, Counted, CallEnds, Outcomes
      <3>2. CASE UNCHANGED worker
        BY <1>3, <2>2, <3>1, <3>2 DEF RedisStep, UpdateGet, SystemStep
      <3>3. CASE GoTo(w, "nack")
        <4>1. Marks(w) \/ Completes(w)
          BY <2>2, <3>1, <3>3 DEF UpdateGet, Marks, Completes, Updates
        <4> QED BY <1>3, <4>1 DEF RedisStep, SystemStep, WorkerActs
      <3> QED BY <2>2, <3>2, <3>3 DEF UpdateGet
    <2>3. CASE UpdateSet(w)
      <3>1. /\ worker[w].pc \in {"mark", "complete"} /\ read[w] # ErrNotFound
            /\ worker[w].job \in Jobs /\ Exists(worker[w].job)
            /\ Accepted(worker[w].job) => read[w] = store[worker[w].job]
        BY <1>1, <2>3 DEF UpdateSet, Typed, Reading, BusyHasJob, ReadInv
      <3>2. CASE worker[w].pc = "mark"
        <4>1. PICK outcome \in Outcomes :
                 /\ Set(w, worker[w].job, MarkRunning, outcome)
                 /\ GoTo(w, IF outcome = "ok" THEN "process" ELSE "nack")
          BY <2>3, <3>2 DEF UpdateSet
        <4>2. Updates(worker[w].job, MarkRunning, outcome = "ok") /\ Counted
          BY <3>1, <4>1, SetUpdates
        <4>3. Marks(w)
          BY <3>2, <4>1, <4>2 DEF Marks
        <4> QED BY <1>3, <4>3 DEF RedisStep, SystemStep, WorkerActs
      <3>3. CASE worker[w].pc = "complete"
        <4>1. PICK outcome \in Outcomes :
                 /\ Set(w, worker[w].job, Completion(worker[w].ok), outcome)
                 /\ GoTo(w, IF outcome = "ok" THEN "ack" ELSE "nack")
          BY <2>3, <3>3 DEF UpdateSet
        <4>2. Updates(worker[w].job, Completion(worker[w].ok), outcome = "ok") /\ Counted
          BY <3>1, <4>1, SetUpdates
        <4>3. Completes(w)
          BY <3>3, <4>1, <4>2 DEF Completes
        <4> QED BY <1>3, <4>3 DEF RedisStep, SystemStep, WorkerActs
      <3> QED BY <3>1, <3>2, <3>3
    <2> QED BY <1>3, <2>1, <2>2, <2>3 DEF RedisStep
  <1>4. ASSUME NEW w \in Workers, Ack(w) \/ Nack(w) PROVE SystemStep
    <2>1. Ends(w) /\ UNCHANGED api
      BY <1>4 DEF Ack, Nack, Ends, Counted
    <2> QED BY <2>1 DEF SystemStep
  <1>5. ASSUME NEW w \in Workers, NEW e \in DOMAIN stream, Receive(w, e) PROVE SystemStep
    <2>1. stream[e].job \in Jobs /\ Begins(w, stream[e].job) /\ UNCHANGED api
      BY <1>5, NobodyHolds, UncountedCall DEF Receive, Begins
    <2> QED BY <2>1 DEF SystemStep
  <1>6. ASSUME NEW w \in Workers, NEW e \in DOMAIN stream, ReceiveLost(w, e) PROVE SystemStep
    BY <1>6 DEF ReceiveLost, SystemStep, Counted, Outcomes
  <1>7. CASE Deaths
    BY <1>7, WorkerDeath DEF Deaths, SystemStep, RequestActs
  <1>8. ASSUME NEW j \in Jobs, Expire(j) PROVE SystemStep
    <2>1. store \in [Jobs -> JobRecord \cup {ErrNotFound}] /\ Exists(j)
      BY <1>1, <1>8, Types DEF Expire, Typed
    <2>2. DeleteExpired({j})
      BY <1>8, <2>1 DEF Expire, DeleteExpired, Exists
    <2> QED BY <1>8, <2>2 DEF Expire, SystemStep
  <1>9. CASE UNCHANGED vars
    BY <1>9, SystemStutters DEF vars
  <1> QED
    BY <1>2, <1>3, <1>4, <1>5, <1>6, <1>7, <1>8, <1>9 DEF Next, HandleStep

\* The invariant, in a form the proofs use.
LEMMA Parts ==
    ASSUME IInv
    PROVE  /\ stream \in Seq(Entries) /\ DOMAIN stream = 1..Len(stream) /\ Len(stream) \in Nat
           /\ store \in [Jobs -> JobRecord \cup {ErrNotFound}]
           /\ api \in [Jobs -> Requests]
           /\ worker \in [Workers -> [pc : Steps, job : Jobs \cup {NoJob}, ok : BOOLEAN]]
           /\ entry \in [Workers -> 0..Len(stream)]
           /\ read \in [Jobs \cup Workers -> JobRecord \cup {ErrNotFound}]
           /\ SystemInv /\ EntryInv /\ (\A w \in Workers : WorkerEntry(w))
           /\ AcceptedNeverStranded /\ ReadInv /\ RecordsExpire /\ Reading /\ BusyHasJob
  BY Types DEF IInv, Typed, QueueInv

\* What a step that leaves the stream alone must do to keep the entries in order.
LEMMA QueueFrame ==
    ASSUME IInv, SystemStep, UNCHANGED <<stream, entry>>,
           \A j \in Jobs : /\ api'[j] \in {"new", "stored"} => api[j] \in {"new", "stored"}
                           /\ Accepted(j)' => Accepted(j),
           \A w \in Workers : worker'[w].pc # "receive" =>
                                 worker[w].pc # "receive" /\ worker'[w].job = worker[w].job
    PROVE  QueueInv'
  <1>1. EntryInv'
    <2>1. ASSUME NEW e \in DOMAIN stream PROVE stream[e].job \in Jobs
      <3>1. stream[e] \in Entries
        BY Parts, ElementOfSeq
      <3> QED BY <3>1 DEF Entries
    <2> QED BY <2>1, Parts DEF EntryInv, Live
  <1>2. ASSUME NEW w \in Workers PROVE WorkerEntry(w)'
    BY Parts DEF WorkerEntry
  <1>3. AcceptedNeverStranded'
    <2>1. ASSUME NEW j \in Jobs, Accepted(j)', ~Settled(j)' PROVE Accepted(j) /\ ~Settled(j)
      BY <2>1, Parts, StaysSettled DEF Accepted
    <2> QED BY <2>1, Parts DEF AcceptedNeverStranded, Queued, EntriesOf
  <1> QED BY <1>1, <1>2, <1>3 DEF QueueInv

\* Enqueue adds the first entry of its job.
LEMMA EnqueueQueue ==
    ASSUME IInv, SystemStep, NEW k \in Jobs, Enqueue(k)
    PROVE  QueueInv'
  <1>1. PICK n \in Nat : n = Len(stream)
    BY Parts
  <1>2. PICK outcome \in Outcomes :
           /\ Enqueued(k, outcome)
           /\ stream' = IF outcome = "lost" THEN stream ELSE XAdd(stream, k)
    BY DEF Enqueue
  <1>3. /\ api[k] = "stored" /\ UNCHANGED <<worker, entry>>
        /\ api'[k] \in {"accepted", "unqueued"}
        /\ \A j \in Jobs \ {k} : api'[j] = api[j]
        /\ api'[k] = "accepted" => outcome = "ok"
    BY <1>2, Parts DEF Enqueue, Enqueued
  <1>4. \A e \in DOMAIN stream : stream[e].job \in Jobs /\ (Live(e) => stream[e].job # k)
    <2>1. ASSUME NEW e \in DOMAIN stream PROVE stream[e].job \in Jobs
      <3>1. stream[e] \in Entries
        BY Parts, ElementOfSeq
      <3> QED BY <3>1 DEF Entries
    <2> QED BY <1>3, <2>1, Parts DEF EntryInv
  <1>5. CASE outcome = "lost"
    <2>1. UNCHANGED stream
      BY <1>2, <1>5
    <2>2. \A j \in Jobs : /\ api'[j] \in {"new", "stored"} => api[j] \in {"new", "stored"}
                          /\ Accepted(j)' => Accepted(j)
      BY <1>3, <1>5 DEF Accepted
    <2> QED BY <1>3, <2>1, <2>2, QueueFrame
  <1>6. CASE outcome # "lost"
    <2>1. /\ DOMAIN stream = 1..n /\ DOMAIN stream' = 1..(n + 1)
          /\ stream'[n + 1] = [job |-> k, state |-> "new"]
          /\ \A e \in 1..n : stream'[e] = stream[e]
      BY <1>1, <1>2, <1>6, Parts, XAddEntries, LenProperties
    <2>2. \A e \in DOMAIN stream' : e = n + 1 \/ e \in DOMAIN stream
      BY <2>1
    <2>3. EntryInv'
      <3>1. \A e \in DOMAIN stream' : Live(e)' =>
               \/ e = n + 1 /\ stream'[e].job = k
               \/ e \in DOMAIN stream /\ Live(e) /\ stream'[e] = stream[e] /\ stream[e].job # k
        BY <1>4, <2>1, <2>2 DEF Live
      <3>2. \A e \in DOMAIN stream' : Live(e)' => api'[stream'[e].job] \notin {"new", "stored"}
        BY <1>3, <1>4, <3>1, Parts DEF EntryInv
      <3>3. ASSUME NEW d \in DOMAIN stream', NEW e \in DOMAIN stream', Live(d)', Live(e)',
                   stream'[d].job = stream'[e].job
            PROVE  d = e
        <4>1. CASE stream'[d].job = k
          BY <3>1, <3>3, <4>1
        <4>2. CASE stream'[d].job # k
          <5>1. /\ d \in DOMAIN stream /\ Live(d) /\ stream'[d] = stream[d]
                /\ e \in DOMAIN stream /\ Live(e) /\ stream'[e] = stream[e]
            BY <3>1, <3>3, <4>2
          <5> QED BY <3>3, <5>1, Parts DEF EntryInv
        <4> QED BY <4>1, <4>2
      <3> QED BY <3>2, <3>3 DEF EntryInv
    <2>4. ASSUME NEW w \in Workers PROVE WorkerEntry(w)'
      BY <1>3, <2>1, Parts DEF WorkerEntry
    <2>5. ASSUME NEW j \in Jobs, Accepted(j)', ~Settled(j)' PROVE Queued(j)'
      <3>1. CASE j = k
        <4>1. n + 1 \in EntriesOf(j)'
          BY <2>1, <3>1 DEF EntriesOf
        <4> QED BY <4>1 DEF Queued
      <3>2. CASE j # k
        <4>1. Accepted(j) /\ ~Settled(j)
          BY <1>3, <2>5, <3>2, Parts, StaysSettled DEF Accepted
        <4>2. PICK e \in DOMAIN stream : stream[e].job = j /\ stream[e].state # "gone"
          BY <4>1, Parts DEF AcceptedNeverStranded, Queued, EntriesOf
        <4>3. e \in EntriesOf(j)'
          BY <2>1, <4>2 DEF EntriesOf
        <4> QED BY <4>3 DEF Queued
      <3> QED BY <3>1, <3>2
    <2> QED BY <2>3, <2>4, <2>5 DEF QueueInv, AcceptedNeverStranded
  <1> QED BY <1>5, <1>6

\* Receive leaves the entries of every job, and gives one to the worker.
LEMMA ReceiveQueue ==
    ASSUME Timely, IInv, SystemStep, NEW w \in Workers, NEW e \in DOMAIN stream,
           Receive(w, e) \/ ReceiveLost(w, e)
    PROVE  QueueInv'
  <1>1. /\ stream' = Becomes(e, "pending") /\ UNCHANGED <<store, api>>
        /\ stream[e].job \in Jobs /\ stream[e].state \in {"new", "pending"}
    BY NobodyHolds DEF Receive, ReceiveLost
  <1>2. /\ DOMAIN stream' = DOMAIN stream
        /\ stream'[e] = [job |-> stream[e].job, state |-> "pending"]
        /\ \A d \in DOMAIN stream : d # e => stream'[d] = stream[d]
    BY <1>1, Parts, BecomesEntries, LenProperties DEF States
  <1>3. \A d \in DOMAIN stream : stream'[d].job = stream[d].job /\ (Live(d)' <=> Live(d))
    BY <1>1, <1>2 DEF Live
  <1>4. EntryInv'
    <2>1. EntryInv
      BY Parts
    <2>2. \A c, d \in DOMAIN stream :
             Live(c)' /\ Live(d)' /\ stream'[c].job = stream'[d].job => c = d
      BY <1>3, <2>1 DEF EntryInv
    <2>3. \A d \in DOMAIN stream : Live(d)' => api'[stream'[d].job] \notin {"new", "stored"}
      BY <1>1, <1>3, <2>1 DEF EntryInv
    <2> QED BY <1>2, <2>2, <2>3 DEF EntryInv
  <1>5. ASSUME NEW v \in Workers, worker'[v] = worker[v], entry'[v] = entry[v]
        PROVE  WorkerEntry(v)'
    <2>1. WorkerEntry(v)
      BY Parts
    <2> QED BY <1>2, <1>5, <2>1 DEF WorkerEntry
  <1>6. ASSUME NEW v \in Workers PROVE WorkerEntry(v)'
    <2>1. CASE ReceiveLost(w, e)
      BY <1>5, <2>1 DEF ReceiveLost
    <2>2. CASE Receive(w, e) /\ v # w
      BY <1>5, <2>2, Parts DEF Receive, Received
    <2>3. CASE Receive(w, e) /\ v = w
      <3>1. entry'[v] = e /\ worker'[v].job = stream[e].job
        BY <2>3, Parts DEF Receive, Received
      <3> QED BY <1>2, <3>1 DEF WorkerEntry
    <2> QED BY <2>1, <2>2, <2>3
  <1>7. ASSUME NEW j \in Jobs, Accepted(j)', ~Settled(j)' PROVE Queued(j)'
    <2>1. Accepted(j) /\ ~Settled(j)
      BY <1>1, <1>7 DEF Accepted, Settled, Exists
    <2>2. PICK d \in DOMAIN stream : stream[d].job = j /\ stream[d].state # "gone"
      BY <2>1, Parts DEF AcceptedNeverStranded, Queued, EntriesOf
    <2>3. d \in EntriesOf(j)'
      BY <1>2, <1>3, <2>2 DEF EntriesOf, Live
    <2> QED BY <2>3 DEF Queued
  <1> QED BY <1>4, <1>6, <1>7 DEF QueueInv, AcceptedNeverStranded

\* A worker that ends its delivery removes at most the one entry of its job:
\* because the job is settled, or to add another.
LEMMA ReleaseQueue ==
    ASSUME IInv, SystemStep, NEW w \in Workers, worker[w].pc # "receive", Released(w),
           UNCHANGED <<store, api>>, entry' = [entry EXCEPT ![w] = 0],
           \/ UNCHANGED stream
           \/ worker[w].pc = "ack" /\ stream' = Becomes(entry[w], "gone")
           \/ stream' = XAdd(Becomes(entry[w], "gone"), worker[w].job)
    PROVE  QueueInv'
  <1>1. PICK n \in Nat : n = Len(stream)
    BY Parts
  <1>2. PICK k, g : k = worker[w].job /\ g = entry[w]
    OBVIOUS
  <1>3. /\ k \in Jobs /\ g \in DOMAIN stream
        /\ stream[g].job = k /\ Live(g)
        /\ api[k] \notin {"new", "stored"}
        /\ \A v \in Workers \ {w} : worker[v].job # k
        /\ worker[w].pc = "ack" => Settled(k)
    <2>1. WorkerEntry(w)
      BY Parts
    <2>2. /\ k \in Jobs /\ api[k] \notin {"new", "stored"} /\ Knows(w, k)
          /\ \A v \in Workers \ {w} : worker[v].job # k
      BY <1>2, Parts, Busy
    <2> QED BY <1>2, <2>1, <2>2 DEF WorkerEntry, Live, Knows
  <1>4. \A v \in Workers : /\ v = w => worker'[v].pc = "receive"
                           /\ v # w => worker'[v] = worker[v] /\ entry'[v] = entry[v]
    BY Parts DEF Released, Idle
  <1>5. CASE UNCHANGED stream
    <2>1. EntryInv' /\ AcceptedNeverStranded'
      BY <1>5, Parts DEF EntryInv, Live, AcceptedNeverStranded, Accepted, Settled, Exists,
                         Queued, EntriesOf
    <2>2. \A v \in Workers : WorkerEntry(v)'
      BY <1>4, <1>5, Parts DEF WorkerEntry
    <2> QED BY <2>1, <2>2 DEF QueueInv
  <1>6. CASE ~UNCHANGED stream
    <2>1. PICK left : left = Becomes(g, "gone")
      OBVIOUS
    <2>2. /\ left \in Seq(Entries) /\ Len(left) = n /\ DOMAIN left = 1..n
          /\ left[g].state = "gone"
          /\ \A e \in 1..n : e # g => left[e] = stream[e]
      <3>1. "gone" \in States
        BY DEF States
      <3>2. stream \in Seq(Entries) /\ DOMAIN stream = 1..n
        BY <1>1, Parts
      <3>3. /\ left \in Seq(Entries) /\ Len(left) = n
            /\ \A e \in DOMAIN stream : left[e] =
                  IF e = g THEN [job |-> stream[g].job, state |-> "gone"] ELSE stream[e]
        BY <1>1, <1>3, <2>1, <3>1, <3>2, BecomesEntries
      <3>4. DOMAIN left = 1..n
        BY <3>3, LenProperties
      <3> QED BY <1>3, <3>2, <3>3, <3>4
    <2>3. \/ stream' = left /\ DOMAIN stream' = 1..n /\ Settled(k)
          \/ /\ DOMAIN stream' = 1..(n + 1)
             /\ stream'[n + 1] = [job |-> k, state |-> "new"]
             /\ \A e \in 1..n : stream'[e] = left[e]
      <3>1. CASE stream' = left /\ worker[w].pc = "ack"
        BY <1>3, <2>2, <3>1
      <3>2. CASE stream' = XAdd(left, k)
        BY <1>3, <2>2, <3>2, XAddEntries, LenProperties
      <3> QED BY <1>2, <1>6, <2>1, <3>1, <3>2
    \* Afterwards the live entries are those of other jobs, and the new one.
    <2>4. /\ \A e \in 1..n : Live(e) /\ stream[e].job # k =>
                e \in DOMAIN stream' /\ stream'[e] = stream[e]
          /\ \A e \in DOMAIN stream' : Live(e)' =>
                \/ e \in 1..n /\ e # g /\ Live(e) /\ stream'[e] = stream[e]
                \/ e = n + 1 /\ e \notin 1..n /\ stream'[e] = [job |-> k, state |-> "new"]
      BY <1>3, <2>2, <2>3 DEF Live
    <2>5. DOMAIN stream = 1..n
      BY <1>1, Parts
    <2>6. \A e \in 1..n : Live(e) /\ e # g => stream[e].job # k
      BY <1>3, <2>5, Parts DEF EntryInv
    <2>7. EntryInv'
      <3>1. \A e \in DOMAIN stream' : Live(e)' => api[stream'[e].job] \notin {"new", "stored"}
        BY <1>3, <2>4, <2>5, Parts DEF EntryInv
      <3>2. ASSUME NEW d \in DOMAIN stream', NEW e \in DOMAIN stream', Live(d)', Live(e)',
                   stream'[d].job = stream'[e].job
            PROVE  d = e
        BY <2>4, <2>5, <2>6, <3>2, Parts DEF EntryInv
      <3> QED BY <3>1, <3>2 DEF EntryInv
    <2>8. ASSUME NEW v \in Workers PROVE WorkerEntry(v)'
      <3>1. CASE v = w
        BY <1>4, <3>1 DEF WorkerEntry
      <3>2. CASE v # w /\ worker[v].pc # "receive"
        <4>1. /\ entry[v] \in 1..n /\ stream[entry[v]].job = worker[v].job /\ Live(entry[v])
              /\ stream[entry[v]] = [job |-> worker[v].job, state |-> "pending"]
          BY <2>5, <3>2, Parts DEF WorkerEntry, Live
        <4>2. stream'[entry[v]] = stream[entry[v]] /\ entry[v] \in DOMAIN stream'
          BY <1>3, <2>4, <3>2, <4>1
        <4> QED BY <1>4, <3>2, <4>1, <4>2 DEF WorkerEntry
      <3> QED BY <1>4, <3>1, <3>2 DEF WorkerEntry
    <2>9. ASSUME NEW j \in Jobs, Accepted(j)', ~Settled(j)' PROVE Queued(j)'
      <3>1. Accepted(j) /\ ~Settled(j)
        BY <2>9 DEF Accepted, Settled, Exists
      <3>2. CASE j = k
        <4>1. n + 1 \in EntriesOf(j)'
          BY <2>3, <3>1, <3>2 DEF EntriesOf
        <4> QED BY <4>1 DEF Queued
      <3>3. CASE j # k
        <4>1. PICK e \in DOMAIN stream : stream[e].job = j /\ stream[e].state # "gone"
          BY <3>1, Parts DEF AcceptedNeverStranded, Queued, EntriesOf
        <4>2. e \in EntriesOf(j)'
          BY <2>4, <2>5, <3>3, <4>1 DEF EntriesOf, Live
        <4> QED BY <4>2 DEF Queued
      <3> QED BY <3>2, <3>3
    <2> QED BY <2>7, <2>8, <2>9 DEF QueueInv, AcceptedNeverStranded
  <1> QED BY <1>5, <1>6

\* Every step keeps the entries in order.
LEMMA NextQueue ==
    ASSUME Timely, IInv, [Next]_vars
    PROVE  QueueInv'
  <1>1. SystemStep
    BY NextSystem
  <1>2. ASSUME NEW j \in Jobs, RequestStep(j) PROVE QueueInv'
    <2>1. CASE Store(j) \/ RefuseGet(j) \/ RefuseSet(j)
      <3>1. UNCHANGED <<stream, entry, worker>>
        BY <2>1 DEF Store, RefuseGet, RefuseSet
      <3>2. \A k \in Jobs : /\ api'[k] \in {"new", "stored"} => api[k] \in {"new", "stored"}
                            /\ Accepted(k)' => Accepted(k)
        BY <2>1, Parts DEF Store, Submit, RefuseGet, RefuseSet, Accepted
      <3> QED BY <1>1, <3>1, <3>2, QueueFrame
    <2> QED BY <1>1, <1>2, <2>1, EnqueueQueue DEF RequestStep
  <1>3. ASSUME NEW w \in Workers, RedisStep(w) PROVE QueueInv'
    <2>1. worker[w].pc # "receive"
      BY <1>3, Parts
      DEF RedisStep, LoadFails, LoadSettled, LoadUnsettled, Process, UpdateGet, UpdateSet, Reading
    <2>2. \A v \in Workers : worker'[v].job = worker[v].job /\ (v # w => worker'[v] = worker[v])
      BY <1>3, Parts
      DEF RedisStep, LoadFails, LoadSettled, LoadUnsettled, Process, UpdateGet, UpdateSet, GoTo
    <2> QED BY <1>1, <1>3, <2>1, <2>2, QueueFrame DEF RedisStep, Accepted
  <1>4. ASSUME NEW w \in Workers, Ack(w) \/ Nack(w) PROVE QueueInv'
    BY <1>1, <1>4, ReleaseQueue DEF Ack, Nack
  <1>5. CASE Deaths
    <2>1. ASSUME NEW j \in Jobs, RequestDies(j), UNCHANGED <<worker, stream, entry>>
          PROVE  QueueInv'
      <3>1. \A k \in Jobs : /\ api'[k] \in {"new", "stored"} => api[k] \in {"new", "stored"}
                            /\ Accepted(k)' => Accepted(k)
        BY <2>1, Parts DEF RequestDies, Accepted
      <3> QED BY <1>1, <2>1, <3>1, QueueFrame
    <2>2. ASSUME NEW w \in Workers, WorkerDies(w), entry' = [entry EXCEPT ![w] = 0],
                 UNCHANGED <<api, stream>>
          PROVE  QueueInv'
      BY <1>1, <2>2, ReleaseQueue DEF WorkerDies
    <2> QED BY <1>5, <2>1, <2>2 DEF Deaths
  <1>6. CASE \E j \in Jobs : Expire(j)
    BY <1>1, <1>6, QueueFrame DEF Expire, Accepted
  <1>7. CASE UNCHANGED vars
    BY <1>1, <1>7, QueueFrame DEF vars, redis, Accepted
  <1> QED
    BY <1>1, <1>2, <1>3, <1>4, <1>5, <1>6, <1>7, ReceiveQueue DEF Next, HandleStep

-----------------------------------------------------------------------------
\* What an unfinished Update of a worker has read belongs to the job it holds.
LEMMA Reader ==
    ASSUME IInv, NEW w \in Workers, read[w] # ErrNotFound
    PROVE  /\ worker[w].job \in Jobs /\ worker[w].pc \in {"mark", "complete"}
           /\ api[worker[w].job] \notin {"new", "stored"}
           /\ Exists(worker[w].job)
           /\ Accepted(worker[w].job) => read[w] = store[worker[w].job]
           /\ \A v \in Workers \ {w} : worker[v].job # worker[w].job
  <1>1. worker[w].pc \in {"mark", "complete"}
    BY Parts DEF Reading
  <1> QED BY <1>1, Parts, Busy DEF ReadInv

\* Steps that leave the records alone, and read none.
LEMMA ReadFrame ==
    ASSUME IInv, UNCHANGED <<store, ttl>>,
           \A x \in Jobs \cup Workers : read'[x] \in {read[x], ErrNotFound},
           \A w \in Workers : read'[w] # ErrNotFound => worker'[w].job = worker[w].job,
           \A j \in Jobs : Accepted(j)' => Accepted(j) \/ api[j] = "stored"
    PROVE  ReadInv' /\ RecordsExpire'
  <1>1. RecordsExpire'
    BY Parts DEF RecordsExpire, Exists
  <1>2. ASSUME NEW j \in Jobs, read'[j] # ErrNotFound PROVE Exists(j)'
    BY <1>2, Parts DEF ReadInv, Exists
  <1>3. ASSUME NEW w \in Workers, read'[w] # ErrNotFound
        PROVE  /\ Exists(worker[w].job)'
               /\ worker'[w].job = worker[w].job
               /\ Accepted(worker[w].job)' => read'[w] = store'[worker[w].job]
    <2>1. read'[w] = read[w] /\ read[w] # ErrNotFound
      BY <1>3
    <2> QED BY <1>3, <2>1, Reader DEF Exists
  <1> QED BY <1>1, <1>2, <1>3 DEF ReadInv, Exists, Accepted

\* Steps that write one record, after which nobody is left with an older one.
LEMMA WriteFrame ==
    ASSUME IInv, NEW k \in Jobs, UNCHANGED worker,
           \A j \in Jobs \ {k} : store'[j] = store[j] /\ api'[j] = api[j],
           \A x \in Jobs \cup Workers : read'[x] \in {read[x], ErrNotFound},
           Exists(k)' \/ read'[k] = ErrNotFound,
           \A w \in Workers : read'[w] # ErrNotFound /\ worker[w].job = k =>
                                 Exists(k)' /\ ~Accepted(k)',
           ttl \ {k} \subseteq ttl', Exists(k)' => k \in ttl'
    PROVE  ReadInv' /\ RecordsExpire'
  <1>1. RecordsExpire'
    BY Parts DEF RecordsExpire, Exists
  <1>2. ASSUME NEW j \in Jobs, read'[j] # ErrNotFound PROVE Exists(j)'
    BY <1>2, Parts DEF ReadInv, Exists
  <1>3. ASSUME NEW w \in Workers, read'[w] # ErrNotFound
        PROVE  /\ Exists(worker[w].job)'
               /\ Accepted(worker[w].job)' => read'[w] = store'[worker[w].job]
    <2>1. read'[w] = read[w] /\ read[w] # ErrNotFound
      BY <1>3
    <2>2. CASE worker[w].job = k
      BY <1>3, <2>2
    <2>3. CASE worker[w].job # k
      BY <2>1, <2>3, Reader DEF Exists, Accepted
    <2> QED BY <2>2, <2>3
  <1> QED BY <1>1, <1>2, <1>3 DEF ReadInv, Exists, Accepted

\* No Update that has read a record loses it, and every record has its TTL.
LEMMA NextReads ==
    ASSUME Timely, IInv, [Next]_vars
    PROVE  ReadInv' /\ RecordsExpire'
  <1>1. /\ store \in [Jobs -> JobRecord \cup {ErrNotFound}]
        /\ api \in [Jobs -> Requests]
        /\ worker \in [Workers -> [pc : Steps, job : Jobs \cup {NoJob}, ok : BOOLEAN]]
        /\ read \in [Jobs \cup Workers -> JobRecord \cup {ErrNotFound}]
        /\ ReadInv /\ RecordsExpire /\ Reading
    BY Parts
  <1>2. ASSUME NEW j \in Jobs, RequestStep(j) PROVE ReadInv' /\ RecordsExpire'
    <2>1. CASE Store(j)
      <3>1. /\ api[j] = "new" /\ UNCHANGED <<worker, read>>
            /\ \A k \in Jobs \ {j} : store'[k] = store[k] /\ api'[k] = api[k]
        BY <1>1, <2>1 DEF Store, Submit, Create
      <3>2. read'[j] = ErrNotFound
        BY <1>1, <3>1 DEF Reading
      <3>3. \A w \in Workers : read'[w] # ErrNotFound => worker[w].job # j
        BY <3>1, Reader
      <3>4. ttl \ {j} \subseteq ttl' /\ (Exists(j)' => j \in ttl')
        BY <2>1 DEF Store
      <3> QED BY <3>1, <3>2, <3>3, <3>4, WriteFrame
    <2>2. CASE Enqueue(j)
      BY <1>1, <2>2, ReadFrame DEF Enqueue, Enqueued, Accepted
    <2>3. CASE RefuseGet(j)
      <3>1. CASE UNCHANGED read
        BY <1>1, <2>3, <3>1, ReadFrame DEF RefuseGet, Accepted
      <3>2. CASE ~UNCHANGED read
        <4>1. /\ Exists(j) /\ read' = [read EXCEPT ![j] = store[j]]
              /\ UNCHANGED <<store, api, worker, ttl>>
          BY <2>3, <3>2 DEF RefuseGet
        <4>2. \A w \in Workers : read'[w] = read[w]
          BY <1>1, <4>1, RedisAssumption
        <4> QED BY <1>1, <4>1, <4>2 DEF ReadInv, RecordsExpire, Exists, Accepted
      <3> QED BY <3>1, <3>2
    <2>4. CASE RefuseSet(j)
      <3>1. /\ read[j] # ErrNotFound /\ UNCHANGED <<worker, ttl>>
            /\ api' = [api EXCEPT ![j] = "refused"]
            /\ read' = [read EXCEPT ![j] = ErrNotFound]
            /\ \A k \in Jobs \ {j} : store'[k] = store[k]
        BY <1>1, <2>4 DEF RefuseSet, Set
      <3>2. Exists(j) /\ j \in ttl
        BY <1>1, <3>1 DEF ReadInv, RecordsExpire
      <3>3. Exists(j)'
        <4>1. PICK outcome \in Outcomes : Set(j, j, QueueUnavailable, outcome)
          BY <2>4 DEF RefuseSet
        <4> QED BY <3>1, <3>2, <4>1, ApplyType, SetType, Parts DEF IInv, Typed
      <3>4. /\ read'[j] = ErrNotFound /\ ~Accepted(j)'
            /\ \A x \in Jobs \cup Workers : read'[x] \in {read[x], ErrNotFound}
            /\ \A k \in Jobs \ {j} : api'[k] = api[k]
        BY <1>1, <3>1 DEF Accepted
      <3> QED BY <3>1, <3>2, <3>3, <3>4, WriteFrame
    <2> QED BY <1>2, <2>1, <2>2, <2>3, <2>4 DEF RequestStep
  <1>3. ASSUME NEW w \in Workers, RedisStep(w) PROVE ReadInv' /\ RecordsExpire'
    <2>1. /\ UNCHANGED api
          /\ \A v \in Workers : worker'[v].job = worker[v].job
      BY <1>1, <1>3
      DEF RedisStep, LoadFails, LoadSettled, LoadUnsettled, Process, UpdateGet, UpdateSet, GoTo
    <2>2. CASE UNCHANGED <<store, read, ttl>>
      BY <1>1, <2>1, <2>2, ReadFrame DEF Accepted
    <2>3. CASE UpdateGet(w) /\ ~UNCHANGED read
      <3>1. /\ Exists(worker[w].job)
            /\ read' = [read EXCEPT ![w] = store[worker[w].job]]
            /\ UNCHANGED <<store, worker, ttl>>
        BY <2>3 DEF UpdateGet
      <3>2. /\ read'[w] = store[worker[w].job]
            /\ \A x \in (Jobs \cup Workers) \ {w} : read'[x] = read[x]
        BY <1>1, <3>1
      <3>3. w \notin Jobs
        BY RedisAssumption
      <3> QED BY <1>1, <2>1, <3>1, <3>2, <3>3 DEF ReadInv, RecordsExpire, Exists, Accepted
    <2>4. CASE UpdateSet(w)
      <3>1. PICK k : k = worker[w].job
        OBVIOUS
      <3>2. /\ k \in Jobs /\ Exists(k) /\ k \in ttl
            /\ \A v \in Workers \ {w} : worker[v].job # k
        BY <1>1, <2>4, <3>1, Reader DEF UpdateSet, RecordsExpire
      <3>3. PICK update \in {MarkRunning, Completion(worker[w].ok)}, outcome \in Outcomes :
               Set(w, k, update, outcome)
        BY <2>4, <3>1 DEF UpdateSet
      <3>4. \A job \in JobRecord : Apply(job, update) \in JobRecord
        BY <1>1, <3>3, ApplyType
      <3>5. Exists(k)'
        BY <2>4, <3>2, <3>3, <3>4, SetType DEF UpdateSet, IInv, Typed
      <3>6. /\ read' = [read EXCEPT ![w] = ErrNotFound] /\ UNCHANGED ttl
            /\ \A j \in Jobs \ {k} : store'[j] = store[j]
        BY <1>1, <3>3 DEF Set
      <3>7. /\ read'[w] = ErrNotFound
            /\ \A x \in Jobs \cup Workers : read'[x] \in {read[x], ErrNotFound}
        BY <1>1, <3>6
      <3>8. \A v \in Workers : read'[v] # ErrNotFound => worker[v].job # k
        BY <3>2, <3>7
      <3>9. RecordsExpire'
        BY <1>1, <3>2, <3>6 DEF RecordsExpire, Exists
      <3>10. ASSUME NEW j \in Jobs, read'[j] # ErrNotFound PROVE Exists(j)'
        BY <1>1, <3>5, <3>6, <3>7, <3>10 DEF ReadInv, Exists
      <3>11. ASSUME NEW v \in Workers, read'[v] # ErrNotFound
             PROVE  /\ Exists(worker[v].job)'
                    /\ Accepted(worker[v].job)' => read'[v] = store'[worker[v].job]
        <4>1. read'[v] = read[v] /\ worker[v].job \in Jobs \ {k}
          BY <3>7, <3>8, <3>11, Reader
        <4> QED BY <2>1, <3>6, <3>11, <4>1, Reader DEF Exists, Accepted
      <3> QED BY <2>1, <3>9, <3>10, <3>11 DEF ReadInv, Exists, Accepted
    <2> QED BY <1>3, <2>2, <2>3, <2>4
        DEF RedisStep, LoadFails, LoadSettled, LoadUnsettled, Process, UpdateGet
  <1>4. ASSUME NEW w \in Workers, Released(w), UNCHANGED <<store, api, ttl>>,
               \/ read' = [read EXCEPT ![w] = ErrNotFound]
               \/ worker[w].pc \in {"ack", "nack"} /\ UNCHANGED read
        PROVE  ReadInv' /\ RecordsExpire'
    <2>1. /\ read'[w] = ErrNotFound
          /\ \A x \in Jobs \cup Workers : read'[x] \in {read[x], ErrNotFound}
      BY <1>1, <1>4 DEF Reading
    <2>2. \A v \in Workers \ {w} : worker'[v] = worker[v]
      BY <1>1, <1>4 DEF Released
    <2> QED BY <1>4, <2>1, <2>2, ReadFrame DEF Accepted
  <1>5. ASSUME NEW w \in Workers, NEW e \in DOMAIN stream, Receive(w, e) \/ ReceiveLost(w, e)
        PROVE  ReadInv' /\ RecordsExpire'
    <2>1. read[w] = ErrNotFound /\ UNCHANGED <<store, api, read, ttl>>
      BY <1>1, <1>5 DEF Receive, ReceiveLost, Received, Reading
    <2>2. \A v \in Workers \ {w} : worker'[v] = worker[v]
      BY <1>1, <1>5 DEF Receive, ReceiveLost, Received
    <2> QED BY <2>1, <2>2, ReadFrame DEF Accepted
  <1>6. CASE Deaths
    <2>1. ASSUME NEW j \in Jobs, RequestDies(j), read' = [read EXCEPT ![j] = ErrNotFound],
                 UNCHANGED <<worker, stream, entry, ttl>>
          PROVE  ReadInv' /\ RecordsExpire'
      BY <1>1, <2>1, ReadFrame DEF RequestDies, Accepted
    <2> QED BY <1>4, <1>6, <2>1 DEF Deaths, WorkerDies
  <1>7. ASSUME NEW j \in Jobs, Expire(j) PROVE ReadInv' /\ RecordsExpire'
    <2>1. /\ read[j] = ErrNotFound
          /\ \A w \in Workers : worker[w].job = j => read[w] = ErrNotFound
      BY <1>7 DEF Timely, Expire, Updating, Holds
    <2>2. /\ \A k \in Jobs \ {j} : store'[k] = store[k] /\ api'[k] = api[k]
          /\ UNCHANGED <<worker, read>> /\ ~Exists(j)'
          /\ ttl \ {j} \subseteq ttl'
      BY <1>1, <1>7 DEF Expire, Exists
    <2> QED BY <2>1, <2>2, WriteFrame
  <1>8. CASE UNCHANGED vars
    BY <1>8, ReadFrame DEF vars, redis, Accepted
  <1> QED
    BY <1>2, <1>3, <1>4, <1>5, <1>6, <1>7, <1>8 DEF Next, HandleStep, Ack, Nack

-----------------------------------------------------------------------------
LEMMA InitIInv == Init => IInv
  <1> SUFFICES ASSUME Init PROVE IInv
    OBVIOUS
  <1>1. Typed /\ SystemInv
    BY InitType, SystemInit DEF Init
  <1>2. DOMAIN stream = {}
    BY EmptySeq DEF Init
  <1>3. /\ \A w \in Workers : worker[w].pc = "receive"
        /\ \A j \in Jobs : ~Accepted(j) /\ ~Exists(j)
        /\ \A x \in Jobs \cup Workers : read[x] = ErrNotFound
    BY DEF Init, SchedulerInit, Idle, IntakeInit, StoreInit, Accepted, Exists
  <1> QED
    BY <1>1, <1>2, <1>3
    DEF IInv, QueueInv, EntryInv, WorkerEntry, AcceptedNeverStranded, ReadInv, RecordsExpire

LEMMA NextIInv == Timely /\ IInv /\ [Next]_vars => IInv'
  <1> SUFFICES ASSUME Timely, IInv, [Next]_vars PROVE IInv'
    OBVIOUS
  <1>1. Typed' /\ SystemInv'
    BY NextType, NextSystem, SystemStepInv, Parts DEF IInv
  <1> QED BY <1>1, NextQueue, NextReads DEF IInv

\* The types hold in every behaviour, with any entry reclaimed and any key
\* expiring.
THEOREM TypeCorrect == Spec => []TypeOK
  <1>1. Typed => TypeOK
    BY DEF Typed
  <1> QED BY <1>1, InitType, NextType, PTL DEF Spec

\* The inductive invariant holds while entries are reclaimed from dead workers
\* only and no key expires inside an Update.
THEOREM Invariant == ASSUME Timely PROVE Spec => []IInv
  BY InitIInv, NextIInv, PTL DEF Spec

\* A worker's entry is the only one of its job (Receive and the Nack script).
THEOREM Exclusive == ASSUME Timely PROVE Spec => []ExclusiveDelivery
  <1>1. IInv => ExclusiveDelivery
    <2> SUFFICES ASSUME IInv, NEW w \in Workers, NEW j \in Jobs, Holds(w, j)
                 PROVE  /\ EntriesOf(j) = {entry[w]}
                        /\ stream[entry[w]].state = "pending"
                        /\ \A v \in Workers \ {w} : ~Holds(v, j)
      BY DEF ExclusiveDelivery
    <2>1. JobInv(j) /\ worker[w].pc # "receive"
      BY Parts, NoJobAssumption DEF SystemInv, IdleHoldsNothing, Holds
    <2>2. /\ entry[w] \in DOMAIN stream
          /\ stream[entry[w]].job = j /\ stream[entry[w]].state = "pending"
      <3>1. WorkerEntry(w)
        BY Parts
      <3> QED BY <2>1, <3>1 DEF WorkerEntry, Holds
    <2>3. EntriesOf(j) = {entry[w]}
      BY <2>2, Parts DEF EntriesOf, EntryInv, Live
    <2> QED BY <2>1, <2>2, <2>3 DEF JobInv
  <1> QED BY <1>1, Invariant, PTL

\* A job answered 202 has an entry until it is settled (create and handle).
THEOREM NeverStranded == ASSUME Timely PROVE Spec => []AcceptedNeverStranded
  <1>1. IInv => AcceptedNeverStranded
    BY Parts
  <1> QED BY <1>1, Invariant, PTL

\* Every record keeps its TTL (Create's EX and Update's KEEPTTL).
THEOREM RecordsKeepTTL == ASSUME Timely PROVE Spec => []RecordsExpire
  <1>1. IInv => RecordsExpire
    BY DEF IInv
  <1> QED BY <1>1, Invariant, PTL

\* Although an Update is a GET and a SET, the system is one of requests, workers
\* and a store as JobSystemProofs describes them ...
THEOREM RefinesSystem == ASSUME Timely PROVE Spec => SystemSpec
  <1>1. Init => StoreInit /\ IntakeInit /\ SchedulerInit
    BY DEF Init
  <1>2. Timely /\ IInv /\ [Next]_vars => [SystemStep]_<<store, faults, api, worker>>
    BY NextSystem
  <1> QED BY <1>1, <1>2, Invariant, PTL DEF Spec, SystemSpec

\* ... and so implements the life cycle of a job.
THEOREM Refinement == ASSUME Timely PROVE Spec => ImplementsLifecycle
  BY RefinesSystem, SystemLifecycle DEF ImplementsLifecycle

-----------------------------------------------------------------------------
\* What holds of the entries of one job when entries are taken from busy workers
\* and keys expire anywhere, but no call fails.
CalmEntry(j) ==
    /\ \A e \in DOMAIN stream : Live(e) /\ stream[e].job = j => Accepted(j)
    /\ \A w \in Workers : Holds(w, j) /\ worker[w].pc # "receive" =>
          entry[w] \in DOMAIN stream /\ stream[entry[w]].job = j
    /\ Accepted(j) /\ Waiting(j) => Queued(j)

CalmIInv == Typed /\ \A j \in Jobs : CalmInv(j) /\ CalmEntry(j)

\* Without failed calls every step is a CalmStep.
LEMMA NextCalm ==
    ASSUME MaxFaults = 0, CalmIInv, [Next]_vars
    PROVE  CalmStep
  <1>1. /\ SystemTypeOK /\ Reading
        /\ store \in [Jobs -> JobRecord \cup {ErrNotFound}]
        /\ read \in [Jobs \cup Workers -> JobRecord \cup {ErrNotFound}]
        /\ stream \in Seq(Entries) /\ DOMAIN stream = 1..Len(stream)
    BY Types DEF CalmIInv, Typed
  <1>2. ~(faults < MaxFaults)
    BY <1>1 DEF SystemTypeOK, StoreTypeOK
  <1>3. \A j \in Jobs : read[j] = ErrNotFound /\ api[j] # "unqueued"
    BY <1>1 DEF CalmIInv, CalmInv, Reading
  <1>4. ASSUME NEW j \in Jobs, RequestStep(j) PROVE CalmStep
    <2>1. CASE Store(j)
      <3>1. PICK outcome \in Outcomes :
               /\ Create(j, outcome)
               /\ api' = [api EXCEPT ![j] = IF outcome = "ok" THEN "stored" ELSE "unstored"]
        BY <2>1 DEF Store, Submit
      <3>2. outcome = "ok"
        BY <1>1, <3>1, NoFault DEF Create
      <3> QED BY <2>1, <3>1, <3>2 DEF CalmStep, Create, Store, Submit
    <2>2. CASE Enqueue(j)
      <3>1. PICK outcome \in Outcomes : Enqueued(j, outcome) /\ CallEnds(outcome)
        BY <2>2 DEF Enqueue
      <3>2. outcome = "ok"
        BY <1>1, <3>1, NoFault
      <3> QED BY <2>2, <3>1, <3>2 DEF CalmStep, Enqueue
    <2>3. CASE RefuseGet(j) \/ RefuseSet(j)
      BY <1>3, <2>3 DEF RefuseGet, RefuseSet
    <2> QED BY <1>4, <2>1, <2>2, <2>3 DEF RequestStep
  <1>5. ASSUME NEW w \in Workers, RedisStep(w) PROVE CalmStep
    <2>1. CASE LoadFails(w)
      BY <1>2, <2>1 DEF LoadFails, CallEnds
    <2>2. CASE LoadSettled(w) \/ LoadUnsettled(w) \/ Process(w)
      BY <1>5, <2>2 DEF RedisStep, CalmStep, CalmWork
    <2>3. CASE UpdateGet(w)
      <3>1. CASE UNCHANGED worker
        BY <1>5, <2>3, <3>1 DEF RedisStep, UpdateGet, CalmStep
      <3>2. CASE GoTo(w, "nack") /\ (Exists(worker[w].job) => CallEnds("lost"))
        <4>1. ~Exists(worker[w].job)
          BY <1>2, <3>2 DEF CallEnds
        <4> QED BY <1>5, <2>3, <3>2, <4>1 DEF RedisStep, UpdateGet, CalmStep, CalmWork
      <3> QED BY <2>3, <3>1, <3>2 DEF UpdateGet
    <2>4. CASE UpdateSet(w)
      <3>1. read[w] \in JobRecord /\ worker[w].pc \in {"mark", "complete"}
        BY <1>1, <2>4 DEF UpdateSet, Reading
      <3>2. CASE worker[w].pc = "mark"
        <4>1. PICK outcome \in Outcomes :
                 /\ Set(w, worker[w].job, MarkRunning, outcome)
                 /\ GoTo(w, IF outcome = "ok" THEN "process" ELSE "nack")
          BY <2>4, <3>2 DEF UpdateSet
        <4>2. outcome = "ok"
          BY <1>1, <4>1, NoFault DEF Set
        <4>3. CalmWork(w)
          BY <3>1, <3>2, <4>1, <4>2 DEF Set, CalmWork
        <4> QED BY <1>5, <4>3 DEF RedisStep, CalmStep
      <3>3. CASE worker[w].pc = "complete"
        <4>1. PICK outcome \in Outcomes :
                 /\ Set(w, worker[w].job, Completion(worker[w].ok), outcome)
                 /\ GoTo(w, IF outcome = "ok" THEN "ack" ELSE "nack")
          BY <2>4, <3>3 DEF UpdateSet
        <4>2. outcome = "ok"
          BY <1>1, <4>1, NoFault DEF Set
        <4>3. CalmWork(w)
          BY <3>1, <3>3, <4>1, <4>2 DEF Set, CalmWork
        <4> QED BY <1>5, <4>3 DEF RedisStep, CalmStep
      <3> QED BY <3>1, <3>2, <3>3
    <2> QED BY <1>5, <2>1, <2>2, <2>3, <2>4 DEF RedisStep
  <1>6. ASSUME NEW w \in Workers, Ack(w) \/ Nack(w) PROVE CalmStep
    BY <1>6 DEF Ack, Nack, CalmWork, CalmStep
  <1>7. ASSUME NEW w \in Workers, NEW e \in DOMAIN stream, Receive(w, e) PROVE CalmStep
    <2>1. stream[e].job \in Jobs
      <3>1. stream[e] \in Entries
        BY <1>1, ElementOfSeq
      <3> QED BY <3>1 DEF Entries
    <2>2. Live(e)
      BY <1>7 DEF Receive, NextNew, Reclaimable, Live
    <2> QED BY <1>7, <2>1, <2>2 DEF Receive, CalmIInv, CalmEntry, CalmStep
  <1>8. ASSUME NEW w \in Workers, NEW e \in DOMAIN stream, ReceiveLost(w, e) PROVE FALSE
    BY <1>2, <1>8 DEF ReceiveLost, CallEnds
  <1>9. CASE Deaths
    BY <1>2, <1>9 DEF Deaths, RequestDies, WorkerDies
  <1>10. ASSUME NEW j \in Jobs, Expire(j) PROVE CalmStep
    BY <1>1, <1>10 DEF Expire, CalmStep
  <1>11. CASE UNCHANGED vars
    BY <1>11 DEF vars, CalmStep
  <1> QED
    BY <1>4, <1>5, <1>6, <1>7, <1>8, <1>9, <1>10, <1>11 DEF Next, HandleStep

\* What a step must do to the stream to keep what holds of one job's entries.
LEMMA CalmFrame ==
    ASSUME CalmIInv, NEW j \in Jobs, Accepted(j) => Accepted(j)',
           \A e \in DOMAIN stream : e \in DOMAIN stream' /\ stream'[e].job = stream[e].job,
           \A e \in DOMAIN stream' : Live(e)' /\ stream'[e].job = j =>
              (e \in DOMAIN stream /\ Live(e)) \/ Accepted(j)',
           \A w \in Workers : worker'[w].pc # "receive" =>
              \/ /\ worker[w].pc # "receive"
                 /\ worker'[w].job = worker[w].job /\ entry'[w] = entry[w]
              \/ entry'[w] \in DOMAIN stream /\ stream[entry'[w]].job = worker'[w].job,
           Accepted(j)' /\ Waiting(j)' => Queued(j)'
    PROVE  CalmEntry(j)'
  <1>1. CalmEntry(j)
    BY DEF CalmIInv
  <1>2. \A e \in DOMAIN stream' : Live(e)' /\ stream'[e].job = j => Accepted(j)'
    BY <1>1 DEF CalmEntry
  <1>3. ASSUME NEW w \in Workers, Holds(w, j)', worker'[w].pc # "receive"
        PROVE  entry'[w] \in DOMAIN stream' /\ stream'[entry'[w]].job = j
    <2>1. entry'[w] \in DOMAIN stream /\ stream[entry'[w]].job = j
      BY <1>1, <1>3 DEF CalmEntry, Holds
    <2> QED BY <2>1
  <1> QED BY <1>2, <1>3 DEF CalmEntry

\* An entry leaves the stream only by the Ack of a worker that was given it.
LEMMA CalmNext == MaxFaults = 0 /\ CalmIInv /\ [Next]_vars => CalmIInv'
  <1> SUFFICES ASSUME MaxFaults = 0, CalmIInv, [Next]_vars PROVE CalmIInv'
    OBVIOUS
  <1>1. /\ TypeOK /\ Typed /\ SystemTypeOK /\ BusyHasJob /\ Reading
        /\ api \in [Jobs -> Requests]
        /\ worker \in [Workers -> [pc : Steps, job : Jobs \cup {NoJob}, ok : BOOLEAN]]
        /\ stream \in Seq(Entries) /\ DOMAIN stream = 1..Len(stream) /\ Len(stream) \in Nat
        /\ entry \in [Workers -> 0..Len(stream)]
    BY Types DEF CalmIInv, Typed
  <1>2. CalmStep
    BY NextCalm
  <1>3. ASSUME NEW j \in Jobs PROVE CalmInv(j)' /\ CalmEntry(j)'
    <2>1. CalmInv(j) /\ CalmEntry(j)
      BY DEF CalmIInv
    <2>2. /\ CalmInv(j)'
          /\ Accepted(j)' /\ Waiting(j)' => api[j] = "stored" \/ (Accepted(j) /\ Waiting(j))
      BY <1>1, <1>2, <2>1, CalmStepInv
    \* Steps that leave the stream alone, and accept no job.
    <2>3. ASSUME UNCHANGED <<stream, entry>>, Accepted(j)' <=> Accepted(j),
                 \A w \in Workers : worker'[w].pc # "receive" =>
                    worker[w].pc # "receive" /\ worker'[w].job = worker[w].job
          PROVE  CalmEntry(j)'
      <3>1. Accepted(j)' /\ Waiting(j)' => Queued(j)'
        BY <2>1, <2>2, <2>3 DEF CalmEntry, Accepted, Queued, EntriesOf
      <3> QED BY <2>3, <3>1, CalmFrame DEF Live
    \* Steps that change the state of one entry, and may add one of another job.
    <2>4. ASSUME NEW e \in DOMAIN stream, UNCHANGED api,
                 DOMAIN stream \subseteq DOMAIN stream', stream'[e].job = stream[e].job,
                 \A d \in DOMAIN stream \ {e} : stream'[d] = stream[d],
                 \A d \in DOMAIN stream' \ DOMAIN stream :
                    stream'[d].job = j => Accepted(j) /\ stream'[d].state # "gone",
                 Live(e)' => Live(e),
                 stream[e].job = j /\ Live(e) =>
                    \/ Live(e)' \/ ~Waiting(j)
                    \/ \E d \in DOMAIN stream' : stream'[d] = [job |-> j, state |-> "new"],
                 \A w \in Workers : worker'[w].pc # "receive" =>
                    \/ /\ worker[w].pc # "receive"
                       /\ worker'[w].job = worker[w].job /\ entry'[w] = entry[w]
                    \/ entry'[w] = e /\ worker'[w].job = stream[e].job
          PROVE  CalmEntry(j)'
      <3>1. ASSUME Accepted(j)', Waiting(j)' PROVE Queued(j)'
        <4>1. Accepted(j) /\ Waiting(j)
          BY <2>2, <2>4, <3>1 DEF Accepted
        <4>2. PICK d \in DOMAIN stream : stream[d].job = j /\ Live(d)
          BY <2>1, <4>1 DEF CalmEntry, Queued, EntriesOf, Live
        <4>3. \E c \in DOMAIN stream' : stream'[c].job = j /\ stream'[c].state # "gone"
          BY <2>4, <4>1, <4>2 DEF Live
        <4> QED BY <4>3 DEF Queued, EntriesOf
      <3>2. \A d \in DOMAIN stream' : Live(d)' /\ stream'[d].job = j =>
               (d \in DOMAIN stream /\ Live(d)) \/ Accepted(j)'
        BY <2>4 DEF Live, Accepted
      <3> QED BY <2>4, <3>1, <3>2, CalmFrame DEF Accepted
    <2>5. ASSUME NEW k \in Jobs, RequestStep(k) PROVE CalmEntry(j)'
      <3>1. CASE Store(k)
        BY <1>1, <2>3, <3>1 DEF Store, Submit, Accepted
      <3>2. CASE Enqueue(k)
        <4>1. PICK outcome \in Outcomes :
                 /\ Enqueued(k, outcome) /\ CallEnds(outcome)
                 /\ stream' = IF outcome = "lost" THEN stream ELSE XAdd(stream, k)
          BY <3>2 DEF Enqueue
        <4>2. outcome = "ok"
          BY <1>1, <4>1, NoFault
        <4>3. PICK n \in Nat : n = Len(stream)
          BY <1>1
        <4>4. /\ api' = [api EXCEPT ![k] = "accepted"] /\ UNCHANGED <<worker, entry>>
              /\ DOMAIN stream = 1..n /\ DOMAIN stream' = 1..(n + 1)
              /\ stream'[n + 1] = [job |-> k, state |-> "new"]
              /\ \A e \in 1..n : stream'[e] = stream[e]
          <5>1. /\ api' = [api EXCEPT ![k] = "accepted"] /\ UNCHANGED <<worker, entry>>
                /\ stream' = XAdd(stream, k)
            BY <3>2, <4>1, <4>2 DEF Enqueue, Enqueued
          <5>2. /\ stream' \in Seq(Entries) /\ Len(stream') = n + 1
                /\ stream'[n + 1] = [job |-> k, state |-> "new"]
                /\ \A e \in DOMAIN stream : stream'[e] = stream[e]
            BY <1>1, <4>3, <5>1, XAddEntries
          <5> QED BY <1>1, <4>3, <5>1, <5>2, LenProperties
        <4>5. /\ Accepted(j) => Accepted(j)'
              /\ Accepted(j)' => Accepted(j) \/ j = k
              /\ Accepted(k)'
          BY <1>1, <4>4 DEF Accepted
        <4>6. /\ \A e \in DOMAIN stream : e \in DOMAIN stream' /\ stream'[e] = stream[e]
              /\ \A e \in DOMAIN stream' : e \in DOMAIN stream \/ e = n + 1
              /\ n + 1 \in DOMAIN stream'
          BY <4>4
        <4>7. ASSUME Accepted(j)', Waiting(j)' PROVE Queued(j)'
          <5>1. CASE j = k
            <6>1. n + 1 \in EntriesOf(j)'
              BY <4>4, <4>6, <5>1 DEF EntriesOf
            <6> QED BY <6>1 DEF Queued
          <5>2. CASE j # k
            <6>1. Waiting(j)
              BY <1>1, <3>2, <4>7 DEF Enqueue, Enqueued, Waiting, Exists
            <6>2. PICK d \in DOMAIN stream : stream[d].job = j /\ stream[d].state # "gone"
              BY <2>1, <4>5, <4>7, <5>2, <6>1 DEF CalmEntry, Queued, EntriesOf
            <6>3. d \in EntriesOf(j)'
              BY <4>6, <6>2 DEF EntriesOf
            <6> QED BY <6>3 DEF Queued
          <5> QED BY <5>1, <5>2
        <4>8. \A e \in DOMAIN stream' : Live(e)' /\ stream'[e].job = j =>
                 (e \in DOMAIN stream /\ Live(e)) \/ Accepted(j)'
          BY <4>4, <4>5, <4>6 DEF Live
        <4> QED BY <4>4, <4>5, <4>6, <4>7, <4>8, CalmFrame
      <3>3. CASE RefuseGet(k) \/ RefuseSet(k)
        BY <1>1, <3>3 DEF RefuseGet, RefuseSet, CalmIInv, CalmInv, Reading
      <3> QED BY <2>5, <3>1, <3>2, <3>3 DEF RequestStep
    <2>6. ASSUME NEW w \in Workers, RedisStep(w) PROVE CalmEntry(j)'
      <3>1. worker[w].pc # "receive"
        BY <1>1, <2>6
        DEF RedisStep, LoadFails, LoadSettled, LoadUnsettled, Process, UpdateGet, UpdateSet, Reading
      <3>2. \A v \in Workers : worker'[v].job = worker[v].job /\ (v # w => worker'[v] = worker[v])
        BY <1>1, <2>6
        DEF RedisStep, LoadFails, LoadSettled, LoadUnsettled, Process, UpdateGet, UpdateSet, GoTo
      <3> QED BY <2>3, <2>6, <3>1, <3>2 DEF RedisStep, Accepted
    <2>7. ASSUME NEW w \in Workers, Ack(w) \/ Nack(w) PROVE CalmEntry(j)'
      <3>1. PICK k, g : k = worker[w].job /\ g = entry[w]
        OBVIOUS
      <3>2. /\ worker[w].pc \in {"ack", "nack"} /\ Released(w) /\ UNCHANGED api
            /\ entry' = [entry EXCEPT ![w] = 0]
            /\ \/ UNCHANGED stream
               \/ worker[w].pc = "ack" /\ stream' = Becomes(g, "gone")
               \/ stream' = XAdd(Becomes(g, "gone"), k)
        BY <2>7, <3>1 DEF Ack, Nack
      <3>3. k \in Jobs /\ Accepted(k) /\ g \in DOMAIN stream /\ stream[g].job = k
        <4>1. k \in Jobs
          BY <1>1, <3>1, <3>2 DEF BusyHasJob
        <4>2. CalmInv(k) /\ CalmEntry(k) /\ Holds(w, k)
          BY <3>1, <4>1 DEF CalmIInv, Holds
        <4> QED BY <3>1, <3>2, <4>1, <4>2 DEF CalmInv, CalmEntry, Held
      <3>4. \A v \in Workers : worker'[v].pc # "receive" =>
               worker[v].pc # "receive" /\ worker'[v].job = worker[v].job /\ entry'[v] = entry[v]
        BY <1>1, <3>2 DEF Released, Idle
      <3>5. CASE UNCHANGED stream
        <4>1. UNCHANGED Queued(j) /\ \A e \in DOMAIN stream : UNCHANGED Live(e)
          BY <3>5 DEF Queued, EntriesOf, Live
        <4>2. Accepted(j)' /\ Waiting(j)' => Queued(j)'
          BY <2>1, <2>2, <3>2, <4>1 DEF CalmEntry, Accepted
        <4> QED BY <3>2, <3>4, <3>5, <4>1, <4>2, CalmFrame DEF Accepted
      <3>6. CASE ~UNCHANGED stream
        <4>1. PICK n, left : n = Len(stream) /\ n \in Nat /\ left = Becomes(g, "gone")
          BY <1>1
        <4>2. "gone" \in States
          BY DEF States
        <4>3. /\ left \in Seq(Entries) /\ Len(left) = n
              /\ \A e \in DOMAIN stream : left[e] =
                    IF e = g THEN [job |-> stream[g].job, state |-> "gone"] ELSE stream[e]
          BY <1>1, <3>3, <4>1, <4>2, BecomesEntries
        <4>4. DOMAIN left = 1..n /\ DOMAIN stream = 1..n /\ n \in Nat
          BY <1>1, <4>1, <4>3, LenProperties
        <4>5. \/ stream' = left /\ worker[w].pc = "ack"
              \/ /\ DOMAIN stream' = 1..(n + 1)
                 /\ stream'[n + 1] = [job |-> k, state |-> "new"]
                 /\ \A e \in 1..n : stream'[e] = left[e]
          <5>1. CASE stream' = XAdd(left, k)
            BY <3>3, <4>3, <4>4, <5>1, XAddEntries, LenProperties
          <5> QED BY <3>2, <3>6, <4>1, <5>1
        <4>6. /\ DOMAIN stream \subseteq DOMAIN stream'
              /\ \A e \in DOMAIN stream \ {g} : stream'[e] = stream[e]
              /\ stream'[g].job = k /\ stream'[g].state = "gone"
          BY <3>3, <4>3, <4>4, <4>5
        <4>7. \A d \in DOMAIN stream' \ DOMAIN stream : stream'[d] = [job |-> k, state |-> "new"]
          BY <4>4, <4>5
        <4>8. worker[w].pc = "ack" => ~Waiting(k)
          BY <3>1, <3>3 DEF CalmIInv, CalmInv, Holds
        <4>9. \/ ~Waiting(k)
              \/ \E d \in DOMAIN stream' : stream'[d] = [job |-> k, state |-> "new"]
          <5>1. CASE DOMAIN stream' = 1..(n + 1) /\ stream'[n + 1] = [job |-> k, state |-> "new"]
            <6>1. n + 1 \in DOMAIN stream'
              BY <4>4, <5>1
            <6> QED BY <5>1, <6>1
          <5> QED BY <4>5, <4>8, <5>1
        <4> QED BY <2>4, <3>2, <3>3, <3>4, <4>6, <4>7, <4>9 DEF Live
      <3> QED BY <3>5, <3>6
    <2>8. ASSUME NEW w \in Workers, NEW e \in DOMAIN stream, Receive(w, e) PROVE CalmEntry(j)'
      <3>1. "pending" \in States
        BY DEF States
      <3>2. stream' = Becomes(e, "pending") /\ UNCHANGED api /\ Live(e)
        BY <2>8 DEF Receive, NextNew, Reclaimable, Live
      <3>3. /\ stream' \in Seq(Entries) /\ Len(stream') = Len(stream)
            /\ \A d \in DOMAIN stream : stream'[d] =
                  IF d = e THEN [job |-> stream[e].job, state |-> "pending"] ELSE stream[d]
        BY <1>1, <3>1, <3>2, BecomesEntries
      <3>4. DOMAIN stream' = DOMAIN stream
        BY <1>1, <3>3, LenProperties
      <3>5. /\ worker'[w].job = stream[e].job /\ entry'[w] = e
            /\ \A v \in Workers \ {w} : worker'[v] = worker[v] /\ entry'[v] = entry[v]
        BY <1>1, <2>8 DEF Receive, Received
      <3> QED BY <2>4, <3>2, <3>3, <3>4, <3>5 DEF Live
    <2>9. ASSUME NEW k \in Jobs, Expire(k) PROVE CalmEntry(j)'
      BY <2>3, <2>9 DEF Expire, Accepted
    <2>10. ~Deaths /\ \A w \in Workers, e \in DOMAIN stream : ~ReceiveLost(w, e)
      BY <1>1 DEF Deaths, RequestDies, WorkerDies, ReceiveLost, CallEnds, SystemTypeOK, StoreTypeOK
    <2>11. ASSUME UNCHANGED vars PROVE CalmEntry(j)'
      BY <2>3, <2>11 DEF vars, redis, Accepted
    <2> QED
      BY <2>2, <2>5, <2>6, <2>7, <2>8, <2>9, <2>10, <2>11 DEF Next, HandleStep
  <1> QED BY <1>1, <1>3, NextType DEF CalmIInv

\* As long as no call fails, no accepted job is forgotten, whatever entries are
\* taken from busy workers and whenever keys expire.
THEOREM NeverForgotten == ASSUME MaxFaults = 0 PROVE Spec => []AcceptedNeverForgotten
  <1>1. Init => CalmIInv
    <2>1. ASSUME Init, NEW j \in Jobs PROVE CalmInv(j) /\ CalmEntry(j)
      <3>1. CalmInv(j) /\ DOMAIN stream = {} /\ ~Accepted(j)
        BY <2>1, CalmInit, EmptySeq DEF Init, IntakeInit, Accepted
      <3>2. \A w \in Workers : worker[w].pc = "receive"
        BY <2>1 DEF Init, SchedulerInit, Idle
      <3> QED BY <3>1, <3>2 DEF CalmEntry
    <2> QED BY <2>1, InitType DEF CalmIInv
  <1>2. CalmIInv => AcceptedNeverForgotten
    <2> SUFFICES ASSUME CalmIInv, NEW j \in Jobs, Accepted(j), ~Settled(j)
                 PROVE  Queued(j) \/ Held(j)
      BY DEF AcceptedNeverForgotten
    <2>1. SystemTypeOK /\ CalmInv(j) /\ CalmEntry(j)
      BY Types DEF CalmIInv, Typed
    <2> QED BY <2>1, CalmUnsettled DEF CalmEntry
  <1> QED BY <1>1, <1>2, CalmNext, PTL DEF Spec
=============================================================================
