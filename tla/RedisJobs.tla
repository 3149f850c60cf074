------------------------------ MODULE RedisJobs -----------------------------
(***************************************************************************)
(* The job system over lib/jobs/redis: a stream read by one consumer group *)
(* and one key per job.  Receive first reclaims an entry that has been     *)
(* pending for twice the job timeout, then reads the next new one; Ack     *)
(* deletes the entry, Nack deletes it and adds another.  Update is a GET   *)
(* and a SET of the whole record, with anything in between, and records    *)
(* leave when the TTL of their key ends: there is no cleanup.              *)
(***************************************************************************)
EXTENDS JobSystem, Sequences

CONSTANTS
    Overruns,           \* may an entry be reclaimed while its worker still works?
    ExpiresInUpdate     \* may a key expire between an Update's GET and its SET?

ASSUME RedisAssumption ==
    /\ Overruns \in BOOLEAN /\ ExpiresInUpdate \in BOOLEAN
    /\ Jobs \cap Workers = {}

VARIABLES
    stream,         \* every entry ever added, by ID: its job and its state
    entry,          \* worker -> the entry it was given, or 0
    read,           \* worker, or job for its request -> the record an Update
                    \* got and has not set yet, or ErrNotFound
    ttl             \* the jobs whose key has a TTL

redis == <<stream, entry, read, ttl>>

vars == <<store, faults, api, worker, redis>>

\* "new" the group did not read it yet, "pending" it did, "gone" deleted
States == {"new", "pending", "gone"}

EntriesOf(j) == {e \in DOMAIN stream : stream[e].job = j /\ stream[e].state # "gone"}

Queued(j) == EntriesOf(j) # {}

XAdd(entries, j) == Append(entries, [job |-> j, state |-> "new"])

Becomes(e, state) == [stream EXCEPT ![e].state = state]

-----------------------------------------------------------------------------
\* Mutant of Set: without KEEPTTL.
SetWithoutKeepTTL(x, j, update, outcome) ==
    /\ CallEnds(outcome)
    /\ store' = IF outcome = "lost" THEN store
                ELSE [store EXCEPT ![j] = Apply(read[x], update)]
    /\ ttl' = IF outcome = "lost" THEN ttl ELSE ttl \ {j}
    /\ read' = [read EXCEPT ![x] = ErrNotFound]

\* SET ... KEEPTTL of what the GET returned with the update applied to it: the
\* key keeps its TTL, and a key that is no longer there comes back without one.
Set(x, j, update, outcome) ==
    /\ CallEnds(outcome)
    /\ store' = IF outcome = "lost" THEN store
                ELSE [store EXCEPT ![j] = Apply(read[x], update)]
    /\ read' = [read EXCEPT ![x] = ErrNotFound]
    /\ UNCHANGED ttl

\* The two calls of a worker's Update, marking the job or completing it.
UpdateGet(w) ==
    /\ worker[w].pc \in {"mark", "complete"} /\ read[w] = ErrNotFound
    /\ \/ /\ Exists(worker[w].job)
          /\ read' = [read EXCEPT ![w] = store[worker[w].job]]
          /\ UNCHANGED <<faults, worker>>
       \/ /\ Exists(worker[w].job) => CallEnds("lost")
          /\ ~Exists(worker[w].job) => UNCHANGED faults
          /\ GoTo(w, "nack")
          /\ UNCHANGED read
    /\ UNCHANGED <<store, ttl>>

UpdateSet(w) ==
    /\ read[w] # ErrNotFound
    /\ \E outcome \in Outcomes :
          IF worker[w].pc = "mark"
          THEN /\ Set(w, worker[w].job, MarkRunning, outcome)
               /\ GoTo(w, IF outcome = "ok" THEN "process" ELSE "nack")
          ELSE /\ Set(w, worker[w].job, Completion(worker[w].ok), outcome)
               /\ GoTo(w, IF outcome = "ok" THEN "ack" ELSE "nack")

RedisStep(w) ==
    /\ \/ (LoadFails(w) \/ LoadSettled(w) \/ LoadUnsettled(w) \/ Process(w)) /\ UNCHANGED <<read, ttl>>
       \/ UpdateGet(w)
       \/ UpdateSet(w)
    /\ UNCHANGED <<api, stream, entry>>

-----------------------------------------------------------------------------
\* Create: SET ... EX in a script.
Store(j) ==
    /\ Submit(j)
    /\ ttl' = IF Exists(j)' THEN ttl \cup {j} ELSE ttl
    /\ UNCHANGED <<worker, stream, entry, read>>

Enqueue(j) ==
    /\ \E outcome \in Outcomes :
          /\ Enqueued(j, outcome)
          /\ CallEnds(outcome)
          /\ stream' = IF outcome = "lost" THEN stream ELSE XAdd(stream, j)
    /\ UNCHANGED <<worker, entry, read, ttl>>

\* The Update of a refused request, whose error the handler ignores.
RefuseGet(j) ==
    /\ api[j] = "unqueued" /\ read[j] = ErrNotFound
    /\ \/ /\ Exists(j)
          /\ read' = [read EXCEPT ![j] = store[j]]
          /\ UNCHANGED <<faults, api>>
       \/ /\ Exists(j) => CallEnds("lost")
          /\ ~Exists(j) => UNCHANGED faults
          /\ api' = [api EXCEPT ![j] = "refused"]
          /\ UNCHANGED read
    /\ UNCHANGED <<store, worker, stream, entry, ttl>>

RefuseSet(j) ==
    /\ read[j] # ErrNotFound
    /\ \E outcome \in Outcomes : Set(j, j, QueueUnavailable, outcome)
    /\ api' = [api EXCEPT ![j] = "refused"]
    /\ UNCHANGED <<worker, stream, entry>>

RequestStep(j) == Store(j) \/ Enqueue(j) \/ RefuseGet(j) \/ RefuseSet(j)

-----------------------------------------------------------------------------
\* The entry XREADGROUP reads: the first that is new to the group.
NextNew(e) == stream[e].state = "new" /\ \A d \in 1..(e - 1) : stream[d].state # "new"

\* Mutant of Reclaimable: Receive that only reads new entries.
ReclaimsNothing(e) == FALSE

\* XAUTOCLAIM takes pending entries that are idle long enough, whoever has them.
Reclaimable(e) ==
    stream[e].state = "pending" /\ (Overruns \/ \A w \in Workers : entry[w] # e)

Receive(w, e) ==
    /\ NextNew(e) \/ Reclaimable(e)
    /\ Received(w, stream[e].job)
    /\ stream' = Becomes(e, "pending")
    /\ entry' = [entry EXCEPT ![w] = e]
    /\ UNCHANGED <<store, faults, api, read, ttl>>

\* The group moved on past the entry, but the worker never heard of it.
ReceiveLost(w, e) ==
    /\ NextNew(e)
    /\ worker[w].pc = "receive"
    /\ CallEnds("unknown")
    /\ stream' = Becomes(e, "pending")
    /\ UNCHANGED <<store, api, worker, entry, read, ttl>>

Ack(w) ==
    /\ worker[w].pc = "ack"
    /\ Released(w) /\ entry' = [entry EXCEPT ![w] = 0]
    /\ \E outcome \in Outcomes :
          /\ CallEnds(outcome)
          /\ stream' = IF outcome = "lost" THEN stream ELSE Becomes(entry[w], "gone")
    /\ UNCHANGED <<store, api, read, ttl>>

\* Mutant of Nack: the entry is deleted first and the script ends there.
NackOnlyDeletes(w) ==
    /\ worker[w].pc = "nack"
    /\ Released(w) /\ entry' = [entry EXCEPT ![w] = 0]
    /\ stream' = Becomes(entry[w], "gone")
    /\ UNCHANGED <<store, faults, api, read, ttl>>

\* Mutant of Nack: a new entry for the job, but the old one is not deleted.
NackOnlyAdds(w) ==
    /\ worker[w].pc = "nack"
    /\ Released(w) /\ entry' = [entry EXCEPT ![w] = 0]
    /\ stream' = XAdd(stream, worker[w].job)
    /\ UNCHANGED <<store, faults, api, read, ttl>>

\* One script: the entry goes, if it is still there, and another is added.
Nack(w) ==
    /\ worker[w].pc = "nack"
    /\ Released(w) /\ entry' = [entry EXCEPT ![w] = 0]
    /\ \E outcome \in Outcomes :
          /\ CallEnds(outcome)
          /\ stream' = IF outcome = "lost" THEN stream
                       ELSE XAdd(Becomes(entry[w], "gone"), worker[w].job)
    /\ UNCHANGED <<store, api, read, ttl>>

HandleStep(w) == RedisStep(w) \/ Ack(w) \/ Nack(w)

-----------------------------------------------------------------------------
\* A request or a worker dies, with what an unfinished Update had read.
Deaths ==
    \/ \E j \in Jobs : /\ RequestDies(j)
                       /\ read' = [read EXCEPT ![j] = ErrNotFound]
                       /\ UNCHANGED <<worker, stream, entry, ttl>>
    \/ \E w \in Workers : /\ WorkerDies(w)
                          /\ read' = [read EXCEPT ![w] = ErrNotFound]
                          /\ entry' = [entry EXCEPT ![w] = 0]
                          /\ UNCHANGED <<api, stream, ttl>>

Updating(j) == read[j] # ErrNotFound \/ \E w \in Workers : Holds(w, j) /\ read[w] # ErrNotFound

Expire(j) ==
    /\ j \in ttl
    /\ ExpiresInUpdate \/ ~Updating(j)
    /\ store' = [store EXCEPT ![j] = ErrNotFound]
    /\ ttl' = ttl \ {j}
    /\ UNCHANGED <<faults, api, worker, stream, entry, read>>

Init ==
    /\ StoreInit /\ IntakeInit /\ SchedulerInit
    /\ stream = <<>>
    /\ entry = [w \in Workers |-> 0]
    /\ read = [x \in Jobs \cup Workers |-> ErrNotFound]
    /\ ttl = {}

Next ==
    \/ \E j \in Jobs : RequestStep(j) \/ Expire(j)
    \/ \E w \in Workers :
          \/ HandleStep(w)
          \/ \E e \in DOMAIN stream : Receive(w, e) \/ ReceiveLost(w, e)
    \/ Deaths

Spec == Init /\ [][Next]_vars

\* Goroutines run, calls return, and Receive alternates between reclaiming and
\* reading for a second until one of the two has an entry.
Fairness ==
    /\ \A j \in Jobs : WF_vars(Enqueue(j))
    /\ \A w \in Workers :
          /\ WF_vars(HandleStep(w))
          /\ WF_vars(\E e \in DOMAIN stream : Receive(w, e))

FairSpec == Spec /\ Fairness

-----------------------------------------------------------------------------
TypeOK ==
    /\ StoreTypeOK
    /\ IntakeTypeOK
    /\ SchedulerTypeOK
    /\ stream \in Seq([job : Jobs, state : States])
    /\ entry \in [Workers -> 0..Len(stream)]
    /\ read \in [Jobs \cup Workers -> JobRecord \cup {ErrNotFound}]
    /\ ttl \subseteq {j \in Jobs : Exists(j)}

\* A worker's entry is the only one of its job, and nobody else works on that
\* job: a Nack, which deletes one entry and adds another, never leaves two.
ExclusiveDelivery ==
    \A w \in Workers, j \in Jobs :
        Holds(w, j) => /\ EntriesOf(j) = {entry[w]}
                       /\ stream[entry[w]].state = "pending"
                       /\ \A v \in Workers \ {w} : ~Holds(v, j)

\* A request answered 202 is never stranded: until its record is terminal or
\* expired the stream has an entry for it.
AcceptedNeverStranded == \A j \in Jobs : Accepted(j) /\ ~Settled(j) => Queued(j)

\* With overruns and no failed call, it has one or a worker still holds the job:
\* an Ack by the wrong worker deletes at most what that worker was given.
AcceptedNeverForgotten == \A j \in Jobs : Accepted(j) /\ ~Settled(j) => Queued(j) \/ Held(j)

\* "Job keys and owner indexes have Redis TTLs. Expiration is automatic."
\* (DeleteExpired): no record stays for ever.
RecordsExpire == \A j \in Jobs : Exists(j) => j \in ttl

\* The system implements the life cycle clients are promised: in particular a
\* record that is gone does not come back.
ImplementsLifecycle == Lifecycle!Spec

\* Every accepted job is settled for good in the end.
AcceptedSettles == \A j \in Jobs : Accepted(j) ~> []Settled(j)

\* The stream forgets every job in the end, however often Nack added entries.
QueueDrains == \A j \in Jobs : []<>~Queued(j)
=============================================================================
