# Formal model of transliter

`transliter` accepts translation jobs over HTTP, stores them, carries their IDs
through a queue, and has workers translate them with a model server. The
server can be put together from five stores and five queues. Most of what can
go wrong lies between the parts: a call that is carried out although its answer
was lost, a worker that dies between two calls, a delivery that comes twice, a
record that expires while somebody works on it. Around that system there are
clients that read jobs back page by page, a web console with fetches in flight,
and a chain of pure functions that build prompts and check translations. This
directory holds TLA+ models of those parts, the TLC runs that check them, and
TLAPS proofs of the main results.

`PROJECT.json` is the index: components, runs, mutants, the source lines every
definition stands for, hazards, findings, theorems.

## 1. The system

    client ── POST /v1/jobs ──> Handler.create ── Create ──> Store
                                     │                         ^
                                     └─ Enqueue ─> Queue       │ Get, Update
                                                     │         │
                                                  Receive ──> Scheduler.handle ── Process ──> model server
                                                     ^         │
                                                     └ Ack/Nack┘
    hourly cleanup ── DeleteExpired ──> Store

| Component | State it keeps | Operations | What must be true of it |
|---|---|---|---|
| Scheduler workers (`lib/jobs/scheduler.go`) | per goroutine: the delivery, the job as it was read | `runWorker`, `handle` | outcome stored before Ack; no second model call once there is an outcome; every delivery ends |
| Store contract (`lib/jobs/jobs.go`, `postgres`, `mysql`, `sqlite`, `memory`) | one record per job | `Create`, `Get`, `Update`, `List`, `DeleteExpired` | atomic calls; an Update never creates; a settled record stays |
| Job intake (`lib/restapi/handler.go`) | the request in progress | `create` | an answer of 202 means the job will be worked on; 503 leaves no live job |
| PostgreSQL queue | one row per job, with a lease | `Enqueue`, `Receive`, `Ack`, `Nack` | one worker at a time; a row whose worker died is leased again |
| In-memory queue | a channel of 1024 IDs | the same | each job at most once; blocked sends end |
| Redis queue and store | stream, pending entries, keys with TTLs, owner index | the same | reclaim, no record without a TTL |
| JetStream queue | stream, consumer, delivery counts | the same | no accepted job runs out of deliveries |
| History (`GET /v1/jobs`) | in Redis an index per owner, with a TTL | `list`, `get`, `List` of each store | pages neither skip nor repeat; the index covers the records that live |
| Server process (`cmd/transliter-server`) | goroutines, backends | `run`, `cleanupExpired` | stopping at any point is no worse than a crash |
| Catalog, preview (`lib/restapi/catalog.go`) | none | `getModelCatalog`, `previewModelCatalog` | what they say of a request is what admission does |
| Prompts and adapters (`lib/prompt.go`, `lib/language.go`, `models`) | none | `ValidateTranslationRequest`, `BuildInput`, `Options` | one request, one answer, wherever it is asked |
| Processor and inference client (`lib/jobs/processor.go`, `lib/inference/openai`) | none | `Process`, `EncodeRequest`, `Generate` | what intake admits can be sent, with the source whole |
| Fences (`lib/fence.go`) | none | `FenceSource` | the fence ends where the source does |
| Validation (`lib/validate.go`) | none | `ValidateTranslation` | no issue means that nothing but words changed, and the reverse |
| Web console (`lib/restapi/webui/app.js`) | active job, poll timer, fetches in flight | submit, poll, history click, refresh | the job shown is the one chosen last, and its end is shown |
| Authentication, configuration | fixed tables | | |

Hard behaviour, by kind: interleaving of handlers, workers, cleanup and several
server processes on one database; calls that fail before or after their effect;
crashes between any two calls; leases that run out; blocking on a bounded
channel; restarts that clear one backend and keep the other; cursors over times
that each store cuts to a unit of its own; answers of fetches that arrive after
the user went on; three handlers that each validate the same request; scanners
and parsers that see less of a text than is there. `PROJECT.json` lists each
hazard at its line with the property that guards it.

## 2. The modules

| Module | Models | Lines of code it stands for |
|---|---|---|
| `JobStore` | job records, the store's calls and how a call may end | `jobs.go`, the store half of `postgres/backend.go` |
| `Intake` | the steps of `create` | `handler.go` 92-128 |
| `Scheduler` | the steps of `handle` | `scheduler.go` |
| `JobSystem` | the three together: what a client sees, shared formulas | |
| `PostgresJobs` | the system over leased rows | the queue half of `postgres/backend.go` |
| `MemoryJobs` | the system over the Go channel, with restarts | `memory/backend.go` |
| `JobLifecycle` | the abstract promise to clients | |
| `JetStreamJobs` | the system over a work-queue stream with counted deliveries | `natsjs/queue.go`, `natsjs/embedded.go` |
| `RedisJobs` | the system over stream entries, with updates in two calls and key TTLs | `redis/backend.go` |
| `MCPostgresJobs`, `MCJetStreamJobs`, `MCRedisJobs` | the symmetries TLC uses | |
| `JobSystemProofs` | theorems about requests, workers and records under any queue | |
| `PostgresJobsProofs`, `JetStreamJobsProofs`, `MemoryJobsProofs`, `RedisJobsProofs` | theorems about the system over each queue | |
| `JobHistory` | the rows of one caller, and `Create`, `List`, `DeleteExpired` as five stores carry them out | `List` of all stores, `redis/backend.go` 88-116 |
| `HistoryPager` | a client that pages, and `list` | `handler.go` 143-175, `redis/backend.go` 166-207 |
| `WebConsole` | the console's page | `app.js` |
| `JobReaders` | the two composed over the rows | |
| `JobHistoryProofs`, `JobReadersProofs` | lemmas about rows, index and pager; theorems about `JobReaders` | |
| `MarkdownFences` | fences, how they are made and counted | `fence.go`, `validate.go` 155-178 |
| `Languages` | the three language tables | `language.go`, tables of `models/internal` |
| `ModelAdapters` | what models take, inputs, options | `prompt.go`, `models` |
| `InferenceClient` | payloads and answers | `codec.go`, `client.go`, `model.go` |
| `TranslationCheck` | the check of a translation, and what it should find | `validate.go` |
| `TranslationPipeline` | one request from preview to check | `restapi/catalog.go`, `main.go` 137-158, `processor.go` |
| `MCTranslationPipeline` | its requests, sources and answers for TLC | |
| `TranslationPipelineProofs` | what the scans of `fence.go` compute, and theorems about `TranslationPipeline` | |

`JobStore` is extended by `Intake` and `Scheduler`, both by `JobSystem`, and
that by one module per queue, which adds the queue's state, completes the steps
that touch it (`Enqueue`, `Receive`, `Ack`, `Nack`) and states `Next`.

`JobHistory` is extended by `HistoryPager` and by `WebConsole`, and both by
`JobReaders`. `MarkdownFences` and `Languages` are extended by `ModelAdapters`,
that by `InferenceClient`; `TranslationPipeline` extends it and
`TranslationCheck`.

How the state of the job system corresponds to the code:

* `store[j]` is the record of job `j` or `ErrNotFound`. Texts and timestamps are
  reduced to whether they are set: `result`, `startedAt`, `completedAt`. `Apply`
  keeps the code's rule that status and result are overwritten and a nil
  timestamp keeps the old one.
* `api[j]` is how far the request that drew ID `j` has come. IDs are 128 random
  bits, so each is drawn once.
* `worker[w]` is the position of one worker goroutine in `handle`, the delivery
  it holds, and how its model call ended. `pc = "load"` is before `Store.Get`,
  `"mark"` before the Update to running, `"process"` before the model call,
  `"complete"` before the final Update.
* `queue[j]` in `PostgresJobs` is the row of `j`: none, ready, or leased.
  `channel` in `MemoryJobs` is the Go channel; `durable` says which store the
  server was started with.
* `queue[j]` in `JetStreamJobs` is the message of `j` and `deliveries[j]` its
  delivery count. `ephemeral` says whether the stream lives in the memory of an
  embedded server (the default configuration), which then restarts as a whole,
  or outlives processes that die one at a time.
* `stream` in `RedisJobs` is every entry ever added, deleted ones included,
  since a worker may still name them in its Ack or Nack; `entry[w]` is the ID
  the worker was given. `read[x]` is what the GET of an unfinished `Update`
  returned, and `ttl` the set of jobs whose key expires. `KEEPTTL` leaves `ttl`
  alone, also when the key is gone.

A call to a store or to a queue in a database is one step with one of three
outcomes: it is carried out; it fails and nothing happened (`lost`); it is
carried out and reports an error (`unknown`). Each step of `handle` and
`create` is a separate action, so anything may happen between two of them; the
decision made from what `Get` returned is taken with it into later steps.
`DeleteExpired` may remove any set of records at any time: retention is only
required to be positive, so a record may expire while it is worked on.

Crashes: `WorkerDies` and `RequestDies` forget what a goroutine knew. They also
stand for an orderly stop, in which the cancelled context makes every remaining
call fail and `run` closes the backends without waiting for the workers. Several
goroutines of one process dying at once is several such steps. With the channel,
where a process takes the queue with it, there is one `Restart` instead.

Abstracted: which ready row `Receive` takes (`SKIP LOCKED` passes over locked
rows, so any may be first); the wording of errors; owners and request bodies;
the clock. `Overruns` says whether a lease may run out while its worker is busy.
The server sets the lease to twice the job timeout and bounds only the model
call by that timeout, so `Overruns = FALSE` is the assumption that the store
calls of one delivery take less than one job timeout together. `RedisJobs` has
the same constant for reclaiming, and `ExpiresInUpdate` for a key that expires
inside an `Update`; `JetStreamJobs` assumes that no worker outlasts its ack
wait. The order in which JetStream delivers is left open; Redis reads new
entries in order and may reclaim any that is idle.

### Reading jobs

`rows[j]` is a job of one caller with its creation time and its end; `backend`
says which of the five stores holds it. `Cut` is what a store compares: whole
nanoseconds (memory, SQLite), microseconds (PostgreSQL, MySQL), milliseconds
(the scores of Redis). `CreatedAt` is what an answer says, which a client sends
back as its next `before`: cut by a column, but not by Redis, which returns the
record as built. `Draw` and `Insert` are two steps, since `jobs.New` takes the
time before `Create` stores the job. `index` is the sorted set of Redis:
`RedisInsert` is the script of `Create`, which also trims the set by the
retention of the new job and gives the whole set that job's TTL: `WholeSeconds`
of what is left of the retention when the job is stored, as for its own key.
`Ends` is when the store may drop a row, `expires_at` or the end of that key.
`SqliteSelects` wraps bounds that int64 nanoseconds cannot hold.

`pager` is a client that asks until an answer is empty. A page is of one moment,
except in Redis, where the range of the index comes first and a GET per ID after
it (`AskRange`, `Fetch`). `present` and `bounds` are history variables.

In `WebConsole`, `timers`, `polls` and `loads` are the timer and the fetches in
flight, each fetch served at one step and answered at another, or failed.
`shown` and `display` are what `renderJob` left on the page, `listed` is the
snapshot the buttons of the history hold, `form` is the disabled button.
`choice`, `rivals` and `unwatched` serve the properties.

### One translation

`TranslationPipeline` follows one request: preview, admission, worker, inference
server, check of the result. Each step is one call of pure functions, and the
functions are operators: an error return is a predicate (`Takes`, `Builds`,
`Encodes`), the value an operator of its own (`BuildInput`, `EncodeRequest`).
There is no concurrency; what is checked is that the parts agree for every
request, source and answer of the instance.

A text is a sequence of tokens: characters where the code looks at characters
(backticks, tildes, blanks, line ends), whole words, names, tags and scalars
elsewhere. The tables in `TranslationCheck` say what the regular expressions,
the JSON decoder, the YAML library and the HTML tokenizer make of a token; the
loops of the code around them are modelled. `Keeps` says without any scan what a
translation must not change, and is what the check is compared with.

A prompt is the sections of `BuildPrompt` and `promptOptions`, each ended by a
line break. The source stands in its fence; delimiters are quoted, so a line
break in one is two characters (`Quoted`); glossary, style, audience and
attributes stand there as they are (`Unquoted`), and one of them that opens a
fenced block is the only excuse `CarriedInFence` has. The Markdown reader of that
property (`Opens`, `Closes`, `FirstBlock`) knows fences of backticks and of tildes
as CommonMark defines them, but neither blocks made by indentation nor HTML
blocks. A blank stands for a blank or a tab where the code trims both
(`markdownFences`); the texts of the run have no tabs.

## 3. The runs

| Run | Instance | What it shows |
|---|---|---|
| `pg_leases` | 2 jobs, 2 workers, 2 faults, no overruns | Safety over PostgreSQL: `ExclusiveDelivery`, `AcceptedNeverStranded`, `AcceptedRecordConsistent`; the action properties `AckOnlyWhenSettled`, `AcceptedOutcomeFinal`, `NoCallAfterOutcome`; that it implements `JobLifecycle`; the inductive invariant `IInv` of the proofs; and that every accepted job settles and every row is deleted, also those of refused and expired jobs |
| `pg_overrun` | 2 jobs, 2 workers, overruns, no faults | a worker whose lease ran out still holds its job, or the queue does |
| `pg_refused` | 1 job, 2 workers, 2 faults | **violation**: a refused job can stay queued, with no row in the queue and no worker |
| `mem_jobs` | 2 jobs, 2 workers, capacity 1, 2 faults, 1 restart, either store | no duplicates; before a restart no losses, and every job settles while jobs are fewer than workers and places; a restart breaks no promise of `JobLifecycle` |
| `mem_blocked` | 2 jobs, 1 worker, capacity 1, 1 fault | **violation**: Nack on a full channel blocks the only reader |
| `js_deliveries` | 2 jobs, 2 workers, 2 faults, 3 deliveries, either stream | deliveries of an accepted job are only spent on faults, so one fault less than there are deliveries leaves one: the job settles for good |
| `js_exhausted` | 1 job, 2 workers, 2 faults, 2 deliveries | **violation**: a Nak of the last delivery makes nothing available |
| `red_reclaim` | 2 jobs, 2 workers, 1 fault, no overruns | reclaiming and the Nack script keep one entry per job and one worker per entry; updates in two calls still implement `JobLifecycle`; every record has a TTL; jobs settle and the stream drains |
| `red_overrun` | 2 jobs, 2 workers, overruns, keys expiring in updates, no faults | two workers that delete and add entries of one job do not lose it, and it settles for good |
| `red_expiry` | 1 job, 2 workers, no faults | **violation**: a record comes back without a TTL |
| `readers` | 2 jobs, 2 retentions, 4 steps of the clock, seconds of 3, pages of one, any store; the console with 2 clicks or submissions | paging shows nothing twice and misses only jobs of the unit in which a page ended (`PagedOnce`), with what leaves the Redis index (`IndexCoversLive`) and bounds beyond int64 named as exceptions; the console keeps watching an unfinished job (`PendingJobWatched`), shows the last choice or a job whose poll was in flight then (`ChoiceHolds`), and comes to rest (`ShownSettles`) |
| `pipeline` | every combination of optional fields; every language and model; texts of 5 characters as source, of 4 (tildes too) as style, glossary term, attribute and delimiter; 26 sources of six kinds and every edit of them | `AdmittedReachesInference`, `PreviewPredicts`, `SourceCarriedWhole`, `CheckJudges` |

Bounds. `MaxFaults` bounds failed calls, lost answers and crashes together. Two
are enough for every pair the code has to survive: an unanswered Enqueue with a
failing Update, an unanswered completion followed by a crash, a crash during a
redelivery. Two jobs and two workers allow both kinds of contention: two
deliveries of one job and two jobs on one queue; the theorems remove these
bounds. Capacity 1 makes the channel full as soon as one job waits, and a
second job then blocks a handler or a worker on it. Three deliveries stand for
the twenty of the code: what matters is that they are more than the faults, and
`js_exhausted` shows the other case.

`readers`: two jobs are enough to be created in one unit (`Tick = 2`) or in two,
to be drawn in one order and stored in the other, and to have different
retentions; pages of one make every job the end of a page. Rounding to
seconds must be able to lose a whole `Tick`, and `Second = 3` is the least that does: of
two jobs with a retention of 6, one stored at once and the other a unit after it
was drawn, the second ends the index two units before the first expires. `Horizon
= 10` puts a bound of 11 beyond int64. Two choices let a submission be followed by a click on
another job or by a second submission.

`pipeline`: a fence is interesting up to a run of one more than the minimum of
four backticks, so five characters of backtick, line end and word; a block that
a style, a glossary term, an attribute or a delimiter would open takes three or
four. `LineLimit =
10` stands for the 64 KiB of a `bufio.Scanner`, and one source has a longer
line. Answers are every truncation of the source, up to five tokens lost or said
twice, one token changed, added or swapped, and every consistent translation of
its words. Each exception in `CheckJudges`, `KeepsFences`, `KeepsJSON` and
`SourceCarriedWhole` was taken out once to see that the instance reaches it.

In the runs of queues and readers deadlock is not checked
because the system may stop: all IDs drawn, all jobs settled, the fault budget
spent; a translation ends too.

Fairness. Handlers and workers are goroutines that run whenever they can, and
every call they make returns: the model call at its timeout, the others when
their context ends. So `Enqueue` and the steps of `handle` are weakly fair.
`Receive` polls (PostgreSQL, Redis) or blocks (channel, JetStream), so a worker that could take a
delivery will. A lease or an ack wait with no worker runs out with time. Faults, overruns, new
requests, restarts and the cleanup are never forced, and neither is a handler's
answer after a failed Enqueue. Weak fairness is enough because jobs and faults
are finite. In the console a due timer fires and a fetch is answered or fails,
and workers settle jobs (as `AcceptedSettles` shows of them); nobody has to
click, and no fetch has to fail.

## 4. Findings

* **A refused job can stay queued** (`pg_refused`). `docs/rest-api.md` says the
  API marks a stored job failed when enqueueing fails. `create` ignores the
  error of that Update, and makes it on the same request context that may just
  have ended. In the trace Enqueue fails without writing a row and the Update
  fails too: no row and no worker know the job, and its record says queued until
  it expires. (An Enqueue that was carried out and lost its answer is another
  case: a worker runs that job although its request was refused.)
* **Nack can block for ever** (`mem_blocked`). The channel's readers are the
  workers. With the channel full and every worker waiting in Nack nothing moves
  again: one worker (the default), a full channel, and one failed store call or
  one expired record suffice. `jobs.go` promises that Nack makes the job
  available again.

* **A Nak can make nothing available** (`js_exhausted`). The consumer delivers a
  message at most twenty times, and a Nak redelivers at once. A store that fails
  for a moment turns every delivery into a Nak and uses all twenty up; the
  message then stays in the stream, undelivered, and the job stays queued or
  running although its request was answered 202. An expired record costs a
  delivery too, so messages of jobs nobody needs may stay as well.
* **An expired record can come back for good** (`red_expiry`). `Update` reads
  with GET and writes with `SET ... KEEPTTL`. If the key expires in between, the
  SET creates it without a TTL, and the comment on `DeleteExpired` relies on
  TTLs alone.

What the two passing runs had to name as exceptions is worth knowing too, though
no document promises otherwise:

* A job created in the same microsecond (PostgreSQL, MySQL) or millisecond
  (Redis) as the last of a page is skipped by the next one, since `before` is
  exclusive and the only cursor.
* After a restart with a shorter retention, new jobs in Redis trim the index of
  their owner and shorten its TTL: older jobs can be read by ID, but not listed.
  With one retention that happens too, for less than a second or for as long as
  `Create` took: the TTL of key and index is whole seconds, rounded down, of what
  is left when the job is stored, so a job stored later may end earlier and take
  the index with it. A job stored in the last second before its `expires_at`
  outlives it, and may be trimmed from the index by then. A page of IDs whose
  keys have all expired is answered as an empty one.
* A `before` after the year 2262 gives an empty page over SQLite.
* A poll of the console that fails is not repeated, so the page may show a job
  as running for good. A poll in flight while the user opens another job renders
  the old one again.
* Admission accepts an empty text for TranslateGemma and, when the server has no
  default, a job without a model name; a worker then fails the job.
* The check of a translation does not see fences behind a line of 64 KiB, keys
  of a repeated JSON member, or YAML after the first document; it takes a
  translated "50% off" for a changed placeholder.

## 5. The proofs

Eight modules hold theorems. Every safety invariant and every step property the
runs check is proved for all values of the constants, under the hypotheses named
below, but for one invariant of the pipeline, `CheckJudges`, of which a part is
proved.

| Module | Theorem | What it says | Hypothesis |
|---|---|---|---|
| `JobSystemProofs` | `SystemInvariant`, `SystemLifecycle` | requests, workers and records under any queue whose steps are `SystemStep`: their invariant, and `JobLifecycle` | |
| `PostgresJobsProofs` | `TypeCorrect` | `TypeOK` | |
| | `Invariant`, `Exclusive`, `NeverStranded`, `RecordConsistent`, `AckSettled`, `OutcomeFinal`, `NoCallAfter`, `RefinesSystem`, `Refinement` | `IInv`, `ExclusiveDelivery`, `AcceptedNeverStranded`, `AcceptedRecordConsistent`, `AckOnlyWhenSettled`, `AcceptedOutcomeFinal`, `NoCallAfterOutcome`, `ImplementsLifecycle` | `~Overruns` |
| | `NeverForgotten` | `AcceptedNeverForgotten` | `MaxFaults = 0` |
| `JetStreamJobsProofs` | `TypeCorrect`, `PaidFor`, `StillDelivered`, `OutcomeFinal`, `Refinement` | `TypeOK`, `DeliveriesPaidFor`, `AcceptedStillDelivered`, final outcomes, `JobLifecycle` | |
| `MemoryJobsProofs` | `TypeCorrect`, `Once`, `NeverStranded`, `Refinement` | `TypeOK`, `QueuedOnce`, `AcceptedNeverStranded`, `ImplementsLifecycle` | |
| `RedisJobsProofs` | `TypeCorrect` | `TypeOK` | |
| | `Invariant`, `Exclusive`, `NeverStranded`, `RecordsKeepTTL`, `RefinesSystem`, `Refinement` | `IInv`, `ExclusiveDelivery`, `AcceptedNeverStranded`, `RecordsExpire`, `ImplementsLifecycle` | `Timely`: `~Overruns /\ ~ExpiresInUpdate` |
| | `NeverForgotten` | `AcceptedNeverForgotten` | `MaxFaults = 0` |
| `JobReadersProofs` | `TypeCorrect`, `IndexCovers`, `Paged`, `Watched`, `Chosen` | `TypeOK`, `IndexCoversLive`, `PagedOnce`, `PendingJobWatched`, `ChoiceHolds` | |
| `TranslationPipelineProofs` | `Admitted`, `Predicted`, `SourceCarried` | `AdmittedReachesInference`, `PreviewPredicts`, `SourceCarriedWhole` | |
| | `LongestRun`, `FenceLength`, `SourceInFence`, `PromptCarriesSource` | what `LongestBacktickRun`, `RequiredFenceLength`, `FenceSource` and `BuildPrompt` do for texts of any length | |
| | `NamesKept` | a result that passes the check has every name of its source, as often: that part of `CheckJudges` | |
| | `NamesJudged`, `WordsMayChange` | when the check reports a name, for texts of any length | |

`JobHistoryProofs` holds the lemmas about rows, the Redis index and the pager on
which `JobReadersProofs` rests.

The hypotheses are those of the runs: `~Overruns` and `Timely` of `pg_leases` and
`red_reclaim`, where leases outlast the work; `MaxFaults = 0` of `pg_overrun` and
`red_overrun`, where they may run out at any moment. With overruns a worker whose
lease was taken may still write a record, so outcomes are not claimed to be
final there, only that no accepted job is forgotten.

Assumptions on the constants, each named in the module that declares them:
`MaxFaults`, `MaxRestarts`, `MaxChoices`, `MaxTime` are natural numbers and
`MaxDeliver`, `Capacity`, `Limit`, `Tick`, `Second`, `LineLimit` positive ones;
`ErrNotFound` is no record, `NoJob` no job, `NoBound` (the zero time) no time;
the switches are Booleans; what a request asks for and what a model answers are
texts, sequences of strings, and a glossary is finite. Three are worth a word:

* `MaxTime < Horizon \div 2`: the clock stays below 2^62 nanoseconds, the year
  2116. A `before` beyond 2^63, which int64 cannot hold, then wraps to a time
  before every job, never into their midst.
* `ReadersAssumption`: one retention is the longest, since a server is restarted
  with finitely many settings. The console's server takes it.
* `Jobs \cap Workers = {}`: `read` is indexed by both requests and workers.

### Requests, workers, records

`SystemStep` is what is left of a system when its queue is forgotten: a request
acts, a worker acts on its job, a worker ends its delivery, a worker nobody
shares a job with begins one, records expire, a process restarts. It is written
so that all four queues are covered; a `Received` job, for example, needs only
to be enqueued and held by nobody. A queue's module proves that its steps are
`SystemStep`s, which takes the invariant of that queue; `SystemInv` and the
refinement of `JobLifecycle` follow from lemmas proved once.

Why an inductive invariant is needed: `AcceptedNeverStranded` is not preserved
by an Ack on its own. An Ack deletes the row whatever the record says; it is
harmless only because a worker at its Ack knows the job settled (`WorkersKnow`),
and that stays true only because nobody else writes the record meanwhile: no
second worker, since two never hold one job; no request, since a job a worker
holds was enqueued (`BeforeEnqueue`) and what a refused request still writes is
terminal. The record's fields (`AcceptedRecordConsistent`) rest on the same
facts. The proof goes by job: `JobInv(j)` is what `SystemInv` says of one job,
and a step that touches one job, and no worker that holds another, only has to
re-establish `JobInv` of that job.

What each queue adds to `SystemInv`:

* PostgreSQL, `RowInv(j)`: a held job's row is under lease, and an accepted job
  that is not settled has a row.
* JetStream, `MessageInv(j)`: `DeliveriesPaidFor` is not inductive, because a
  worker about to Nack has had its fault and the delivery in its hands must be
  counted as paid already. So only a `Working` one is free. `AcceptedStillDelivered`
  is then arithmetic.
* In memory, `ChannelInv`: no ID stands twice in the channel or both there and
  in a worker's hands. Counting them, as `QueuedOnce` does, follows from that.
* Redis, `QueueInv` and `ReadInv`: a live entry and the worker that was given it
  agree; what an unfinished `Update` has read is what the store still holds,
  unless nobody was promised the job. With it a GET and a SET are one update.
  `RecordsExpire` is part of the invariant, since KEEPTTL keeps what is there.

`NeverForgotten`, over PostgreSQL and Redis, cannot use `SystemStep`: two workers
hold one job. `CalmStep` is another abstraction, of systems in which every call
succeeds, and `CalmInv(j)` says which worker is responsible: a job that runs is
held by a worker before its completion, and one that went beyond the mark is not
queued again. `CalmRow` and `CalmEntry` add that an accepted job that waits has a
row or an entry.

### Readers

`HistoryInv` types the rows and says that every job is created before now;
`IndexInv` that a Redis index ends with the key of a job no live one was stored
after. `Trimmed` shows which members a script of `Create` may cut.

`PagedOnce` speaks of the end of a scan; `PagerInv` says what holds during one.
`PagerOK`: what was seen is no younger than the cursor, what is on the current
page or still to be fetched is older, and each is sorted by `Age`, the creation
time in the unit of the store. `Covered`: a job present at the start is seen, is
still ahead of the cursor or among the IDs to be fetched, or is excused. `Paged`
holds for pages of any size, five stores, and a job created while somebody pages.

`PageInv` says of the console that the job shown, the timer and each poll in
flight are of the last choice or of a rival, a job whose poll was in flight at
that choice; `PendingJobWatched` is inductive together with it.

### One translation

`PipelineInv` keeps, for each phase, what the steps before it computed, and
`OutputInv` that the result is a text and what the check said of it.
`AdmissionAgrees` and `CatalogDescribes` compare the three handlers' conditions
for every request; `Codes` goes through the table of TranslateGemma's languages;
`TemplateHolds` finds the source between the marks of the template.

`SourceCarried` for Hy-MT2 needs to know what the scans of `fence.go` compute,
and those are folds over a text. The induction theorems of the library take a
property as an operator, which the provers cannot instantiate; but a set of
naturals has a least element (`LeastNat`), and `Induction` over the positions of
one text follows with the property as a set. A fold is a function of sets of
positions (`FoldRightExists`, `FoldLeftExists`), so its values along a text are a
chain, each made from its neighbour:

1. `LinesChain`, `LinesAre`: `Lines` is what any such chain ends in, so a chain
   can be given to say what the lines of a text are. `LinesOfTwo`: lines end at a
   line break and nowhere else, so those of joined texts are those of the parts.
   `LinesAreStretches`: each stands in its text.
2. `LongestRun`: the scan keeps the run that ends here and the longest so far;
   none is longer. `FenceLength` is then longer than every run of the source.
3. `NoLineCloses`: no line of the source ends a block that this fence opened;
   `FenceOpensAndCloses`: the fence itself does. `FirstBlockIs` puts them together.
4. What precedes the fence opens no block: headings by being words
   (`HeadingIsHarmless`), delimiters because their line breaks are quoted
   (`QuotedHarmless`), the other texts by the excuse of `CarriedInFence`.
   `JoinedHarmless` joins them as `strings.Join` does.

`NamesKept` rests on `EqualCountsEqual`: `equalCounts` compares the number of
keys and looks up those of the source only, and that is enough, because a subset
as large as a finite set is that set. `PatternCompares` says the same of a
pattern, `NamesJudged` of the whole check: names, addresses, paths and
identifiers are reported if and only if one was lost, added or repeated, or a
percentage changed. `WordsMayChange` is the other direction of `CheckJudges`: a
translation of nothing but words is not reported for names, unless a caller
wants a word to be kept.

### Checked before they were proved

TLC checks `IInv` of `PostgresJobs` in `pg_leases`. The other inductive
invariants were checked the same way, as an INVARIANT with the constants of the
run of their module, and hold there; they are not part of the listed runs. For
Redis these are `IInv` with every step a `SystemStep` (47 447 states) and
`CalmIInv` with every step a `CalmStep` (125 093); in memory `IInv` (18 647); for
the readers `HistoryInv`, `IndexInv`, `PagerInv` and `ConsoleInv` together
(900 118, and
5 102 276 with three jobs and pages of two); for the pipeline
`PipelineInv` and `OutputInv` (241 365).

### Only model-checked

* Liveness under fairness (`AcceptedSettles`, `ShownSettles` and the others
  behind `~>`): beyond the prover, which has no rule for fairness and ENABLED.
* `CheckJudges`, but for names (above). It is not true of all constants: a caller
  may ask for a word to be kept as an identifier or a delimiter, and a faithful
  translation is refused then. Its exceptions were found on the instance, and
  for JSON, YAML and markup they rest on tables of the tokens used there. Proofs
  about the recursive readers of these formats were not attempted.
* The violations of the four runs of section 4: a counterexample needs no proof.

## 6. Not modelled, and the plan

Left out, and why:

* Authentication: one look at a fixed table per request. All histories here are
  of one caller, because every `List` selects by owner before anything else.
* Configuration and wiring: read once before anything runs concurrently. The
  lease of twice the job timeout is the assumption `Overruns = FALSE`.
* HTTP plumbing, body limits, the list of catalog entries, `GET /v1/models`
  (passes an answer through), static files: no decisions about jobs.
* Texts of prompts and of messages: tokens. Lengths count tokens, so the 64 KiB
  of a line and the 4 MiB of an answer are small bounds or a kind of failure.
* YAML beyond block mappings (sequences, aliases, flow style, multi-line
  scalars): parsing them is the library's work, and the code's own walk treats a
  sequence like a mapping without keys. In HTML, raw text elements and
  upper-case names.
* Storing a request and reading it back is the identity, except that PostgreSQL
  refuses a NUL character in JSON; that case is in the list of hazards.
* `FinishReason` and token counts are copied and never looked at.
* The models of `TranslationPipeline` have no type invariant of their own: its
  variables are records built by the operators and take part in its properties
  directly.

What is left:

* `LeaseTiming`: a clock, the lease of twice the timeout, the latency of the
  store; when `Overruns = FALSE` holds.
* The part of `CheckJudges` about Markdown: that the fences counted by
  `markdownFences` are those of `FenceRuns`, for every text.
