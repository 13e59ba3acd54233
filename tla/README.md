# Verification of DeepDocParse

TLA+ models of the parts of DeepDocParse that keep promises across processes,
crashes and lost messages, the TLC runs that check them on small instances, and
TLAPS proofs of the most important results for instances of every size.
`PROJECT.json` has the machine-readable side: components, runs, the lines of
source each definition models, hazards, findings and theorems.

## 1. The system

A user uploads a PDF straight to an object store; a Go service (*control-api*)
owns organizations, quota and the upload; a Python service (*corpus-api*) owns
documents, evidence, search and answers; a *corpus-worker* runs its durable
tasks; a *model-gateway* runs the parsers. Control and corpus have a schema of
their own in one PostgreSQL and speak HTTP. Organizations can let their nodes
work for one another (federation), and a desktop runs a one-process variant
(*ddp_local*) over SQLite.

```
 client --PUT parts--> object store
   |                        ^   digest / abort
   | create, finalize       |
   v                        |
 control-api: upload_sessions --verify--> control_outbox
   ^  ^                                        | POST /internal/events
   |  | POST /internal/usage                   v
   |  +-- corpus_outbox <--- corpus-api: processed_events, documents,
   |                              |       parse_jobs (status, index columns)
   | /internal/upload-reclamation |  ^
   +------------------------------+  | callback, polls, reconciliation
                                     v
                               model-gateway: parse tasks (forgets after a day)

 corpus-api --enqueue--> tasks <--claim, heartbeat, outcome-- corpus-worker (n processes)
```

### What each part keeps and does

| Part | State | Operations | What makes it correct |
|---|---|---|---|
| upload sessions (control) | row per upload: status, allocation, bound command, verify lease and attempts, reclaim claim | create, reconcile allocation, finalize, verify, expire, reclaim | one multipart; the first command runs; one event exactly when ready; an ended session stays ended; storage given back whole and never under a document |
| control outbox and delivery | row per event: attempts, next attempt, delivered, rejected, last error | enqueue, claim with a lease, POST, classify the answer, mark | an event is settled at last; "ready" is never a lie; the acknowledgement has the last word |
| event consumer and ingest (corpus) | processed_events, documents, resources, versions, parse_jobs | marker, create or revive, submit the parse | one ingestion per event however often it is delivered |
| parse job and archive (corpus) | status, gateway task, timestamps | submit, poll, callback, reconcile, claim, archive, release, fail, resubmit | a job ends; succeeded means accounted and scheduled; a lost callback is recovered |
| document index (corpus) | index status, generation, lease; chunks; tombstone; manifest | schedule, claim, renew, publish, fail, delete, collect, revive | one builder counts; ready is searchable; a deleted document stays quiet |
| task queue (corpus) | row per task: status, attempts, generation, lease, dedupe key, due time | enqueue, claim, heartbeat, succeed, fail, cancel, sweep | exclusive fence, bounded retries, final outcomes, keys freed |
| corpus worker | pool of runs, stop flag | claim loop, run with heartbeat and deadline, sweep, drain | runs never exceed the pool; hung handlers are cut off; crashes are survived |
| usage outbox and ledger | corpus_outbox rows; usage_ledger by event_id; used pages of a key | record in the business transaction, claim, POST, park; enter once | no bill lost or doubled; the key agrees with the ledger |
| quota | limit, period, recorded pages, held pages | admit, hold, release | uploads admitted at once never hold more than the limit |
| garbage collection (corpus) | manifests of keys, claims, drains | claim, recheck, delete, drain, revive | no live byte deleted, no dead byte kept |
| federation (corpus) | admissions, executions, budgets, plans, steps, evidence sets | admit, execute, heartbeat, cancel, retry, sweep, relay, synthesize | one execution per admission, fenced by a generation, paid once, never beyond the budget |
| discovery (control) | peers, leases, credentials, scopes, subtrees | register, renew with challenge, supersede, expand, retire | a peer past its lease is not offered; no stale credential renews |
| wiki (corpus) | drafts, revisions, head | build, publish by compare-and-set, acknowledge | no lost revision |
| local runtime (ddp_local) | versions, parse tasks with leases in SQLite, builds, wikis, conversations, blobs, plans, consents | claim, renew, cancel, withdraw, delete, build, publish, answer, dispatch | a version follows its task; a taken-over run cannot publish; what is cited stays; no edit is lost |
| model processes (ddp_local) | child process, state, users | start, health, idle stop | no request on a dying child |
| client runtime (TypeScript) | replica of a catalogue, cursor | pull, apply | convergence |
| identity, keys, roles, audit, rate limits, proxy | rows and buckets | single-request checks | one request, one row |
| model-gateway, MCP, web, desktop, core library | adapters, views, pure functions | - | the contract formats |

### Where it is hard

- **Two replicas of everything.** Loops claim rows with `FOR UPDATE SKIP LOCKED`
  and a lease; a lease may run out while its holder still works.
- **Answers get lost.** A POST, an S3 call or a callback may have succeeded
  without its sender knowing; everything is tried again.
- **Reads before awaits.** Handlers read a row, await another service and write
  by what they read. Some of these writes are conditional, some are not.
- **Crashes** between any two transactions; only leases and periodic sweeps
  bring the work back.
- **Deletion against everything**: a tombstone, a collector and a revival
  compete with archives, builds, uploads and deliveries; on the desktop a user
  withdraws and deletes sources under the hands of parses and builds.
- **Two bookkeepers**: an execution has a row and a queue task, usage an outbox
  and a ledger, a version a state and a task. Each pair is written in one
  transaction here and in two there.
- **Limits**: attempts, pool sizes, batch sizes, backoffs that reach their end.

`PROJECT.json` lists 40 such hazards at their lines, and the properties that
would notice them going wrong.

## 2. The modules

| Module | Models | Composes |
|---|---|---|
| `TaskQueue` | every statement of `queue.py` on a row of `tasks`, as operators on rows | - |
| `CorpusWorker` | `runner.py`: processes, runs, heartbeats, deadlines, sweep, drain | extends `TaskQueue` |
| `TaskLifecycle` | what the queue promises to whoever enqueues and cancels | implemented by `CorpusWorker` |
| `EventOutbox` | what an outbox between two services promises, without attempts, leases or replicas | implemented by `OutboxDelivery`, `UploadSessions` and `UsageBilling` |
| `OutboxDelivery` | `outbox.go`, the delivery loop of `background.go`, `consume_event()` and the ingest behind it | control and corpus over a lossy POST |
| `IndexFence` | `indexing.py` with the tombstone, the collector, revival and rebuild requests | - |
| `ParseArchive` | `archive.py`, `submit_parse()`, polls, the callback, `reconcile_once()` | extends `IndexFence` |
| `UploadSessions` | `uploads.go`, `uploads_gc.go`, `upload_handlers.go`, the verify and housekeeping loops | control, object store and the reclaiming side of the corpus |
| `UsageBilling` | the quota gate of `ClaimUpload()`, `corpus_outbox` and its delivery (`outbox.py`), `RecordUsage()` | control and corpus over a lossy POST |
| `FederationExecution` | `admit()`, `execute()`, `cancel_execution()`, `retry_execution()` of `federation.py`, the handler of the queue task, the visits of `steps.py`, the sweeps of `reconcile.py` | instantiates `TaskLifecycle` as its queue |
| `LocalParse` | versions and parse tasks of `ddp_local/store.py`, `work_once()` of `runtime.py` | - |
| `LocalWiki` | builds, wikis and conversations of `ddp_local`, and what they retain | - |
| `*_proofs` | the theorems about each (those about `IndexFence` are the first part of `ParseArchive_proofs`) | extends its module and `TLAPS` |
| `MCClaims` | tables worked off by claims: `UploadSessions` and `CorpusWorker` side by side | extends both |
| `MCFences` | rows fenced by a generation: `FederationExecution` and `IndexFence` side by side | extends both |
| `MCLeases` | what leases end: `CorpusWorker`, `UploadSessions` and `LocalParse` side by side | three instances |
| other `MC*` | constants for TLC, nothing else | extends its module |

`MCClaims`, `MCFences` and `MCLeases` each ask one question of systems that share nothing. A variable
`focus`, chosen at the start, says which of them a behaviour moves, so that the
state spaces add up and are not multiplied.

Operators and actions have the names of the functions they model (`ClaimRows` is
the UPDATE of `claim()`, `FailRead` and `FailWrite` are the two statements of
`fail()`). An operator whose name has an underscore and a second part
(`Holds_StatusOnly`) is a plausible bug of the operator before the underscore; no
specification uses it. Replacing the one by the other must violate the property
it is listed with, which is how each property is known to be about the code.

### TaskQueue and CorpusWorker

`rows[t]` is a row of `tasks`: status, attempts, generation, lease, key, due.
A lease is `none`, `live` or `expired`; a backoff is due or not: time is abstract.
One statement of `queue.py` is one step, because each is one UPDATE or one
`SELECT ... FOR UPDATE SKIP LOCKED` with its UPDATE in a transaction. Where
the code has two statements without a lock there are two steps: `fail()` reads
attempts and then writes (`FailRead`, `FailWrite`), `sweep_exhausted()`
selects identities and then updates them (`SweepSelect`, `SweepUpdate`).

`runs` holds the calls of `run_one()` that are alive. The heartbeat may renew,
be refused (which cancels the handler) or raise; the deadline may pass and stop
the handler; the handler may end well, badly or not at all; `succeed()` may
raise after it has committed. A process may crash, or be told to stop and
drain. One pool stands for all: pools claim disjoint kinds and share nothing.

### OutboxDelivery

`outbox` has the row of each upload's event, `hand` what each replica is busy
with, `requests` the POSTs alive in the corpus. A POST whose sender gave up goes
on: that is how two deliveries of one event meet. `InsertMarker` is the INSERT
into `processed_events` (the second of two waits for the first to commit),
`Register` the commit inside `ingest_document()`, after which the marker is
durable whatever follows. `acceptable` stands for the contents of the corpus
that decide whether a target can be appended to; it may change at any time.

### EventOutbox

Two services keep an outbox towards each other, one in Go and one in Python, one modelled on the other (`outbox.py`
says so). `EventOutbox` is their common promise: an event has no effect before it was submitted, at most one
ever, and is delivered only after it; one that was given up may still take effect, and may still be acknowledged. Of each row
`OutboxDelivery` shows a status and the number of ingestions, `UsageBilling` a status and what control-api has made of the event: its ledger
entries, or the log line of a kind it does not know, which is the one way of being delivered without an entry (a parked event counts as open there, because a late failure of an older claim brings it back). `UploadSessions`, which knows of
its event only what reclamation reads, is shown to assume no more than that.

### IndexFence

`index[j]` holds the index columns of the row of a parse job, `chunks[j]` the generation
that wrote its chunks, `build[b]` what a builder works on. A claim counts the
generation up; a build happens outside any transaction; `Publish` checks the
generation under the locks of document and job. A rebuild request keeps the document
locked from before its checks until its commit, so it is one step (`Reindex`). A job may be archived after its resource was deleted (`arrived`). The collector commits its manifest first (`ClaimManifest`) and rechecks
before it deletes (`Collect`). Jobs stand for different logical resources; the
mirror of the current job's state on the document row is left out.

### ParseArchive

A session is a request, or a reconciliation pass with the job it looks at. It reads the row,
asks the gateway, and writes in a later step; SQLAlchemy writes nothing when the
value did not change, so neither does the model. The archive is one
transaction: succeeded, the usage event and the scheduling of the index. The
gateway may finish a task, reuse a running one of the same `job_id`, and forget
any task at any time (its own expiry is a day). Reading the status and the
gateway's answer to it are one step of the model.

### UploadSessions

`row[u]` is the row of an upload session, `s3[u]` what the object store knows of its
key: calls to begin a multipart that are under way, multiparts begun and alive,
parts, the object. A request (`hand[c]`) is a create, a reconcile or a finalize; it
may be abandoned at any point. A create commits the row, takes the permanent right to
begin the one multipart, and loses or learns the answer; later requests only
look for it. A finalize decides by the row it read first, binds its command,
merges and records. Verifiers (`check[v]`) digest a batch under leases that
may run out; keepers (`keep[k]`) expire and reclaim in steps that may fail
between the corpus's deletion of the object and the abort of its multiparts. The
outcome of the event of a ready upload is reduced to what reclamation reads of it.

### UsageBilling

An upload goes `new`, `locked`, `judged`, then `held` or `refused`: the three statements of the
gate are three steps under the lock of the quota row, because bookings take no such lock
and fall between them. `held` ends when the upload becomes ready or fails; finished work writes
its event with the work (`RecordUsageEvent`). A replica claims a batch and posts its events one by one; a claim
carries the attempts it was made with, and the outcome is written by these, whatever the row has become
(`WriteOutcome`). A request whose sender gave up may still arrive (`LateRequest`). `entries` and `charged`
count what one event did to the ledger and to the key. `Refused` is work whose organization control-api does not know.
`Unknown` is work of a usage kind that a control-api not yet upgraded may not know: while it is rolled out, each answer may differ. Such an event is answered with
success and booked nowhere (`Ignore`); `ignored` remembers the line in the log.

### FederationExecution

`exec[x]` is the row; `wins[x]` counts the writes of a success that recorded usage. A run is either an attempt of a
queue task (the pair of task and attempt) or a coordinator that executes the step itself. `execute()` is
claim, refresh, work and one of two results, as many transactions as the code has; what happens between the commit
of the claim and the refresh may be read back by the refresh (`Refresh`). Cancels and the sweep of dead tasks are two or
three steps each. Of the queue only what `TaskLifecycle` promises is used, which `CorpusWorker` is shown to implement:
a task may be taken again while its earlier run lives, though only by a stall.
Coordinators are resumes of the root task, which may overlap: the one reads the row (`Visit`), others may move it, and then the one flushes what it has read
(`RetryExecution`). `revived[x]` counts the successes written over in this way.

### LocalParse and LocalWiki

Every method of the store is one transaction under one lock, so one step; the processes of one workspace share the
database. `LocalParse` has a version with its task row, and a loop per process (`work_once()`): claim, renewal, success,
failure, and the final read of the task row, which ends the loop when the version was deleted meanwhile
(`FinishWork`). In `LocalWiki` the loops that claim are one flag: `looping`, set when a process with `work_forever()` starts, may be taken back at any moment, for
a loop ends with its process, or for good by an exception, and the command line has none. `LocalWiki` begins where versions are ready: a build is begun, freezes its sources, generates
outside any transaction, and publishes in one that checks status, sources and base again. Deletion is refused while
a revision depends on the version or an answer cites it, and takes the conversations of the resource along.

## 3. The runs

Each of the passing runs explores its whole bounded state space, and every
action of its module fires in one of them. Deadlock is checked except where
the system may really come to rest (all tasks ended, all indexes settled, the
session reclaimed); each such configuration says so.

| Run | Instance | Shows | States |
|---|---|---|---|
| `claims` | session: 1 upload, 2 requests, 2 commands, 2 verifiers, 2 keepers, 2 attempts, 3 faults; queue: 2 tasks, 1 key, 1 process with a pool of 2, 2 attempts, 1 restart | one multipart, the bound command runs, one event, ended stays ended, reclaimed leaves nothing, referenced is kept, refinement of `EventOutbox`; the fence is exclusive, no open row is out of reach, only the newest run succeeds, refinement of `TaskLifecycle` (final outcomes, bounded retries, keys that guard open tasks) | 988,155 |
| `sweep_lease` | 1 task, 2 processes | **violated**: the sweep fails a row whose lease was renewed after its SELECT | |
| `delivery` | 2 events, 2 replicas, batch of 1, 2 faults, fair | refinement of `EventOutbox` (one ingestion, delivered only after it); settled rows stay, every submission settles | 445,056 |
| `marker_rollback` | 1 event, 1 replica | **violated**: an error after the ingest's commit leaves the marker | |
| `fences` | index: 2 jobs, 2 builders, 1 rebuild, 2 faults; execution: 1 row, 2 tasks of 2 attempts, 2 overlapping resumes, visits up to generation 4, 1 mishap; fair | ready is searchable, one current builder, chunks move forward, a deleted document stays quiet, every index settles; usage is recorded by each success and nothing else, results are final but for a stale retry, every execution ends or is stranded | 347,918 |
| `parse_archive` | 1 job, 1 request, 1 pass, 1 resubmission, 2 faults, fair, days end | succeeded is accounted for, every job ends, a lost callback is recovered | 528,657 |
| `billed_once` | 1 job, 2 requests, 1 pass | **violated**: a stale poll makes an archived job be billed again | |
| `leases` | queue: 1 task, 2 processes, 2 restarts; session: 1 of each actor, 2 faults; local: 2 versions, 2 loops, 2 attempts, 2 stops; all fair | every task, session and parse ends; failed and expired sessions give their storage back; a version follows its task and no loop is ahead of it, one loop holds a task, outcomes stay | 140,139 |
| `metering` | 2 uploads of which one fits, one of a kind perhaps unknown, 2 replicas, batch of 2, 2 attempts, 1 fault, 2 periods, fair | the ledger agrees with the key, no usage is lost but an ignored one, what is accepted is booked, held pages fit, refinement of `EventOutbox` | 319,969 |
| `unknown_kind` | 1 upload of a kind unknown to control-api, 1 replica, no fault | **violated**: its usage is delivered and booked nowhere | |
| `two_resumes` | 1 execution, 2 tasks, 2 coordinators | **violated**: a second resume puts a cancelled execution back to queued | |
| `local` | 1 version, 3 builds, 1 conversation, 1 stop, fair | cited sources are kept, no wiki forks, ended builds stay, every build ends, or no loop goes on | 187,898 |

The type invariants are not among the checked ones, nor are a few invariants that a checked refinement implies (one
ingestion, ready is true, keys guard open tasks): they are theorems for every instance (section 5).

### Bounds and why they are enough

*Names and numbers.* `MaxRestarts` bounds crashes and stops, `MaxFaults` the
faults (lost and late answers, crashes, errors, leases that run out over work
still going on; `MaxMishaps` and `MaxStops` likewise), `MaxRebuilds` and `MaxRetries` the requests of users, `MaxTasks`,
`MaxVersions` and `MaxBuilds` what they create, `MaxPeriods` the quota periods that end, `MaxGeneration` the generation up to which an execution is visited again (nothing in the
code bounds how often a user resumes); `MaxAttempts`,
`BatchLimit` and `Concurrency` are parameters of the code made small. Nothing
else is bounded: generations, attempts and multiparts grow only with claims
and faults. In `UploadSessions` attempts can grow at each abandoned lease, which is why
it counts them only with faults there to let a batch be lost.

*Interference takes two.* Rows of the queue, of the outbox and of the sessions
are touched one at a time; what two rows share is the dedupe key, the pool and
the batch, and those have runs with two rows. Everything else needs one
row and two actors: a holder whose lease ran out and its successor, be they two
replicas or two runs of one pool. A wiki needs
three builds: one to make it and two that start from the same revision. An execution has two
tasks, the one it was admitted with and the one of a retry; two resumes are what it takes for one to flush what the other has made stale, and a retry that finds
no third task waits, which can end nothing late, since a row about to be retried has ended. The limit of the quota admits one of two uploads, so
that both passing at once would show. Two attempts have a first and a last one, and a
take more than the row can be given; two faults let a delivery be late and its
answer lost. `claims`, which has no liveness to check, treats requests,
commands, replicas and tasks as interchangeable.

*Proofs remove the bounds* from the safety properties of all nine models that a run checks; what stays bounded is
liveness.

### Fairness and why the code has it

- `CorpusWorker`: a process that is up goes round its loop (`asyncio.sleep`
  between rounds), one that is down is started again (the orchestrator's restart
  policy); a run is stopped at its deadline; backoffs and unrenewed leases run out. Nothing is
  assumed of handlers, heartbeats or the database's errors.
- `OutboxDelivery`: tickers tick, the corpus works off its requests, backoffs
  and abandoned leases run out.
- `IndexFence`, `ParseArchive`: the reconciliation loop ticks in some replica
  (also with `federation` off); builds and sessions that are not killed end;
  abandoned leases and archiving claims go stale; in `TimedSpec` days end.
- `UsageBilling`: `deliver_loop()` goes round on every replica, requests end by an answer or their timeout of 10 s, and
  windows and backoffs end. `EveryUsageIsBooked` has fewer faults than attempts: twelve failures in a row park an event, by design.
- `FederationExecution`: workers take and end tasks, runs and resumes under way go on, leases run out, and the sweeps go round. That anybody visits a step
  again is not assumed: `retry_execution()` is called only inside a running root task (`steps.py:249`), and an execution admitted from a peer has none. Nor is
  it assumed that the sweep finds a dead task beside one that has succeeded: it keeps the first ended task its SELECT returns, and names no order. What this
  leaves open is the row that `Stranded` describes, the exception of `EveryExecutionEnds`.
- `LocalParse`: loops run, a parse is stopped after its 120 s, abandoned leases
  run out, and a process that is down is started again. Nobody starts a loop again in a process that still answers.
- `LocalWiki`: a model call ends by its timeout, abandoned leases run out, and a loop claims for as long as it goes on. Nothing makes a loop start or keeps one
  going: a killed build is interrupted only by `claim()` (`store.py:1375`), so it may read running while no loop goes on, and `EveryBuildEnds` excepts that.
- `UploadSessions`: housekeeping ticks, requests end, sessions become overdue.
  Nothing is assumed of verifiers: a session ends also if none runs.

All of it is weak fairness of single processes. Faults are never required to
happen, and a run's bound on them means "finitely many", anywhere.

## 4. What the violated runs say

Each states what a comment, a docstring, a contract or a test of the
repository claims, and TLC has a run of the code's own statements against it.
The quotations are in `PROJECT.json`.

1. **`sweep_lease`** - `sweep_exhausted()` promises to leave rows in their lease alone, but its
   UPDATE repeats only the status and the attempts: a heartbeat between SELECT and UPDATE is lost.
2. **`marker_rollback`** - `consume_event()` promises that a failing handler rolls its marker
   back. The ingest commits the shared session before it submits the parse; a
   failing submission answers with an error and the redelivery is a duplicate. (The parse job
   itself remains pending and the reconciliation loop fails it after a day: `EveryJobEnds`.)
3. **`billed_once`** - polls and passes write `running` from a stale read; over an archived job this makes it
   claimable, archived and billed again.
4. **`two_resumes`** - "cancelled is terminal", but `retry_execution()` flushes the row it has read: of two resumes of one
   root task that overlap, the second puts an execution back to queued that was run and cancelled after it had read it.
5. **`unknown_kind`** - `outbox.py:40-44` promises that usage of a kind control-api was not upgraded to know stays in the table and counts as backlog. control-api answers it
   with success and books nothing (`internal_handlers.go:170-183`, on purpose): the row is delivered at the first attempt and only a log line remains. `NoUsageIsLost`,
   `UsageKeepsOutbox` and `EveryUsageIsBooked` name this exception.

Smaller ones the models show and no run states:

- A resubmission of a parse commits `pending` before the new `created_at` (`documents.py:392`, `ingest.py:281`); a pass that read the
  row in between fails the job for its age at its turn (`reconcile.py:52`), also after the new parse was accepted, where
  `tests/test_documents.py:521` says it must not.
- The loop of a local workspace ends for good when a version is cancelled and deleted while its parse runs: `work_once()` reads the
  deleted task row (`runtime.py:335`), and `http.py:125` starts the loop once. Accepted parses then wait for
  the next start. `EveryParseEnds` names this case as its exception.
- Deleting one version erases the conversations of its resource, and so answers about the resource's other versions
  (`store.py:697-712`), which `_guard_delete()` refuses to do for the version itself.
- `retry_execution()` does not look at what `enqueue()` returns: while an old task of the execution is still open the row is queued
  without a task of its own. If that task then succeeds without running it, only another visit of the step brings it to an end, and nobody need make one;
  the sweep leaves rows of succeeded tasks alone (`reconcile.py:219-222`). `federation.py:14-17` says of a crash that no row stays in queued forever. `EveryExecutionEnds` names this case as its exception (`Stranded`).
- The generation a run works under is read back after the claim is committed (`federation.py:1550-1552`), and
  `heartbeat_execution()` does not compare it: a stalled run may work under, or keep alive, the claim of its successor. The
  result is written once all the same (`MeteredIffSucceeded`).
- A ready upload is neither held nor used until its usage is booked, so admissions in between may exceed the limit by
  it; `keys.go:253-257` describes this for the check of a call.
- A batch of twenty posts of 10 s outlasts the window of 60 s that hides it: an event may be delivered twice, and a late failure may
  park a row another replica retries (`outbox.py:154`). The ledger is unharmed (`ChargedAsBooked`, `NoUsageIsLost`).
- The contract's "rejected" is not final while an older POST is alive: it may register the document after a
  second delivery was refused, and its answer reaches nobody (`outbox.go:102`).
- The fence of `MarkUploadVerified()` is that *some* lease is fresh, not the verifier's own (`uploads.go:174`). Harmless
  here (`SubmittedOnce` holds), since all verifiers digest the same immutable object.
- The claim of a verification precedes the sweep in each tick and waits for the same lease, so the
  limit of attempts can be passed (`uploads.go:226`); the session ends by its expiry instead (`EverySessionEnds`).

## 5. The proofs

All are checked by TLAPS from the assumptions on constants alone (`MaxAttempts`,
`Concurrency`, `BatchLimit` positive, bounds natural, null values outside their sets).

**`CorpusWorker_proofs`** - `TypeCorrect`, `FenceCorrect`, `RetriesCorrect`, `KeysCorrect`,
`TerminalRowsAreFinal`, `NewestRunSucceeds`, and `ImplementsLifecycle` (the refinement). The inductive
invariant is the conjunction of these: none is inductive alone. That a claim
gives out a fresh generation needs `GenerationCountsTakes`; that a requeued row
has no run needs the fence; that an open row stays reachable needs that a run about
to requeue has attempts left. It is split into what it says of a row, of the runs and of the
loops, and each action is one lemma on the part it disturbs.

**`OutboxDelivery_proofs`** - `DeliveryTypes`, `IngestsOnce`, `ReadyIsTrue`, `SettledRowsAreFinal`, `DeliveryImplementsOutbox`. The
invariant follows the marker: one uncommitted marker per event, no marker where one is committed, and
every answer that can become an acknowledgement comes from a committed one. The action
property needs in addition that a claim's outcome is written at most under its own attempt; the refinement, that
no request is under way for an event that was not submitted. Its argument is short once it is known how the status of one row
can move (`StatusMoves`): a claim moves none, the consumer's commit none, and an outcome moves that of its own event.

**`ParseArchive_proofs`, about `IndexFence`** - `IndexTypes`, `ReadyIsServed`, `BuildersAreFenced`, `ChunksAdvance`,
`DeletedStaysQuietAlways`. A generation is given out once, so no build is ahead of its row and no two builds share
one; chunks are behind the row while it is built; a deleted document has no live resource.

**`ParseArchive_proofs`, about the pipeline** - `PipelineTypes`, `SucceededIsAccounted`, `PipelineServesWhatIsReady`. The pipeline does only two
things to the index, mark a job and revive the document, so the lemmas about `IndexFence` carry
over; its own part says what a session still knows of its job when it writes.

**`UploadSessions_proofs`** - `UploadTypes`, `OneMultipartEver`, `ReceiptIsFinal`, `BoundCommandIsRun`,
`SubmittedExactlyOnce`, `EndedIsFinal`, `ReclaimedIsEmpty`, `ReferencedBytesStay`, `SessionsImplementOutbox`. First, six lemmas sum up
what any step makes of a row, a key, an event, a request, a batch and a keeper; the invariant is then shown
from these and not from the 41 actions. Its parts: how far an allocation has come bounds the multiparts there
can be; what a request under way has bound is what its row is bound to; the event follows the status. The part
that took most thought is `Over`: a session that was claimed for reclamation once has ended, is settled, and
has no request left but one that repeats the finalize of a ready upload. `Over` is stable, so a cleanup that
outlasts its claim, or one repeated by another keeper, finds nothing that could still write. The refinement
needs that no step writes the events of two uploads, and that an event is submitted only while its state is none.

**`UsageBilling_proofs`** - `BillingTypes`, `ChargedExactlyAsBooked`, `UsageIsKept`, `QuotaIsKept`, `UsageImplementsOutbox`. An acknowledgement may be
written long after it was received, and an event parked by a claim long superseded: the invariant adds that a claim answered with success has its
entry or is of a kind that was ignored, and that no claim carries more attempts than its row. The refinement adds that only finished work is claimed, under way or delivered.
`QuotaIsKept` (`HeldFits`) rests on two invariants. `LockInv`: one admission at a time is between its lock and
its commit. `SumsInv`: what it has summed is at least what is held, although bookings and releases go on beside it, and
only finitely many sessions are held or booked, so the sums exist. That a sum over a finite set grows by what is
added and shrinks by what is taken away is proved for sets of every size without induction over data: `SumsUp` says of a function on all subsets that it
obeys the recursion of the library's fold; were there sets without such a function, or with two, a smallest one would exist
(inclusion is well-founded on finite sets), and the recursion itself gives the contradiction.

**`FederationExecution_proofs`** - `ExecTypes`, `MeteredOnce`, `ResultIsFinal`, for any number of executions, tasks and resumes, which may overlap. A row
moves in one of three ways (`NextAnyRow`): it is kept, it moves from a state in which it had not ended, or a retry writes it. The
retry may be stale, and then it may write over a success or take the generation back; both theorems say so instead of excluding it: `MeteredIffSucceeded` counts a
success that was written over (`revived`), and `OutcomeIsFinal` excepts the write of a retry whose row has changed since it was read, and nothing else.

**`LocalWiki_proofs`** - `WikiTypes`, `CitedIsKept`, `WikisNeverFork`, `EndedBuildsAreFinal`. The invariant says what a build rests on (its base is a
revision of its wiki) and that nobody has rested on the head yet, which is why a revision published on it is the first
to do so; whatever is retained exists, by the guard of deletion and by `check_frozen()` at publication.

**`LocalParse_proofs`** - `LocalParseTypes`, `VersionsFollowTasks`, `HoldersAreAlone`, `OutcomesAreFinal`. Loops may work on for a task that
was taken over, cancelled or deleted meanwhile. What keeps them from writing is the generation, and that works because every generation a loop
holds was given out by the row, and each to one loop (`LoopsInv`).

**Model-checked only**: liveness (fairness and ENABLED are beyond the prover) and the violated runs. Every safety property of a
passing run, invariant, action property or refinement, is the statement of a theorem.

## 6. Abstractions to keep in mind

- Leases, backoffs, expiry and "a day old" are flags that time may set; a lease runs out over
  work that goes on only as a fault, and without fault once nobody renews it.
- `ParseArchive`: the gateway may forget a task at any time; callbacks carry no payload; documents of
  external origin, images and layout are left out.
- `OutboxDelivery`: only `DocumentSubmitted` for permanent uploads.
- `UploadSessions`: the hour of grace after expiry is over only when no request of the session is left (the server
  sets no write timeout, so this is an assumption about clients); the same holds of a delivery
  that is still under way when its event reads rejected. The corpus runs on PostgreSQL (other backends refuse to
  collect). The corpus's other protections (computations, pending manifests, its own grace) can only
  make it refuse. Batches of the sweeps (32 and 20) are not modelled; verifiers' batch is.
- `UsageBilling`: one organization with a limit; the estimate is what the gate asks for and may differ from the pages used; events of another type than
  `UsageRecorded`, which control-api acknowledges and ignores, are left out: the corpus writes none. Within the rollout of a new usage kind, each answer of
  control-api may be that of the old or of the new version.
- `FederationExecution`: what a step computes is success or failure; refusals of `admit()`, probes, the tombstone of a key that is
  cancelled before it is admitted, and the inline mode are left out; a missing queue task (`queue_task_missing`) is not modelled, for nothing
  deletes tasks.
- `LocalParse`, `LocalWiki`: blobs, the index, upload sessions and the contents of pages are left out; an import is the appearance of a
  ready version, and the wiki draft a bundle may bring is left out. Errors of SQLite itself are not modelled; one raised out of `claim()` ends the loop, which `LocalWiki`
  allows at any moment (`EndLoop`).
- SDK retries are off in `objectstore.go`, so a call to the object store is one call.

## 7. What is not modelled, and the plan

`PROJECT.json` gives each component's status. The order of what is left:

1. **FederationBudget** (reservation, settlement and release across attempts) and the coordinator: plan, consent, steps, synthesis,
   with `FederationExecution` as one step, and what the root task's own fence makes of resumes that overlap.
2. **DocumentGC**: manifest, recheck, drain, revival: no live original deleted, no key forgotten. The local counterpart is
   `sweep_unreferenced_blobs()` against `put_stream()` of a blob that exists (`store.py:1749`).
3. **LocalDispatch** with consents; **DiscoveryLease**, **WikiRevisions**, **ModelProcess**, **ClientSync**.
4. Proofs: that used and held pages together exceed the limit by no more than the pages of work under way.

Left out for good: cryptography and identity providers, ranking and models (their outcome is data), user
interfaces, deployment, migrations and evaluation scripts.
