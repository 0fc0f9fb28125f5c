# Triggerlane in TLA+

Triggerlane receives events (HTTP, command line, files), stores each one in an
append-only JSONL log, evaluates a registry of triggers on it and submits one
Worklane job per matched trigger. This directory models the parts of it that are
hard to test: the ingest pipeline with its crashes, timeouts and retries, the
HTTP surface and the shutdown of the server, the dead-trigger queue and its
retries, the retention of the durable stores, the file operations and the lock
under them, the decisions made of settings, conditions and metadata, and the
example worker that runs the jobs. Modules are checked by TLC on small instances;
their safety is also proved, for every instance, with TLAPS.

Paths below are relative to `src/crates/`, but for the worker, which is
`src/examples/invoker/src/lib.rs`. `PROJECT.json` maps every definition
to the lines it models.

## 1. Inventory of the system

| Component | State | Operations | Interacts with |
| --- | --- | --- | --- |
| `EventIngest` (`triggerlane-runtime`) | none of its own | `ingest`, `accept`, `dispatch`, `recover_undelivered` | event store, runtime |
| `TriggerRuntime` | registry, options, observed lanes | `handle`, `enqueue_with_retries`, `replay_by_id`, `replay_range`, `retry_dead_triggers` | broker, dead-trigger queue |
| `TriggerRegistry`, conditions, bindings | triggers by priority | `register`, `matching`, `bind` | called by `handle` |
| HTTP receiver (`triggerlane-http`) | readiness flag | `POST /events` (inline or accept-and-dispatch), replay and read endpoints, webhook and bearer checks | `EventIngest`, dispatch channel |
| `serve` (`triggerlane-cli`) | dispatch channel, tasks | start-up recovery, dispatcher, maintenance, request timeout, graceful shutdown | everything above |
| `FileEventStore` (`triggerlane-storage`) | event log, delivered journal, delivered set | `append`, `mark_delivered`, `undelivered`, `enforce_retention`, `prune`, `open` | two `JsonlStore`s |
| `FileDeadTriggerQueue` | dead-trigger records | `record`, `drain`, `prune`, `enforce_retention` | one `JsonlStore` |
| `JsonlStore` | file, append handle, records in memory | `open`, `append`, `drain`, `retain`, `replace_all`, `prune` | file system, advisory lock |
| retention policies | none (pure) | `ManualRetention::keep`, `retain_events`, `retain_dead_triggers`, `apply_size_bounds` | both stores |
| event envelope and sources (`triggerlane-core`) | none (pure) | `EventEnvelope::new`, `with_metadata`, `follow_up`, the webhook and file constructors | HTTP receiver, command line |
| settings and command line (`triggerlane-cli`) | none (pure) | `parse_*`, `*_from_env`, `resolve_broker_url`, trigger files | everything, at start-up |
| example worker (`examples/invoker`) | one reservation, three timers | `process_once`, `run_bounded`, `resolve`, `requeue_dead_letter` | broker, HTTP endpoint or child process |
| Worklane broker | live jobs by unique key, leases, dead letters | `enqueue`, `reserve`, `extend`, `ack`, `retry`, `fail` | external |

Where it is hard:

* *Crashes and errors between steps.* An event is appended, then submitted
  trigger by trigger, then marked delivered. Any store or broker call may fail,
  the process may die in between, and the request future may be dropped by the
  timeout at an `await`. Correct means: nothing acknowledged is lost, nothing is
  marked delivered before all its triggers were taken, and what was interrupted
  is replayed at the next start.
* *Concurrency.* Requests, the dispatcher, replays and the maintenance task
  share the stores. Each store call is atomic, but decisions span several: the
  key look-up and the append, a sweep's snapshot and its rewrite.
* *Durability.* A line may be torn, a write not yet synced, the name of a new or
  renamed file not yet durable, a call failing half-way through a compaction or a
  drain; a process may die and leave all that to the next one and its power loss.
* *Bounds.* A full dispatch channel, byte and count limits, saturation and
  overflow of settings.
* *Several processes.* A server and a command on one store, where a compaction
  replaces the file that carries the lock.
* *Time.* A lease that runs out beside a late answer, a deadline that ends the
  wait and not the work, a stalled client at shutdown.

## 2. Modules

| Module | What it is |
| --- | --- |
| `Delivery` | Abstract specification: what a stored event may go through (unknown, stored, delivered, retired) and when. |
| `Ingest` | The ingest pipeline and the server's life cycle. Implements `Delivery`. |
| `MCIngest` | Keys and trigger matches for the runs of `Ingest`. |
| `Filtering` | The elements of a sequence that are in a set, as a recursive function that the proofs can expand. |
| `Retention` | The retention decisions, as operators; uses `Filtering`. |
| `Settings` | How settings are read, and the submission back-off, as operators; uses `Retention`. |
| `Conditions` | Match conditions as a trigger file states them, and the registry built of them, as operators; uses `Registry`. |
| `Envelope` | Event construction and follow-up chains, as operators. |
| `Decisions` | A machine that applies `Retention`, `Settings`, `Conditions` and `Envelope` to one case after another, and the declarative definitions they are held against. |
| `MCDecisions` | The policies, settings, trigger configurations and metadata for the run of `Decisions`. |
| `Receiver` | Connections on every HTTP route with their guards and answers, paging, request timeout, graceful shutdown. |
| `MCReceiver` | Configurations for the run of `Receiver`. |
| `StoreLock` | The advisory lock of a store file between processes. |
| `Invoker` | The example worker and the broker's leases. |
| `EventStore` | `FileEventStore` at the granularity of its locks; uses `Retention`. |
| `MCEventStore` | Policies for the runs of `EventStore`. |
| `DurableLog` | Abstract specification: what one JSONL file promises, without system calls, handles and syncs. |
| `JsonlStore` | One JSONL file at the granularity of system calls. Implements `DurableLog`. |
| `Registry` | Registration by priority and matching, as operators. |
| `DeadTriggers` | Dead-trigger records from failure to retry, across processes; uses `Registry` and `Retention`. |
| `MCDeadTriggers` | Events, configurations, windows and policies for the run of `DeadTriggers`. |
| `RetentionLemmas` | Lemmas about sequences, `Filter` and the retention operators, used by four of the proof modules. |
| `IngestProofs`, `EventStoreProofs`, `JsonlStoreProofs`, `DecisionProofs`, `DeadTriggersProofs`, `InvokerProofs`, `ReceiverProofs` | TLAPS theorems about the module in their name, `DecisionProofs` about `Decisions`. |

The layers meet at the store calls: `Ingest` takes an append, a dead-trigger
record and a delivery mark to be one durable step that succeeds or fails;
`EventStore` opens up the mark and the sweep, with each operation on one
`JsonlStore` a step; `JsonlStore` opens up those. `DeadTriggers` follows one
failure further than `Ingest` does, over several processes; it takes the stores
to be locked, which `StoreLock` examines. `Receiver` is in front of `Ingest`: it
has the checks and the shutdown, and a handler that stores and submits or fails.
`Invoker` is behind it: it begins with a job in the lane.

### Ingest

A request `r` stands for a `POST /events` and for the event (with its fresh id)
that it carries. `pc[r]` is where the request is in `ingest`/`accept` and the
HTTP handler: `new`, `fresh` (the key look-up found nothing), `handle` or `send`
(appended), or its answer: `accepted`, `duplicate`, `error` (500), `timeout`
(408), `lost` (the process died). `work[w]` is the state of one run of
`TriggerRuntime::handle`: the event, the next trigger and the failed attempts. A
worker is the request itself (synchronous mode), the dispatcher (asynchronous
mode), the serve task in start-up recovery, or a replay request. `proc` is the
process: `down`, `recovering`, `serving`, `draining`.

| Code | Actions |
| --- | --- |
| `ingest`/`accept` | `Receive`, `Store`, `StoreFails` |
| `AcceptEventHandler`, `spawn_dispatcher` | `Send`, `SendFails`, `Dispatch` |
| `handle`, `enqueue_with_retries`, `record_dead_trigger` | `Enqueue`, `EnqueueFails`, `RecordDead`, `RecordDeadFails` |
| the end of `ingest`, `dispatch`, `recover_undelivered` | `MarkDelivered`, `MarkFails` |
| `replay_by_id` | `ReplayById`, then the steps of `handle`, `Replayed` |
| `TimeoutLayer` | `TimeoutHandling`, `TimeoutSending` |
| `serve` | `Start`, `Recover`, `Serve`, `Drain`, `Exit`, `Crash` |
| `spawn_maintenance` | `Retire` |
| Worklane (external) | `Lands` inside an enqueue, `Complete` |

A request or a replay on an open connection is still taken while the server drains.
`SendFails` is the closed channel, which a running server meets only if its
dispatcher task is gone; it counts as one of the failing calls.

The broker keeps at most one live job per unique key: enqueueing a live key
changes nothing, enqueueing a finished one makes a new job. A failing or dropped
enqueue may or may not have landed. A binding that fails and an invalid lane are
not retried (`Broken`). `Retire` is automatic retention under the grace bound
alone; hard bounds, which may remove undelivered events, are in `Retention` and
`EventStore` (section 7). Matching is evaluated once per event and taken from the
constant `Matches`; `DistinctMatches` says that it names no trigger twice for one
event, which the runs assume. Metrics, traces and response bodies are left out. The event
log is a set here, since its order decides nothing in the pipeline. Recovery
takes the undelivered events in any order, which includes append order.

### Retention and EventStore

A record is `[id, ts, size]`. `mark_delivered` is three steps (look in the set,
append to the journal, insert into the set), `enforce_retention` four (snapshot
the set, compact the log, replace the journal, replace the set), and the two
interleave with each other and with appends. A crash drops the set and the calls
in progress; `Open` rebuilds the set from the journal; `Prune` is the operator's
command, which needs the store's lock and so runs only without a server. Marks
and sweeps may fail at each write. `appended`, `marked` and `raced` are history
variables for the properties. A sweep whose journal compaction fails after its rename
is left out here: `SweepFails` changes nothing, and `JsonlStore` has what happens to
one file then.

### JsonlStore

A file is a sequence of lines (a record, or `Bad`) and an unterminated tail (empty, a
whole record, torn, or cut inside a character), or it is `Missing`. `file` is the
content at the path as the running system sees it. `inode` are the contents that a
power loss may leave of that file; `stale` are those that the path may stand for
instead as long as its directory entry is not durable: no file at all after a
creation, the old file after a rename. `handle` says whether the append handle is on
the file at the path or on one that was renamed away. Operations hold the file mutex,
so one is in progress at a time; `op` says how far it is.

| Code | Actions |
| --- | --- |
| `open`, `read_jsonl` | `Open`, or `Create`, `CreateSyncDir`, `CreateFails` for a new file |
| `append` | `AppendBegin`, `AppendWrite`, `AppendSync`, and their failures |
| `drain` | `DrainTruncate`, `DrainSync`, `DrainSyncFails` |
| `prune`, `retain`, `replace_all`, `compact_jsonl` | `CompactCopy`, `CompactRename`, `CompactSyncDir`, `CompactReopen`, `CompactFails` |
| external | `Kill`, `PowerLoss` |

`Kill` is the death of the process, at any of these steps and inside a write. It
leaves the file as it is seen and makes nothing more durable: the next process opens a
file whose content, and whose name, may still be lost, as `open` syncs neither.
`PowerLoss` leaves any of `inode` and `stale`. `HasParent` is whether the path names a
directory: without one, as in the default paths, `sync_parent_dir` does nothing and the
name is never made durable. Failing calls are those in `Faults`.

The history variable `damage` records where the store is at risk or was damaged, since
the safety properties are stated outside that and the findings are about it:

| Damage | Means |
| --- | --- |
| `unnamed` | It is used under a name that is not durable. |
| `forgotten` | Such a name was lost with the power. |
| `glued` | An append was completed behind an unterminated tail. |
| `cut` | A stop left a tail cut inside a character. |
| `orphaned` | A compaction failed after its rename. |
| `halfdrained` | A drain failed after its truncation. |

Two simplifications: `CompactCopy` keeps append order, where `replace_all` writes the
journal in the order of a `HashSet` (the journal is read back into a set); and what a
process writes to a renamed-away file (`orphan`) is taken to be lost, though a power
loss that undoes the rename could bring it back.

`DurableLog` is the promise without any of this: a log with a `view` that an
acknowledgement extends at its end, a removal that takes effect as a whole or not at
all, and a stop that leaves the view, or the view without the removed records, and
besides only records of `limbo`, whose append nobody acknowledged. `loose` is whether
the log may end in an unterminated line, `exposed` whether its name may be lost. The
mapping takes `view` from the memory of an open store and from the file of a closed
one, `limbo` and `loose` from every content that a stop may leave, `exposed` from `unnamed`,
`removing` from the operation in progress, `damaged` from the other kinds of damage. A drain
begins its removal with the truncation and a compaction with the rename; both finish it
when the memory changes, after the sync. A damaged log promises nothing; `DurableLog`
says what may damage it: a removal that fails after it began, an append behind an
unterminated line, and a stop while an append that is not acknowledged is in the file
or while the name is exposed.

### DeadTriggers

The stores are locked by the process that opens them, so `process` is one server
or one CLI command at a time, each with the `registry` it loaded at its start.
`task[w]` is one pass over events: recovery or the handling of a new event
(`Ingester`), a range replay or a retry (`Operator`). A pass has the events `todo`,
the triggers `rest` of the first of them, those that failed (`nowFailed`), the
`drained` records and the `report` of a retry. A server runs both tasks side by
side, a command one.

| Code | Actions |
| --- | --- |
| `build_ingest`, start of `serve` with `recover_undelivered` | `Start` |
| `ingest` | `Handle` |
| `preview_range`, `replay_range` | `ReplayRange` with `PreviewRange` |
| `retry_dead_triggers` | `RetryDeadTriggers`, `DrainFails`, `NextEvent` (its accounting), `Finish` |
| `handle` | `Submit`, `Fail`, `HandlingFails`, `NextEvent` |
| `TimeoutLayer`, end of a process | `Timeout`, `Crash` |
| `spawn_maintenance`, `prune` | `Maintain`, `Prune` |

One submission with its retries is a step here. `DistinctNames` says that a
configuration names no trigger twice, which `parse_registry` does not check: the
run assumes it, and only the two theorems about what a retry leaves and reports
need it. `DrainFails` has the two outcomes of a failing drain: the truncation fails and
nothing changes, or the sync after it fails and the command exits with an error, the
records in its hands, and a file that is empty. An append to the queue that fails is
taken to leave no record, though one that fails in its sync may leave it. `owed` and
`damaged` are history: the recorded failures that nobody has settled, and those that a
broken-off retry pass, or such a drain, took with it.

### Receiver

`req[c]` is the connection of client `c`, from the headers of a request to its written
answer: `headers`, `routing` (the body is read and the guards are evaluated), `storing`,
`handling`, `marking`, `writing`, or `none`. Route, credential (signature or bearer token)
and form are chosen when they are looked at; `Refusal` gives the status of a request that
does not pass, in the order in which the code checks: body limit, signature and JSON for
`POST /events`, token and then id, query or source for the reads, nothing for the probes.
Reads go through it too, and answer 200 or 404 only if it admits them. A credential that
the configuration does not ask for is left out.

The request timeout begins after the headers and ends with the answer, and it can drop
the handler only where that waits. The store calls (`storing`, `marking`) run inside the
handler's poll without an `await`, so neither `Timeout` nor `Disconnect` cuts them short.
`Signal` is the shutdown future with its readiness flag, `StopAccepting` the end of the
accept loop; `Stop`, the end of the drain, waits for every connection, also for those
whose client has not finished its headers or does not read its answer.

`touched` is history: the request stored an event or submitted a job. `walk` is a client
that reads `GET /events` page by page, at an offset of what it has seen, while events are
appended and retired; `owed` is what it has still to show.

### Settings, Conditions, Envelope

A raw setting is the part of its text that the parsers tell apart: unset, empty, `off`,
not a number, or a number with its sign and unit (`bare` where there is none, `other`
where it is none of the four). `ParseDuration`, `BoundNumber` and the others follow the
functions of `main.rs` one by one, with their differences: some take an empty value for
unset, some turn a zero off, some refuse it. The widths (bits of a `u32`, largest `u64`
and `i64`, longest durations) are constants, scaled down in the runs so that overflow and
saturation happen.

`BuildCondition` builds the condition of a trigger file, nested to any depth, into a set
of events, which is all that a `dyn Trigger` shows of itself. A JSON payload is the
pointers that resolve in it. `ParseRegistry` registers one entry after the other, each of
which sorts the registry again. `FollowUp` builds envelopes without type and payload.

A behaviour of `Decisions` is one case of one of these: a log that is swept, and swept
again later; a setting, used for one retry after another; a trigger configuration, whose
registry every event is matched against; a chain in which any event so far may cause the
next one.

### StoreLock

Files, the `path` to one of them, the `holder` of each file's lock and the handle
of each process. `ReadFile`, `OpenAppend` and `TryLock` are `JsonlStore::open`;
`Rename`, `Reopen` and `Relock` are a compaction, whose failure leaves the old
handle in place. The contents of the files are in `JsonlStore`.

### Invoker

`worker[w]` is one `process_once` loop: idle, invoking, awaiting `extend`, or
resolving with a verdict; with its heartbeat and deadline timers. `job[j]` is the
broker's record with its lease. Time is discrete; `Tick` counts leases and timers
down. A tick while a due timer or a broker call is still waiting is a late tick,
counted as a fault together with failing broker calls and crashes. The three arms
of `run_bounded` are `InvocationEnds`, `DeadlineFires` and `HeartbeatFires` with
`ExtendOk`, `ExtendStale` and `ExtendFails`; `Resolve` and `ResolveFails` are
`resolve` and its broker call. `worked` and `runs` are history: whether the work of
a job was really done, whatever was reported, and how often it was invoked.
`strays` are child processes that the deadline abandoned.

## 3. Runs

Passing runs (only `invoker` checks deadlock, where the clock must always be able
to run: an idle server, or one that has used up the bounded faults and stops, may
stand still, and a decision is made once):

| Run | Checks |
| --- | --- |
| `ingest_sync` | Two requests with one key, a working and a broken trigger, 2 attempts, 2 failing calls, 2 stops, retention, and a replay request beside them. Safety, refinement of `Delivery`, answers and recovery under fairness. |
| `ingest_async` | Three requests over a channel of capacity 1, so that one is being dispatched, one queued and one waiting; 1 failing call, 1 stop. What is particular to acknowledge-before-handle, and that a request waiting for room is answered. |
| `receiver` | Two clients on every route, 2 events, pages of 1, two configurations: each guard without the other, each mode, with a request timeout. The theorems cover every other configuration. |
| `decisions` | Every log of up to 3 records with sizes 1 to 2 and timestamps 0 to 2, 36 policies, 3 delivered sets, two sweeps; 52 raw settings at, below and above every width, with up to 7 retries at a factor of 4 bits; configurations of one trigger with any of the nested conditions and of up to three triggers with three priorities; chains of up to 4 events. |
| `event_store` | 3 events, a policy with the grace bound alone and one with hard bounds, 1 crash, clock 0 to 1. |
| `dead_triggers` | 2 events, 2 triggers of which one configuration disables one, 2 windows, 3 processes, 4 failures: enough for a failure to be recorded twice, retried by a pass that is broken off, and retried again. |
| `jsonl_store` | 3 records under a path with a directory, 1 failing call of any kind, 2 deaths of the process, 1 power loss. |
| `invoker` | An HTTP and a subprocess worker, 2 jobs of which one has no endpoint, 2 attempts, a lease of 2 ticks, a deadline of 3, so that one invocation has two heartbeats, 1 fault. |

What the properties say:

* `DeliveredMeansTaken`: an event is marked delivered, or retired, only after
  every matched trigger was submitted or dead-lettered.
* `AcknowledgedIsStored`, `StoredBeforeSubmitted`: persist, then handle and
  answer.
* `RecoveredBeforeServing`: when traffic is taken, no event cut off by an earlier
  stop is still undelivered, and an accepted one is in this process's hands. (The
  second half matters in asynchronous mode, where the theorem covers it.)
* `AnswerReportsHandling`: a synchronous 200 means that the triggers were taken.
* `RunsOnceUnlessRedelivered`: a finished job is submitted again only after a
  failure, a stop, a replay or a second event with its key.
* `ImplementsDelivery`: the life of an event is that of `Delivery`.
* `EveryRequestAnswered`, `StoppedEventsDelivered`, `AcceptedIsHandled`: liveness.
* `KeepsLongestFittingSuffix`, `UndeliveredNeedHardBound`: the retention decisions
  against declarative ones.
* `BackoffDoublesToCap`: the first delay is the base, and each one twice the delay
  before it up to the cap, past the width of the factor too.
* `SettingsHonoured`: a setting is refused or taken exactly as it is written, never as
  the remainder of an overflow, and no bound is off unless it was written so.
* `FiresInOrder`: an event fires exactly the enabled triggers of the file whose condition
  it meets, each once, by priority and then by their place in the file, though every
  registration sorts again.
* `ChainKeepsRoot`: a follow-up event carries its root's correlation, tenant and
  trace and its cause's id, and no idempotency key.
* `RefusedHasNoEffect`: what stored an event, submitted a job or showed whether an event
  exists had the credential its configuration demands; what had an effect was well
  formed and was not answered as refused.
* `WalkIsFaithful`: paging shows events in order and none twice; it misses one only
  if an event that was already shown was removed meanwhile.
* `Drains`: with a request timeout a shutdown ends, though the broker and the dispatcher
  hang and clients stall in their bodies, as long as no client stalls for ever in its
  headers or over its answer (`ClientsGoOn`).
* `HeartbeatKeepsLease`: without faults no job is handed to a second worker.
* `DeadLetterJustified`: without a terminal reply or a failed heartbeat, a dead
  letter was invoked `max_attempts` times, however many leases were lost. (That the
  result of a worker whose lease is gone is ignored is the broker's doing.)
* `AckedWasDone`: a job is acknowledged only if its work was done.
* `EveryJobSettles`, `WorkersComeBack`: jobs are settled and workers return,
  though endpoints hang.
* `NeverMarkedIsUndelivered`, `SweepRemovesOnlyDelivered`,
  `MarksOutsideSweepsSurvive`: sweeps, marks, crashes and reopening cannot make
  recovery skip an event, remove an undelivered one, or forget a mark that did
  not overlap a sweep. (A mark that does overlap one may be overwritten by it and
  the event delivered again, which a comment of `enforce_retention` accepts.)
* `NoneForgotten`: a recorded failure stays in the queue, or in the hands of a
  running retry, until it is submitted, removed by retention or no longer matched
  by the registry, with two exceptions: a retry pass that is broken off, which had
  drained the queue first, so that a crash or an error of the queue loses the records it
  had not yet handled; and a drain that fails after its truncation.
* `RetryLeavesNoDuplicates`, `RetryReportMatchesQueue`: a retry leaves one record
  per event and trigger, and reports how many of the distinct pairs it took are back in
  the queue; these counts partition the drained records only if no pair was drained twice
  (see below). A trigger that the registry no longer matches counts as
  recovered.
* `AcknowledgedSurvives`, `RemovedStaysRemoved`, `MemoryMatchesFile`: durability of one
  file, whatever death, power loss or error falls where, outside the kinds of damage.
  Under a name that is not durable they speak of the deaths of the process and of the
  power losses that leave the name; a removed record stays removed also in a store
  damaged in other ways, unless a compaction failed after its rename.
* `ImplementsDurableLog`: the same, and more, as one specification: order, removals
  that are all or nothing, and what a crash may show besides.

Every property of a passing run has a mutant in `PROJECT.json`: an operator, next
to the definition it would replace and introduced by "A bug of ...", under which
TLC finds the property violated.

Why the bounds are enough to be interesting: each instance has at least as many
actors as the longest race in its code (two requests for the look-up and append;
dispatcher, queue and waiting request for the channel; sweep, mark and append for
the event store; two workers and two processes for the lease and the lock), and stops
and failing calls enough that one falls into the recovery from another (two stops in
`ingest_sync`, a failing call, two deaths and a power loss in `jsonl_store`, three
processes in `dead_triggers`).

Runs that find a disagreement between the code and what the repository says of
it (details and quotes under "findings" in `PROJECT.json`):

| Run | Shows |
| --- | --- |
| `ingest_dedup_race` | Two requests with one key are both stored. |
| `ingest_duplicate_dropped` | A retry is answered as a duplicate of an event that was stored but never dispatched. |
| `jsonl_durability` | On a path without a directory, as the default paths are, a power loss takes the file with what was acknowledged. |
| `store_lock` | Two processes have the store open, one of them on a file that was renamed away, where its appends are lost. |

TLC stops at the shortest counterexample. `AcknowledgedIsDurable`, the property of
`jsonl_durability`, is refuted in four more ways, each of them the first one found when
these constants of `JsonlDurability.cfg` are changed (`HasParent = TRUE` in all):

| `Faults` | Faults, deaths, power losses | Shows |
| --- | --- | --- |
| `{}` | 0, 2, 0 | An append after a torn tail is acknowledged and unreadable. |
| `{}` | 0, 1, 1 | A process that dies between the creation and the sync of the directory leaves a file whose name the next process never syncs. |
| `{"drain"}` | 1, 1, 0 | A drain reports an error and has emptied the file. |
| `{"compact"}` | 1, 1, 0 | A compaction reports an error and has replaced the file. |

Four more disagreements are stated as properties that no listed run checks; TLC refutes
each when it takes the place of the properties of the run named here:

| Property | In | What the code does, and what the repository says |
| --- | --- | --- |
| `RetryReportPartitions` | `dead_triggers` | A failure recorded twice is drained as two records and counted once, since the names of an event are kept in a set (`triggerlane-runtime/src/lib.rs:421`); the comment at `:485` says that `recovered` and `still_failed` partition the drained records. |
| `TornTailIsTolerated` | `jsonl_store` | The whole file is checked for UTF-8 (`triggerlane-storage/src/lib.rs:785`), so a tail cut inside a character fails the open; `event-store-durability` says that a torn trailing record is tolerated. |
| `MaintenanceRuns` | `decisions` | `"0s"` is taken as retention interval and panics `tokio::time::interval` (`triggerlane-cli/src/main.rs:914`); the comment at `:909` says that the task runs until the process exits. |
| `StalledClientsAreCut` | `receiver` | The request timeout begins after the headers and ends with the answer (`triggerlane-cli/src/main.rs:1017`); `event-sources` says that a stalled client cannot hold a connection open indefinitely. |

And `"0s"` as a retention bound removes everything, where `"0"` turns the bound off; no
text of the repository says what should hold.

## 4. Fairness

`FairSpec` assumes weak fairness of: a request's append and hand-over, every step
of a `handle` loop, the dispatcher's receive, recovery, the start of a stopped
server, the end of a drained one, and the return of a replay. The code justifies
these: Tokio polls every woken task, no store call loops, the retry loop is
bounded, and the back-off sleep ends. That a broker call returns and that someone
restarts a stopped server are assumptions about the environment. Nothing is
assumed of clients, operators, retention, workers, timeouts, failures or crashes;
in particular no property relies on a timeout firing. Failures and stops are
bounded, without which recovery might fail for ever.

`Receiver` assumes weak fairness of the request timeout, where the handler waits; of a
handler that does not wait, that is, that store calls return (`Runs`); of the accept loop
and of the end of the drain. It assumes nothing of clients, broker and dispatcher.
`Drains` is stated for configurations with a timeout and, as the code bounds neither the
headers nor the answer, for clients that get through both; that `StalledClientsAreCut` is
refuted shows that this is needed.

`Invoker` assumes that a runtime polls its timers and that the broker answers,
releases expired and delayed jobs (weak fairness), that the clock runs however
busy the workers are, and that the broker passes over no ready job for ever
(strong fairness, since both can be disabled or overtaken by steps of others). It
assumes nothing of endpoints and commands, which may never return, nor of
operators.

## 5. Proofs

Every theorem holds for any size of the sets and any value of the bounds of the
runs: any number of requests, events, records, workers, faults and crashes. The
constants have only the assumption named in the module that declares them, which
TLC evaluates in the runs. All safety properties of the passing runs are proved,
both refinements among them. The type invariants of `EventStore` and `Receiver` are
proved only; no run lists them.

None of the invariants below is inductive as it stands. Each proof module states
the invariant that is (its conjuncts are named here) and shows that it holds
initially and is kept by every action; TLC checked it on the instances of the runs
too (with a witness in place of the unbounded quantifiers of `AppendOK` and
`SweepOK`). `PROJECT.json` lists the theorems with the properties they state.

### IngestProofs, from `IngestAssumption`

The assumption gives the types of the constants, the disjointness of the kinds of
worker and of keys and ids, and a positive capacity and number of attempts.

* `TypeCorrect` (with the bound of the channel), `DeliveryCorrect`,
  `AcknowledgementCorrect`, `PersistThenHandle`, `SynchronousAnswerCorrect`. A
  delivery mark is right because the worker that makes it has passed every trigger
  of its event, so `Inductive` adds `WorkOK` (the triggers behind a worker's position
  were taken, and its event is stored), and, for where workers get their events,
  `OwnEvent`, `QueuedOK` (channel, recovery list and marks hold stored events) and
  `PcOK` (what a request's position says of its event). `Monotone` (nothing stored
  or taken is forgotten) and `WorkerEffect` (a step ends, begins, resumes or
  advances a worker) let each conjunct be proved once over the steps of `Next`
  instead of per worker kind.
* `RefinesDelivery`: `Spec => ImplementsDelivery`. The mapping takes the status of
  an event from its membership in the log, the marks and the retired events, and
  the taken pairs from the broker's and the dead-trigger queue's content;
  `RefinesNext` shows that every step is one step of `Delivery` or a stutter.
* `RecoveryFirst` states `RecoveredBeforeServing`. `LifeOK` follows the process
  through a life: in a stopped or recovering one there is no request, channel or
  dispatcher at work (`Quiet`), the list of recovery covers every undelivered event,
  and the serve task handles events in recovery only.
* `RunsOnce` states `RunsOnceUnlessRedelivered`, under `DistinctMatches`. While
  nothing failed, stopped or was replayed, an event is in one place (its request,
  the channel or one worker: `Single`) and the job of a trigger exists only once a
  worker has passed that trigger, unless another event shares the key (`Fresh`).
  Two triggers of one name would share a job, so the hypothesis is needed.

### EventStoreProofs, from `EventStoreAssumption`

`TypeCorrect`, `RecoveryMissesNothing` (`NeverMarkedIsUndelivered`),
`QuietMarksSurvive` (`MarksOutsideSweepsSurvive`) and `SweepsSpareUndelivered`
(`SweepRemovesOnlyDelivered`), for every set of automatic policies. A sweep decides on a
snapshot and writes it back later, so the invariant speaks of the snapshot too:
what counts as delivered anywhere was marked (`MarkedOK`), a mark under way during
a sweep has raced with it (`RunningOK`), and one that has not raced is in the
journal, in the set, and in what the sweep will write (`KnownOK`).

### JsonlStoreProofs, from `JsonlStoreAssumption`

`TypeCorrect`, `AcknowledgedAreDurable`, `NoResurrection`, `MemoryIsTheFile`
and `RefinesDurableLog` (`Spec => ImplementsDurableLog`), for paths with and
without a directory; the runs have one of each. The invariant says what the
operation in progress has done (`OperationOK`, `AppendOK`), when a name may
be lost (`NameOK`), and where records may be found (`UsedOK`, `GoneOK`). The
heart is `CleanOK`: in an undamaged store every content that a stop may
leave, of the file itself and of what its name may stand for, is `Good`,
that is, readable up to its tail, in append order, and with all that was
acknowledged, or with all of it but the records of a removal under way and
with none of those. Quantifying over the contents is what makes it inductive
over deaths of the process, which leave several of them open, and over the
power loss that picks one later.

For the refinement each action has a lemma that names the step of the log it is
(`LogOpens`, `LogNames`, `LogAttempts`, `LogWrites`, `LogAcknowledges`, `LogBegins`,
`LogSettles`, `LogRemoves`, `LogRemovalFails`, `LogStops`), and writing the sibling file is
none. The stop is the hard one: what is left shares its order with the memory, since both
are in the order in which records were appended, and what it holds besides nobody
acknowledged (`StopFacts`).

### DecisionProofs and RetentionLemmas, from `DecisionsAssumption` and `SettingsAssumption`

The assumptions give the types of the cases, and of the widths that the cap of the
back-off fits into the factor and into a duration, as the real values do (30 s in
32 bits).

* `SizeBoundsKeepLongest` is about `ApplySizeBounds` for any sequence of records and
  any automatic policy: the result is the longest run of newest records within both
  size bounds. `SweepKeepsLongest` and `UndeliveredGoByHardBounds` carry it to the
  machine, for every log, policy and time; `SweepOK` says that what is kept is a part
  of the log, in its order, so that a second sweep is covered.
* `EverySettingHonoured` is about any raw text, not only those of the run, and any widths;
  `SettingsRefusedOrTaken` (`SettingsHonoured`) follows.
* `BackoffCorrect` (`BackoffDoublesToCap`), for every base, retry, width and cap. It
  needs that a power of two doubles with its exponent and is past the cap at the
  width; `Powers` derives that from the recursive definition.
* `TriggersFireInOrder` (`FiresInOrder`), for any number of triggers with any priorities.
  The entry registered last has the latest name, so inserting it behind its equals keeps
  the registry in the order of priority and name (`RegisterInOrder`, `LoadInOrder`); a
  part of a sequence in order is in order (`PartInOrder`), and an order without equals
  repeats nothing.
* `ChainsKeepRoot` (`ChainKeepsRoot`). A follow-up sees only its direct cause, so
  `ChainOK` adds that the cause is an earlier event of the chain, and that no id of an
  event is the absent correlation: else a later follow-up would start over.

Some of these are facts about recursive functions on sequences of any length. The
library's induction theorems take an operator as a parameter, which the provers
cannot instantiate; `RetentionLemmas` has induction over numbers and over
sequences with a set in its place (`Induction`, `SeqInduction`), and derives from it
what `Filter` and the byte walk compute. `IsPart` (some of the elements, in their
order) is what the event store and the dead-trigger queue need of a sweep.

### DeadTriggersProofs, from `DeadTriggersAssumption`

`TypeCorrect` and `NothingForgotten` (`NoneForgotten`) need nothing else;
`NoDuplicates` and `ReportIsTruthful` assume `DistinctNames`. `Base` (`RecordsOK`,
`ProcessOK`, `TasksOK`) says which passes run in which process and what they hold.
`HandledOK` accounts for the event in hand, whose pairs are neither among those to
come nor yet reported: each is back in the queue, still to be evaluated, or no
longer owed, or was lost with a pass or a drain that failed. `RetryOK` counts: the
report so far is the number of finished pairs that are, and are not, back in the queue,
and the queue has no pair twice.

### InvokerProofs, from `InvokerAssumption`

`TypeCorrect`, `LeaseKept` (`HeartbeatKeepsLease`), `NeverGivenUpEarly`
(`DeadLetterJustified`) and `AckIsTruthful` (`AckedWasDone`). A lease must be two
ticks or more, as a heartbeat at half of it has to come before its end. The
invariant ties a worker's copy of the attempts to the broker's while it holds the
lease (`WorkerOK`), the attempts to the invocations (`JobOK`), a success about to be
reported to work that was done (`SuccessOK`), and, while nothing was late, the
lease to the heartbeat that will extend it (`LeaseOK`).

### ReceiverProofs, from `ReceiverAssumption`

`TypeCorrect`, `RefusalsLeaveNoTrace` and `PagingIsFaithful`, for every set of
configurations. A request that had an effect, or got an answer other than a refusal, was
admitted at an earlier step, which its position records (`RequestOK`). For the walk, the offset is
related to what the store has become since the last page: while an event is owed,
what was seen is exactly the beginning of the store, and the owed events are past
the offset (`WalkOK`, `StoreOK`).

### Checked by TLC only

Liveness, which is out of this prover's reach: `EveryRequestAnswered`,
`StoppedEventsDelivered`, `AcceptedIsHandled`, `EveryJobSettles`, `WorkersComeBack`,
`Drains`. The runs that expect a violation have no theorem either: they refute.

## 6. What could follow

1. `EventStore` and `DeadTriggers` over `DurableLog`s: their stores are taken to be
   atomic, which `RefinesDurableLog` shows of one undamaged file; the composition
   with the kinds of damage is not stated.
2. The repairs of the findings, each as a variant of its action under which the violated
   property holds: a lock on a file that is not renamed, a torn tail cut off at the open,
   the current directory synced for a path without one.

## 7. Not modelled

* Hard retention bounds in the pipeline: `Ingest` describes a server whose
  `max_count`, `max_age` and `max_bytes` are off. The shipped default has a large
  `max_count`; an eviction by it may remove an event that is not yet delivered.
* Removal of dead-trigger records from the pipeline: `dead` in `Ingest` only
  grows, that is, it means "was recorded"; `DeadTriggers` has the removals.
* Two triggers with one name, which `parse_registry` accepts and which share a
  unique key.
* A sweep of the event store whose journal compaction fails after its rename:
  `EventStore` leaves the store as it was, `JsonlStore` has the file after it.
* White space and leading zeros in settings, the resolution of the broker's URL, and the
  webhook and file constructors of events, which only rearrange what they are given.
* The keyed comparison of signatures and tokens itself: a credential is right or
  wrong.
* Payload transforms of bindings, which are code of the embedding program.
* A file system that loses data it reported as synced, drops dirty pages after a failed
  sync, leaves lines out of the middle of what was not synced, or brings back what was
  written to a file after it was renamed away.
* In-memory stores (tests and library defaults), metrics, traces, argument syntax
  and printing.
