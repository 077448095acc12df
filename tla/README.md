# Verification of the metrics and alerting service

An agent collects runtime metrics and sends them in batches over HTTP or gRPC to a
server, which keeps them in memory, in a file or in PostgreSQL, answers queries and
writes an audit log. This directory holds TLA+ models of its parts, the TLC
configurations that check them on small instances, and theorems about them that TLAPS
checks for every value of the constants. `PROJECT.json` lists the runs, the source
lines each definition stands for, the mutations each property was seen to catch, the
hazards and the findings.

    tlc -workers 2 -config MCStorages.cfg MCStorages     # one run
    tlapm FileStoreProofs.tla                            # one module of proofs

Contents: 1 inventory, 2 modules, 3 the models against the code, 4 runs, 5 fairness,
6 proofs, 7 findings, 8 what is not covered, 9 plan.

## 1. Inventory

### Agent (`cmd/agent`, `internal/agent`, `internal/retry`)

| Part | State | Operations | What makes it correct |
|---|---|---|---|
| Collector (`collector.go`) | maps of gauges, poll count, under a mutex | `Collect`, `CollectExtra`, `Metrics` | a report is one snapshot; the server's gauges follow the snapshots, its counter holds what was acknowledged |
| Configuration (`config/agent.go`, `file.go`) | fields | flags, file, environment, check | the strongest source wins; no interval is zero |
| Pool (`pool.go`) | channel `jobs`, channel `done`, `sync.Once`, wait group, `sendCtx` | `Submit`, `Shutdown`, workers | order; a true answer; everything accepted is through `Send` when `Shutdown` returns |
| Report loop (`cmd/agent/main.go`) | none of its own | tick, signal, final report, shutdown | the last report is accepted; the process ends |
| Senders (`sender.go`, `grpcsender.go`) | HTTP client or gRPC connection | `Send` through `retry.Do` | bounded repetition; success only after the server applied |
| `retry.Do` | attempt number, last error | attempt, wait, cancel | at most four attempts, none after a permanent error |

The hard part is the pool: two goroutines meet on two channels that are closed under
them, `Submit` may sleep in a `select`, and a cancellation races with a good end.

### Server (`cmd/server`, `internal/...`)

| Part | State | Operations | What makes it correct |
|---|---|---|---|
| Layers (`hash`, `gzip`, `crypto`, `trustedsubnet`, `logger`) | pools of readers, writers, buffers | one wrapper each | what the agent wrapped is undone in order; requests do not mix |
| Handlers and gRPC method (`handler`, `grpcserver`), service (`service`) | none | eight routes, `UpdateMetrics` | the status tells the truth; reads are current; each success is audited |
| Memory (`repository/storage.go`) | two maps under a lock | reads, `UpdateGauge`, `UpdateCounter`, `UpdateBatch` | each call is one step |
| File (`repository/file`) and its life cycle (`cmd/server/main.go`) | a file, a periodic saver | `Save`, `Load`, `SyncStorage`, restore, final save | a crash leaves a whole, past state; what is acknowledged in synchronous mode is on disk |
| PostgreSQL (`repository/pg`, `database`, `migrations`) | table `metrics` | the same interface, in transactions with retries | one call, one effect; no half batches; deadlocks resolve |
| Audit publisher (`audit/publisher.go`) | a queue and a worker for each observer, a mutex, `closed` | `Publish`, workers, `Close` | `Publish` never waits; observers are independent; `Close` drains |
| Audit sinks (`file_sink.go`, `http_sink.go`) | a file; an HTTP client | `Notify`, `Close` | one line per event; repetition of what may succeed |
| Configuration (`config/server.go`, `file.go`) | fields | flags, file, environment, check | the strongest source wins; a duration keeps its meaning |
| Life of the process (`cmd/server/main.go`) | listeners, signal context, one shutdown context | start, `Fatal`, four stages of the shutdown | it ends; nothing that was answered is lost when every stage ends in time |

Handlers run concurrently, each in its goroutine, and call the storage and the audit
publisher; main stops the listeners, waits for the requests within one timeout, saves,
and closes the publisher with what is left of that timeout. The hard parts are the
Saves that overlap, the process that dies in the middle, a database that aborts one of
two transactions or answers nobody, the observers that hang, and the stages of the shutdown
that share one timeout.

### Tools

`internal/pool` with `cmd/reset` (a typed object pool and a generator of `Reset`
methods), `cmd/staticlint`, `cmd/keygen`, `cmd/certgen`: no state that outlives a call.

## 2. Modules

| Module | Models | Used with |
|---|---|---|
| `Retry` | one call of `retry.Do`, as a record that the caller's actions drive | instantiated by `Agent`, `PgStorage`, `AuditSinks` |
| `Outbox` | abstract: what the pool promises | instantiated by `AgentPool` |
| `AgentPool` | `internal/agent/pool.go` | |
| `Agent` | the agent process: report loop, signal, workers with their senders | extends `AgentPool` |
| `Delivery` | the agent with its collector, the network and the server's values | extends `Agent` |
| `Pipeline` | what `Send` wraps around a report, and the layers up to the handler and back | |
| `MetricStore` | abstract: what `repository.Storage` promises, as memory keeps it | instantiated by `PgStorage`, `Api` |
| `FileStore` | memory and file storage with the server's start, saving and shutdown, crashes included | |
| `PgStorage` | the updates of the PostgreSQL storage | refines `MetricStore` |
| `Api` | HTTP handlers, gRPC method, service, over the three storages | uses `MetricStore`'s operators |
| `AuditPublisher` | `internal/audit/publisher.go`, with any observers | |
| `AuditSinks` | the publisher with the file sink and the HTTP sink | extends `AuditPublisher`, instantiates `Retry` |
| `Config` | the settings of both programs from command line, file and environment | |
| `ServerMain` | the server process those settings make, from start to exit | extends `Config` |
| `AgentProofs` | theorems about `AgentPool` with its `Outbox`, `Agent` and `Delivery` | extends `Delivery` |
| `FileStoreProofs`, `PgStorageProofs`, `ApiProofs`, `PipelineProofs` | theorems about one module | extend their modules |
| `AuditPublisherProofs` | theorems about `AuditPublisher` and `AuditSinks` | extends `AuditSinks` |
| `ServerMainProofs` | theorems about `Config` and `ServerMain` | extends `ServerMain` |
| `RecursionTheorems` | induction and recursion over the naturals and over finite sets; sums | used by the proofs |
| `MCReports` | `Delivery`, `Pipeline` and `Api` on one instance | |
| `MCStorages` | `FileStore` and `PgStorage`, of which main starts one or the other | |
| other `MC...` | values of the constants for TLC | |

Variables that only record history for the properties are declared last in each module,
under the comment "history". Definitions marked `Mutant` are plausible bugs that stand
next to the definition they would replace; no specification uses them.
`MetricStore` and `Outbox` are small enough to be read as the documentation of the
interfaces.

## 3. The models against the code

**AgentPool.** One step is one `select`, one channel operation or one `close`. `Submit`
is two steps, because its two `select`s are two moments: `SubmitCheck` looks at `done`,
then one of `SubmitEnqueue`, `SubmitRefuse`, `SubmitPanic` and `SubmitPark` is the second
`select` with the cases that are ready, chosen at random as Go does. A send on a closed
channel counts as ready, and panics. A call that sleeps is in `parked`, in order of
arrival; `Receive` gives the freed place to the first of them in the same step, as the
runtime does, and `CloseDone` wakes them all. `Shutdown` is `ShutdownCall`, then
`CloseDone` and `CloseJobs` inside `once.Do` (others wait: `OnceAlreadyDone`), then the
race of `drained` and the context. A worker's `Send` is a step that comes some time
later; `how = "cut"` says that the cancellation ended it.

**Agent.** `Main` is the only caller of the pool. The ticker and the signal are cases of
one `select`, `Tick` and `FinalReport`; `StartShutdown` begins after the final `Submit`
has returned, which is where the code creates its timeout. A worker's `Send` becomes a
record of `Retry`: `Take` begins it (or gives up, when the batch cannot be encoded),
`Answer`, `CutRequest`, `Repeat` and `CutWait` drive it. The server may have applied a
request that failed. `transport` is chosen at start; the two senders differ in what they
call retriable after a cancellation, and in whether a request ends by itself.

**Pipeline.** A body is a document inside wrappings. `Sent` is what the agent builds:
compressed, then encrypted, with the signature of the document itself. `Arrive` is the
trusted subnet and the decryption, which touch nothing shared; `Gunzip`, `Verify`,
`Handle`, `Sign` and `Close` are the layers inside and the way back. `sync.Pool` is a
bag: `Get` takes what was put or makes an object. A reader knows whose body it reads, a
writer whose answer it writes, so that mixing requests would show. Ciphers and HMAC are
perfect; a body may break off, which is seen by whoever reads it first.

**FileStore.** A store is the sequence of the updates it has absorbed; the file is such
a sequence too, or `Torn`. `Save` is three steps (`Encode` with the copy of the maps,
`WriteTemp`, `Rename`) and any goroutine may be in it. `Start` loads the file or, when it
cannot, goes on with an empty store, as main does. `Crash` may come between any two
steps. `Apply` and the following Save of `SyncStorage` are separate, since no lock covers
both. main's shutdown is `Signal`, `Drained` or `DrainExpired`, the final Save, `Exit`;
the periodic saver is not awaited. `Encodable` is about NaN and infinities, which JSON
refuses until another update overwrites the gauge.

**PgStorage.** One step is one statement; `doing` is where a call is, `writes` what its
transaction has written and therefore locked. `Exec` waits for other holders of the row, then
works on the committed row; `Deadlock` may abort any member of a circle; `Commit` may be heard or not
(`CommitUnheard`); `Fail` is every other error. Each attempt ends with the deferred
rollback, and `Retry` decides whether another follows. The database is modelled from how
the code uses it (READ COMMITTED, the two upserts), and is the reason why some
definitions map to SQL text.

**Api.** One step is one call of the storage or of the publisher. `Verdict` is everything
decided before the storage is called, in the order of the code. `UpdateResults` is what
each storage may do: memory never fails, `SyncStorage` has applied what it could not
save and hides that from batches, the database may or may not have committed what it
reports as failed. `UpdateJSON` reads back in a step of its own. `log` is history: what the
storage held after each update it applied, so that a read can be compared with the moments
between a request and its answer. The variable `stage` is where a goroutine is in its
request, `asked` the request, `response` the status.

**AuditPublisher.** `Publish` and the first half of `Close` run under the mutex, but step
by step, since workers receive meanwhile. `PutOrDrop` is the `select` with `default`. A
`Notify` returns well, fails, or is cut by the cancellation. `Close` is: lock, close all
channels, unlock, wait or expire, wait again, close the observers.

**AuditSinks.** The same publisher, whose observers are the two of `setupAudit`. The file
sink's `Notify` is one write (`FileWrites`) or is refused (`FileRefuses`): the context is
looked at before the flag of `Close`. The file, `log`, is what the writes have appended, piece
by piece: the text of an event ends its line, a part of it, which a short write leaves, does
not, and the next piece continues that line (`LineOf`). The HTTP sink's `Notify` is a
record of `Retry`. A receiver may never answer: fairness asks that of nobody but a
cancelled request. An answer is "accepted", "unavailable" (5xx, 429 or a broken
connection), "timeout", "rejected" or "cancelled"; only the second one is `Retriable`.

**Delivery.** A report is a snapshot of the collector, and stands for the number of polls
at that moment: that is PollCount in it, and it tells its gauges from those of other
moments (`Report` is evaluated before `Submit` is called, so `ReportMetrics` is part of
that step). `Serve` is the server applying the request a worker waits for, `ComeBack` the
end of that request at the agent: by an answer, which is a success only when the server
has applied, or by a timeout or a cancellation, after which the request may still be on
its way (`pending`, `ServeLate`). Everything else of the agent is unchanged. HTTP only;
over gRPC the server is reached by the same calls.

**Config.** A source maps settings to raw values, and a raw value is what it can be read
as. `ParseFlag` is package flag, token by token: a switch takes no separate value, any
other flag takes the next token whatever it is, and the first word that belongs to no
flag ends the parsing. `ApplyFile` is `applyTo`, which looks at the set of given flags and
not at their values; a value of the wrong JSON type spoils the file although a flag
overrides it, a string that is no duration only if it counts. `ReadEnv` passes over what
does not parse. `Strongest`, the reference, looks at the sources as a whole. Integers are
decimal (package flag also takes 0x10), a text that is built from another kind of value is
"other text".

**ServerMain.** `OpenStorage` and `SetUp` turn the settings into a mode of storing and an
audit publisher, or end in `Fatal`; `ListenHTTP` runs beside main, so that requests come
while `ListenGRPC` may still fail. A request is accepted, stored, saved (in synchronous
mode) and answered. When its Save fails, a request of one metric (`Singles`) fails, while a
batch, which every gRPC call is, is answered with success all the same (`SaveNow`). An HTTP
request offers its audit event to the queue of each sink, where it is dropped when there is no
room (`Publish`); the sink's worker then logs it or fails. The shutdown is `DrainHTTP`,
`DrainGRPC`, `FinalSave`, `CloseAudit`, `Exit`; each of the waiting ones (`Wait`) ends
well or when the one deadline is over, and the next begins with what is left. A store is
a set of updates, Save two steps. `FileStore` has the inside of the file's life,
`AuditPublisher` that of the publisher; here they are as far as the stages see them. pprof
only makes the stage of HTTP longer, which the model allows anyway.

## 4. Runs

| Run | What it asks | Instance |
|---|---|---|
| `pool_concurrent` | `TypeOK`, `Fifo`, `AnswerIsTrue`, `ShutdownComplete`, `ImplementsOutbox` with `Submit` and `Shutdown` from any goroutine | 3 callers, 2 workers, 4 batches, queue of 2 |
| `pool_panic` | finds the send on the closed channel | 2 callers, 2 workers |
| `agent` | `NoSilentLoss`, `Acknowledged`, and that it ends: `ShutdownIsBounded`, `HttpStopsAfterSignal`, `HttpDelivers` | 3 reports, one of them not encodable, 1 worker, queue of 1, HTTP and gRPC |
| `agent_grpc_stop` | finds the agent that never stops | the same, gRPC |
| `reports` | `CountBounds`, `GaugesForward`; `ServedAsSent`, `OwnAnswer`; `StatusIsTrue`, `ReadsAreCurrent`, `AuditedOnce` | `Delivery`: 2 workers that may overlap, 2 reports, 2 polls, 1 stray request, HTTP. `Pipeline`: 2 requests at a time out of 54 kinds, 5 configurations of the server. `Api`: 2 goroutines, 3 requests of 15 kinds, 3 storages |
| `audit` | `SinksTypeOK`, `NoPanic`, `InOrder`, `CloseComplete`, `ClosedAfterWorker`, `LogIsTrue`, `RemotePersists`, `Isolation`, `CallsReturn` | 2 publishers, 1 closer that may call again, both sinks, a receiver that may never answer, 2 events, queue of 1 |
| `audit_half_line` | finds an accepted event on the line of another | 1 publisher, 2 events |
| `audit_timeout` | finds an event that is given up after one timeout | 1 publisher, 1 event |
| `storages` | `TypeOK`, `FileIsPast`, `SyncDurableSingles`, `FinalSaveComplete`, `NeverBackwards`, `EventuallySaved`; `AppliedOnce`, `ImplementsStore`, `CallsReturn` | `FileStore`: 2 handlers and the periodic saver, 3 updates (one in a batch, one NaN), 3 modes, 2 starts, failing disk and reads. `PgStorage`: 2 clients with 2 calls each; 2 batches that lock rows in opposite orders |
| `file_concurrent` | finds an acknowledged update that is not on disk | 2 handlers, nothing fails |
| `server` | `Precedence`, `LossWindow`, `NothingLostOnExit`, `StopsOnSignal` | both programs; 91 command lines, 8 files, 18 environments; 2 requests out of a single update and a batch over HTTP and a batch over gRPC; audit queues of 1 |
| `config_readme` | finds the server that restores although the README's command line says not to | the command line of `cmd/server/README.md:106` |

`reports` and `storages` put modules that share no variable side by side: an initial state chooses
one of them, and the others stay as they began, so that the states are the sum of theirs and
not the product. For the storages that choice is main's (`cfg.DatabaseDSN`).

### Bounds

- *Queues.* A queue of one is empty, has room, or is full; overflow, hand-off and
  draining all occur, and while an observer hangs with one event the second is kept and, of
  another publisher, dropped. The pool's queue of two has an order inside it. With two
  workers, sends end in either order; with three callers a second `Submit` can be parked
  behind the first while the third shuts down. `agent` needs one worker only: the finding and
  the bounds on time are about a queue that does not move.
- *Reports and updates.* Each is accepted at most once, so it has an identity and loss or
  repetition shows. Three updates make an older snapshot, a newer one and one outside both.
- *Starts (2).* What a crash leaves is read by the next start; a third start would repeat
  the second. `MaxStarts`, `MaxCalls`, `MaxEvents`, `MaxPolls`, `MaxStrays`, `MaxAccepted`
  and the number of `Objects` of a pool are the only bounds on behaviour; the last one is as large as the
  number of requests that can hold an object.
- *Polls and strays.* Two polls tell an older snapshot from a newer one and from none; one
  stray request is enough to arrive after its repetition or after a newer report.
- *Sources.* Two tokens make a flag with its value, a flag overridden by itself, and a
  switch followed by a word that ends the flags. The settings that sources contend for are
  an interval, a switch, a path and each program's checked number; the others make
  another server (no file, a database, gRPC with and without its key, each sink).
- *Integers.* `MaxInt` is 2: sums that overflow are reached in two calls; the wrap of
  int64 in memory and the range error of BIGINT are both in the models.
- *Delays* of `Retry` are the three of the code, so the fourth failure is the last.
- *Servers of `Pipeline`.* All combinations of key and decryption with a trusted subnet;
  without one a single server, since every address is then treated as a trusted one is with it.
- *Audit queues.* In `server` a queue of one with an event in the worker's hand lets the second
  event be kept or dropped. `MaxAccepted` is 2: every pair of the three requests is met, so
  that a batch whose Save failed meets a single update, and an HTTP one a gRPC call.
- *Batches of `PgStorage`.* Two, with a common row at either end; a call of one metric
  (`UpdateGauge`, `UpdateCounter`) is a batch of one, which meets nothing else.
- *Symmetry* is used only in runs without liveness, over callers, workers, batches or
  clients, none of which an expression tells apart. In `reports` the goroutines of the three
  modules have the same names, so that one permutation renames them all.
- *Deadlock* is checked in `agent`, whose end is a stuttering step, and in `audit`, where Close
  may be called again. The others may really stop: the process panics, or all bounded requests were served.

## 5. Fairness

- A goroutine that can run runs: weak fairness of each goroutine's steps. A `select` that
  is offered a case again and again takes it at some time, since Go chooses among ready
  cases at random: strong fairness of the agent's `FinalReport` against its ticker.
- `sync.Mutex` serves everybody who waits (its starvation mode): strong fairness of
  taking the mutex in `AuditPublisher`, stated in `AuditSinks`.
- Contexts with a timeout end: `ShutdownExpired`, `CloseExpired`, `DrainExpired` and
  `Expire` are steps of goroutines or timers that run.
- An HTTP request comes back, by an answer or after `http.Client.Timeout` (10 s in
  `NewSender`); a cancelled request of either transport comes back. Nothing makes an
  uncancelled gRPC call come back: no fairness, which is what `agent_grpc_stop` shows.
- A write of the file sink ends. A request of the HTTP sink needs no fairness unless it was
  cancelled: the properties hold although the receiver never answers.
- In `ServerMain` main goes on and timers fire; a request may take for ever. Only the query
  of a gRPC call that `Stop` has cancelled comes back (pgx honours its context).
- Disk: writing and renaming work at some time if they are tried again and again (strong
  fairness for the periodic saver). Clients may be slow for ever: no fairness for handlers.
- PostgreSQL serves those who wait for a row in turn (strong fairness of statements) and
  looks for deadlocks.

## 6. Proofs

Every theorem is about all values of the constants that satisfy the assumptions named with
it; TLC evaluates the assumptions in the runs. The invariants named here are inductive, where the
properties are not: `Init => Inv`, and `Inv` with a step gives `Inv'`, action by action.
`PROJECT.json` lists the theorems with the properties they state.

### The agent (`AgentProofs`)

*The pool*, for any finite non-empty set of workers, any callers and batches and any
positive capacity (`QueueSizeAssumption`, `WorkersAssumption`, `TokensAssumption`):
`TypeCorrect`, `FifoHolds`, `AnswersAreTrue`, `CutsFollowExpiry`, `ShutdownIsComplete`,
`BatchesInOnePlace`, `PoolImplementsOutbox`, and `SingleCallerNeverPanics` for one caller, as
in `cmd/agent`. `IInv` adds `Closing` (done is closed before jobs, and nobody stays parked
afterwards), `Waiters` (a parked call stands in the queue once), `Exits` (a worker leaves
only an empty channel that is closed, and a closed channel is not filled again), `Sends`
(every batch that was started is in a worker's hand or through; the cancellation is after an
expiry or after the last exit), `Returns` and `Answers` (the batch of a call in progress
belongs to nobody else and is not yet accepted). `ShutdownComplete` then follows: all workers
are gone, so the channel is empty, so all that was accepted was started, so it is through.
`SingleCallerNeverPanics` is a second induction: the only goroutine that could close `jobs`
is the one in `Submit`. For `PoolImplementsOutbox`, `InOnePlace` says that an accepted batch
is in the channel, in one hand, or through, and never in two of them; each step of the pool is then
an accept, take, finish, close or stop of the Outbox, or leaves its variables alone. `Box!Fairness` is
left to TLC (`HttpDelivers`).

*The process*, over either transport (`ReportsAssumption`, `MainAssumption`,
`TransportsAssumption`, `UnsendableAssumption`, `CallAssumption`): `AgentIsPool` shows its steps to
be steps of the pool, so the pool's theorems hold in it; with them `AgentNeverPanics`,
`NoFalseSuccess` and `NoReportLostSilently`. `AInv` adds how far main is and that its report is
the pool's until main stops (`InMain`), that a worker with a batch is in a call of `retry.Do`
whose attempts are the requests made for that batch (`Sending`), and what was said of a batch
whose `Send` is over (`Told`).

*Delivery* (`BoundsAssumption`): `GaugesOnlyForward` and `CountIsBounded`. For the first, `DInv`
says that batches are accepted in the order of their snapshots (`InOrder`) and that, while
no two workers sent at once and no request was given up on its way, the server's gauges are no
younger than any report still to come (`Behind`). For the second, `CInv` says that there is a
function of the batches, how often each was applied, such that PollCount is the sum of the
reports so often; what was applied of a batch, with what was given up and may still come, is no
more than what was posted, and one less while a worker waits for an answer to a request that the
server has not seen. The bounds are then sums that are compared term by term.

### The file storage (`FileStoreProofs`)

For any number of handlers, updates, starts and any mode (`SaversAssumption`,
`UpdatesAssumption`, `ModesAssumption`, `SwitchesAssumption`): `TypeCorrect`,
`FileAlwaysWhole`, `FileAlwaysPast`, `FinalSaveIsComplete`, `OrderlyDurability`,
`OrderlyNeverBackwards`, the properties of run `storages` about the file that are not liveness.
`IInv` says that each document being written is a past state of the memory and so is the file (`AllPast`);
where the program counters of main and the saver can be (`Phases`); that a request's update
gets into memory, then into its document (`Requests`); that while Saves do not overlap the
document being written continues the file, which holds what was acknowledged (`Order`); and
what the final Save writes (`LastSave`). The history variable `orderly` says that no Save
began while another was writing and that all starts could read the file; run
`file_concurrent` shows that the theorems about it do not hold without it.

### The PostgreSQL storage (`PgStorageProofs`)

For any clients, names and updates (`CallsAssumption`, `AbsenceAssumption`,
`BoundsAssumption`): `TypeCorrect`, `NoCallAppliedTwice`, `StorageImplementsStore`. The
invariant has the types and `RowsHeldOnce` (the locks of PostgreSQL, as the model has them, keep the rows of open transactions
apart), which are inductive together. `AppliedOnce` needs `Attempts` (a transaction runs
exactly while its record of `retry.Do` is "calling"; a wait follows a retriable error and has an attempt
left) and that nothing of a call that still goes on was committed: an unheard commit is a broken
connection, which is not retriable.

`StorageImplementsStore` shows step by step that the table refines `MetricStore`: a commit is
`Update` of the whole call, every other step leaves what can be read as it is. It is for calls
where `EachNameHasOneType`, a hypothesis TLC evaluates for the calls of run `storages` and without which
it is false (7, the first of the things seen). `Midway` is inductive beside `Inv`: rows have the type of
their name (`TableOfKinds`, `WritesOfKinds`), a transaction holds the row of each operation
it has done (`Touched`), and what it sees of a metric is what those operations make of the
metric *as it is committed at that moment* (`Inside`). Others may commit before a transaction does:
they leave the rows it holds alone, and a row that it does not hold none of its operations
has gone by (`NotTouched`). At the commit `Inside` is about the whole call, and
`EachMetricFollows` says that this is what the folds of `MetricStore` compute
(`UpsertIsEffect`: in range, the database's sum is the memory's).

### The entry points (`ApiProofs`)

For any clients, requests and storages (`CallsAssumption`: the shapes of the requests;
`AmountsAssumption`: a counter's amount is an integer or missing):
`SuccessOnlyWhenApplied`, `AnswersTellTheTruth`, `ValuesAreCurrent`, `EveryUpdateAuditedOnce`.
`Inv` follows a request through its steps: before the update it owns no place in the log
(`Progress`), no two requests own one place (`Places`), each event is of a place whose owner
has published, once (`EventsOnce`, `EventThere`). `ReadInv` adds that the storage holds what
the last place of the log says (`Latest`) and what the request has seen was there at one of its
moments (`Reading`). That a JSON update always finds the metric it wrote is about
`Measured` and `Counted` of `MetricStore`: the folds are unfolded to runs of one operation after
another, no operation removes a metric (`NothingIsRemoved`), and the one that names it leaves it there
(`TheMetricIsThere`).

### The layers (`PipelineProofs`)

For any number of requests at a time, any requests and reports, and any keys
(`RequestsAssumption`, `NoneAssumption`): `ObjectsAreUsedByOne`, `ReportsArriveAsSent`,
`AnswersAreOwn`. `Pooled` says that an object is in the pool or used by one request, and not
both; `Mine`, of one request, which objects it uses at its layer, that what they hold is its
own, how far its answer is, and what the layers it has passed have made sure of. A step of one
request leaves the objects of the others alone, which is all that the others need.

### The audit log (`AuditPublisherProofs`)

For any handlers, closers, observers and events and any positive buffer
(`SizesAssumption`, `ProcsAssumption`, `TokensAssumption`):

| Theorem | Statement |
|---|---|
| `TypeCorrect`, `NeverPanics`, `ClosedLast`, `OrderKept`, `CloseIsComplete` | `SafeSpec => []` of the properties of run `audit` about the publisher |
| `SinksArePublisher` | `SinksSpec => SafeSpec`: with the two sinks of `setupAudit` it is still that publisher, so all of these hold there (`SinksAssumption`) |
| `UnavailableIsRetried` | `SinksSpec => RemotePersists`, from an invariant of its own (`CallAssumption`) |
| `SinksTypeCorrect`, `LogTellsTheTruth` | `SinksSpec => []` of `SinksTypeOK` and `LogIsTrue` |

The invariant of the publisher comes in layers, each inductive together with the ones before:
`Typed` (an event in a call of Publish belongs to that call only), `Locking` (who is in the
loop of Publish or of Close has the mutex; a Publish there has found closed unset, so that no
channel is closed; only one Close ever gets past the flag, and the channels it has closed are
those below its loop variable), `Closing` (a worker leaves only an empty channel that is closed;
the observers are released when all workers have left; a cancellation before that follows the
end of the context, after which no Close answers nil) and `Ordered`, observer by observer: the
channel holds the end of what was queued, the event in Notify is the one before it, what is
before that has an outcome and nothing else has, and what a Publish has still to offer is not
in the queue yet. `CloseComplete` puts the last two together: exited workers, so empty
channels, so all that was queued has an outcome.

`LogIsTrue` rests on `Ordered`: the event in the file sink's Notify comes, in the order of
Publish, after everything the sink was called for, so a piece that is appended is in order;
only events whose Notify is over can be in the file. It is about the text in the file and not
about its lines, of which no such thing holds (run `audit_half_line`).
`SinksTypeOK` needs that a call of `retry.Do` is in progress exactly while the HTTP sink is in Notify.

### Settings and the life of the server (`ServerMainProofs`)

For any command line, file and environment of any length (`LinesAssumption`,
`SourcesAssumption`) and any finite set of requests, single and in batches, and any size of the audit
queues (`RequestsAssumption`, `BufferSizeAssumption`, `SaversAssumption`):
`StrongestSourceCounts`, `AnsweredSurvives`, `OrderlyExitLosesNothing`. `Precedence` compares the parser, token by token, with `Strongest`,
which looks at the line as a whole: `Asked` says that what was parsed so far has given each
setting what the tokens up to there say, and no others; which tokens are flags and which are values
is a recursion along the line, whose function exists by `Alternating`. `Inv` of the server says
where an answered update is in each mode: in memory, in the document being written, in the
file or in the database (`Stored`), and that what was answered when a Save copied the memory is
in that document, and once that Save has succeeded in the file (`Saved`, `LastSave`, while no two
Saves overlap). `Audited` and `Crowded` say the same of audit events: an answered request's event is
in the queue, through Notify, or was dropped, and then more events were published than the queue
has places. `Listening` and `Quiet` are where the listeners and the requests can be. `Waits`
relates the mode to what the sources ask for, from which `LossWindow` promises more to those
who asked for a database or for synchronous saving.

### What is only model-checked

Liveness and fairness are beyond the prover (no `ENABLED`): `ShutdownIsBounded`,
`HttpStopsAfterSignal`, `HttpDelivers`, `CallsReturn`, `Isolation`, `EventuallySaved`,
`StopsOnSignal`. Every safety invariant, action property and refinement of a passing run has a
theorem. `CallsReturn` says in both modules that calls come to an end; `AuditPublisher`'s is about
Publish and Close, `PgStorage`'s about the three updates.

The library's induction theorems take operators as parameters, which the provers cannot
instantiate. `RecursionTheorems` has them for sets (a set of numbers that has 0 and, with each
number, the next, has all; the same for subsets of a finite set) and for functions (a recursion
along a sequence or over the subsets of a finite set has a value everywhere), which is what the
folds of the community modules compute. A fold in the code's models is unfolded to such a
recursion where the proofs meet it.

## 7. Findings

1. `pool_panic`: `Submit` concurrent with `Shutdown` may panic on the closed channel; the
   comment at `internal/agent/pool.go:21-23` allows concurrent calls. `cmd/agent` makes
   both from one goroutine, for which the absence of the panic is proved.
2. `agent_grpc_stop`: over gRPC the agent may never stop: the final `Submit` waits for a
   full queue before the shutdown timeout is started.
3. `file_concurrent`: synchronous mode promises every update on disk; of two overlapping
   Saves the older snapshot may be renamed last.
4. `audit_half_line`: the audit file is described as one JSON line for each event. A short
   write leaves half a line and the next event, which is accepted, continues it.
5. `audit_timeout`: a timeout of the HTTP sink's client is described as worth repeating; its
   error is a `context.DeadlineExceeded`, which ends the delivery.
6. `config_readme`: `-r false`, given by `cmd/server/README.md:106` for a start without
   restoring, sets the switch to true and ends the flags there; `-r=false` is what it means.

Seen while modelling, and not run:

- `UpdateCounter` on a name that is a gauge succeeds in PostgreSQL and has no effect that
  can be read (`pg/storage.go:59`, the key of the table is the name alone); in memory both
  live side by side. `ImplementsStore` is checked for names of one type.
- Updates over gRPC leave no audit event (`grpcserver/server.go:45`), where
  `internal/audit/README.md:7` says that the server publishes one after every successful
  processing. `AuditedOnce` is about HTTP.
- PollCount is sent as its running total (`agent/collector.go:122`), so that the server adds up
  totals; with `RATE_LIMIT` above 1 an older gauge may replace a newer one.
- Memory wraps at int64 where PostgreSQL refuses the batch. A refused call makes no step of
  `MetricStore`, so `ImplementsStore` allows it.

## 8. What is not covered

- `CollectExtra`, whose gauges are replaced as a whole map and reach the server like the
  others; the values of the metrics themselves.
- Reads of `PgStorage` as separate steps: each is one statement, given as the refinement
  mapping; in `Api` they may fail. Migrations and `Ping` are one call of a library, and
  `ServerMain` only has their failure. Migrations may also hang, before the server serves.
- Overlapping Saves in `LossWindow` and `NothingLostOnExit`: `FileStore` is about them. A batch
  whose own Save failed is answered with success (`file/storage.go:126-133`); `LossWindow` excepts
  it until a later Save has written it.
- In `Pipeline` the status line is part of the answer that `Emit` or `Sign` sends, and a second one
  cannot be written; `wroteHeader` of the writers is not a variable.
- The agent's start-up (keys, TLS, the outbound IP, a connection that is made later), the
  log, and what pprof shows.
- `cmd/reset`, `internal/pool`, `cmd/staticlint`, `cmd/keygen`, `cmd/certgen`: development
  tools and a typed pool that nothing but its tests uses. `internal/proto` is generated.
- Wording, formatting of numbers and of the page; the JSON and protobuf encodings are
  abstracted to what they refuse.

## 9. Plan

1. Done: `Retry`, `Outbox`, `AgentPool` with proofs; `Agent`, `Delivery`; `MetricStore`,
   `FileStore` with proofs; `PgStorage`; `AuditPublisher`, `AuditSinks` with proofs; `Api`;
   `Pipeline`; `Config`, `ServerMain`; `MCReports` and `MCStorages`.
2. Done: theorems about every module: types, safety invariants and action properties of the
   runs, and that the pool implements `Outbox` and `PgStorage` implements `MetricStore`.
3. `ResetGen`: which fields a generated `Reset` resets, if the above leaves room.
