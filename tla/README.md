# TLA+ models of dolly

[dolly](../src/README.md) is a library of Go packages for services: task scheduling,
throttling, logging, metrics, file and certificate reloading, an HTTP client with
retries, authorization, a REST server, and PKI over crypto providers such as PKCS#11
tokens. This directory models the packages in which goroutines, timers, locks and
retries meet, checks the models with TLC on small instances and proves the central
invariants with TLAPS for all instances.

    tlc -workers 2 -config TaskScheduler.cfg MCTaskScheduler     # a run
    tlapm TaskSchedulerProofs.tla                                # a proof

Every definition that stands for code is listed in `PROJECT.json` under "map" with
its lines. A definition named `X_Something` just before `X` is a *mutant*: the
mistake `X` avoids, used to show that a property can tell the difference.

## Inventory

| Component | State | Operations | Used by / uses |
|---|---|---|---|
| Task scheduler, `tasks` | list of tasks, `running`, one-slot `quit`, RWMutex; per task `runLock`, `running`, `lastRunAt`, `nextRunAt` | Add, Clear, Start, Stop, the 1 s loop; NewTask and the parser of formats, at, Do, Run | REST server (heartbeat), metrics |
| Throttle, `algorithms/throttle` | `waiting`, `last`, `stop`, condition variable, timers | Trigger, Next, Stop, Func | library users |
| Channel writer and log rotation, `xlog/logrotate` | channel, buffer pool, `running`, tickers; the rotator and the formatter it replaced | Write, listen, Stop; Initialize, Close | logger |
| Logger, `xlog` | repositories and packages with their levels, the values of a logger, the formatter and the mutex | Infof…, WithValues, SetLogLevel…, SetFormatter | every package |
| File reloader, `fileutil/reloader` | `fileModifiedAt`, `count`, `closed`, RWMutex, `stopChan` | tick, Reload, Close | library users |
| TLS key pair reloader, `rest/tlsconfig` | key pair, modification times, handlers, RWMutex, `stopChan` | tick, Reload, OnReload, Keypair, Close | REST server, clients |
| REST server, `rest`, with the handlers of `xhttp` | services, `serving`, the listener, per request the captured status, `profileLock` | AddService, StartHTTP, StopHTTP, IsReady; the chain around a service | scheduler, authorization, identity, key pair reloader |
| Authorization, `xhttp/authz` | tree of paths, role mappers | Allow, AllowAny, AllowAnyRole, NewHandler, NewUnaryInterceptor | REST server |
| Retriable client, `xhttp/retriable` | policy; per call host, retries, payload, response | Request, Head, Do, ShouldRetry | library users |
| PKCS#11, `xpki/crypto11` | map of session pools, slots; the objects on the token | withSession, setupSessions; generate, find, list, sign, destroy | crypto providers |
| Crypto providers, `xpki/cryptoprov` | registry of loaders, providers by manufacturer; keys in memory, in KMS | Register, Load, Add, ByManufacturer, GetKey, ExportKey, LoadPrivateKey | authority, csr, CLI |
| Authority, `xpki/authority`, and requests, `xpki/csr`, `xpki/csrprov` | configuration, issuers by label and profile | LoadConfig, NewRoot, NewAuthority, Sign; key requests, CSRs | CLI |
| Metrics, `metrics` | intervals with aggregates, filters, the statsd queue and buffer, Prometheus series | SetGauge, IncrCounter, AddSample, UpdateFilter, DisplayMetrics, Shutdown, Collect | REST server, tasks |
| Command line, `cmd/dollypki` | none; it leaves files and keys | hsm genkey, keyinfo, lskey, rmkey; csr genkey, gencert, signcert | providers, authority |
| Audit, identity, certutil, HTTP utilities | little or none | transformations of data | |

What is hard in this code:

- **Locks held while blocking on a channel**: `scheduler.Stop`, both `Close`
  functions and `withSession` send on a channel with a lock (or the only free slot)
  in hand.
- **State read without the lock that guards its writes**: `task.running`,
  `fileModifiedAt`, the map of session pools.
- **Timers racing consumers**: the throttle's trailing broadcast, the ticks of the
  scheduler, of the flush and of the pollers.
- **Several steps of which one fails or is overtaken**: replacing a certificate and
  its key, trying hosts one after another, draining a log while writers write.
- **Limits**: a pool that is full, a channel that is full, several retry limits with
  one counter, packets of bounded size, listings of at most so many objects.
- **Slices that share an array**: the labels filtered in place, the values `append`ed
  behind a logger's context.
- **Long sequences of calls**: levels set for all, a repository and a package before and
  after it registers; keys saved, destroyed, made again and loaded; a request, an API
  call and a profile merged into one certificate.

`PROJECT.json` lists these as hazards, each at its line with the properties that
would catch it.

## Modules

| Module | Models | Instance |
|---|---|---|
| `TaskScheduler`, `TaskFormat` | `tasks/scheduler.go` and running tasks; how `tasks/task.go` parses a format and finds the first run | `MCTaskScheduler` |
| `Throttle` | `algorithms/throttle/throttle.go` | `MCUtilities` |
| `AsyncLog`, `ChannelWriter` | the promise of a deferred log; `xlog/logrotate/channelwriter.go` | `MCChannelWriter` |
| `ReloaderBase`, `FileReloader` | clients, closers and the lock of both reloaders; `fileutil/reloader/reloader.go` | `MCFileReloader` |
| `KeypairReloader` | `rest/tlsconfig/reloader.go` | `MCUtilities` |
| `SessionPool` | `xpki/crypto11/sessions.go` and the session `Init` opens | `MCUtilities` |
| `Retriable` | `xhttp/retriable`: Request, Head, executeRequest, Do, the policy, convertRequest | `MCRetriable` |
| `Authz` | `xhttp/authz/authz.go` | `MCAuthz` |
| `RestServer` | `rest/server.go`, `rest/ready`, the router and the request handlers of `xhttp` | `MCRestServer` |
| `MetricsBase`, `InmemSink`, `StatsdSink`, `PrometheusSink`, `Metrics` | the clock and maps; `metrics/inmem.go`, `statsd.go`, `prometheus.go`; the front, its fan-out and the readers (`metrics.go`, `start.go`, `dogstatsd.go`, `inmem_endpoint.go`, `inmem_signal.go`) | `MCMetrics` |
| `PackageLogger`, `Xlog` | `xlog/logmap.go`, `packagelogger.go`; formatters, the global mutex and `logrotate/logrotate.go` | `MCXlog` |
| `TokenKeys`, `CryptoProviders`, `Authority`, `Pki` | keys in `xpki/crypto11`; `xpki/cryptoprov` with its four providers; `xpki/authority` and `xpki/csr`; their composition with the commands of `cmd/dollypki` and `xpki/csrprov` | `MCPki` |
| `TaskSchedulerProofs`, `RetriableProofs`, `RestServerProofs`, `AuthzProofs`, `XlogProofs`, `MetricsProofs`, `PkiProofs` | theorems | |
| `UtilityProofs` | theorems about `Throttle`, `FileReloader`, `KeypairReloader`, `SessionPool` and `ChannelWriter`, which it extends together: hence the prefixed names of the first four (`ThrottleSpec`, `PoolSpec`...) | |

**TaskScheduler.** Actors are the callers of the API, the loop goroutine, one
goroutine per `go task.Run()`, the clock. `s.lock` is a variable because `Stop` can
block while it holds it; `quit`, `ticker.C` and `runLock` are one-slot channels,
modelled by the number of elements queued. `Jammed` is a `Stop` that waits with the lock
in hand for a slot nobody will free. `Run` is split at the points another
goroutine can observe: the slot of `runLock` taken and `lastRunAt` stamped, `running`
raised, the callback returned, `scheduleNextRun` and the release. The two cases of
`Run`'s select may both be ready, so the timeout is always possible. Time is counted
in ticks and saturates at `MaxTime`; the package's location is the clock's, `time.Local`. `TaskFormat` has no state: it computes, from the
words of a format and the five reads of the clock a constructor makes, when the task
runs first.

**Throttle.** A consumer of `Next` is asleep on the condition variable, awake, or in
its body. `Trigger` either broadcasts at once (`TriggerNow`) or arms a timer
(`TriggerLater`) when `trailing`. `trailing` is a variable chosen initially, so one
run covers both modes.

**ChannelWriter.** `queue` holds the channel's elements followed by the blocked
senders in order, so `Depth` decides which Writes have returned. Buffers come from a
pool that may hand out any free one. A buffer holds a message number; overwriting a
buffer that is still queued would show as a duplicate in `Pipeline`. `AsyncLog` is
the abstract specification; the refinement mapping is at the end of the module. A
destination without `Flush` keeps nothing back: `Buffered` of `AsyncLog` is `CanFlush`,
and without it a message that is delivered counts as flushed.

**FileReloader, KeypairReloader.** The RWMutex has an announced writer who keeps new
readers out, as in Go. `Close` holds the read lock and tests and sets `closed` in two
steps, since two closers may both hold it. An assignment of `fileModifiedAt` without
the lock may be read half done (`Torn`). For the key pair, version *n* of a file has
modification time *n* and `KeyOf[n]` is the key the *n*-th certificate belongs to;
reading the certificate, reading the key, the stats and the publication are separate
steps, between which others replace the files. `inProgress` is only set inside the
write lock, nobody can observe it, and it is left out.

**SessionPool.** A pool is the set of sessions in the slot's channel, with a capacity of
its own. The map of pools
is written in two steps; a lookup in between may end the process (`crashed`), which is
what the Go runtime does when it notices.

**Retriable.** One call from start to end. Servers answer anything in `Answers` at any
time; the context may be done at any step. The payload is a reader with a position
(`reader`) and `convertRequest`'s copy of it; responses have bodies that are open,
drained or closed.

**Authz.** Providers live in a heap because `NewHandler` clones and an interceptor
shares. A tree is a function on the paths that have a node; `calls` remembers the set
of configuring calls, against which the tree is compared.

**RestServer.** The owner (`phase`), the goroutine of `StartHTTP` (`loop`) and every
request (`req[r].pc`) are the actors; net/http is external and follows its
documentation. A request passes the profiler, the identity, authorization and readiness
checks, the router and a handler that may write, return, panic or hang; `captured` is
what the two `ResponseCapture`s hold, `sent` what the client got. `IsReady` reads
`serving` and asks the services one by one. Authorization's decision is a free choice
here and module `Authz` elsewhere.

**Metrics.** Three sinks extend `MetricsBase`, and `Metrics` extends all three: it has
the program counters of the emitters and readers, the sinks the data and what a step does
to it. An emission goes through `prepare` (key and tags), `allowMetric`, `filterLabels`
and then sink by sink of the fan-out; for the in-memory sink the read of the clock, the
look at the last interval, the creation and the update are separate steps. Intervals are
pointers into `heap`, because an emitter may still write into one that was dropped. An
aggregate keeps the sequence of values it was given: the sums are floating-point, what they
round to depends on the order, and the properties are about which values went in. Data,
the look at `intervals` and the reading of the maps are separate steps of `DisplayMetrics`.
`em[e].arr` is the array of the caller's labels, which `filterLabels` overwrites; the
caller's slice has no spare capacity, so an append of `prepare` copies it. The
statsd sender packs metrics of a length into packets and may meet errors of the socket.
The DogStatsd sink only forwards to its client (external).

**Xlog.** `PackageLogger` has the registry, the levels and the loggers; the values of a
logger are a slice, an array with a length, and `append` is modelled with the capacities
Go gives (a key with its value counts as one element). `Xlog` adds the formatter, the mutex every logging call holds while it writes,
and the log rotators: a channel writer, here the queue with a listener that `AsyncLog`
promises, a buffered file and what is on disk. A caller that finds the queue full waits
with the mutex in hand. Rotators are opened and closed by any goroutine and in any order;
`ordered` remembers whether it was one at a time and the last one first. Two goroutines
that `Close` the same rotator race for its `closed` flag; the model has one.

**Pki.** In `TokenKeys` a library call is the sequence of `C_` functions it has left
(`op[u].todo`); the calls of several users interleave between any two, and a function may
fail. A key pair is two objects with one id. `CryptoProviders` adds the registry, `Load`,
and what each provider does to generate, find, export and load a key: a saved key is a
PEM file or a URI that names a manufacturer and a serial number. `Authority` is pure:
what a configuration validates to, and which names, subject, constraints and extensions
`Issuer.Sign` puts into a certificate, where a raw extension takes the place of the names or
the constraints when it has their OID (`Encoded`). A request may ask to be a CA. A name is "good" or "bad" for the allow lists, a certificate
records the key it was signed with. `Pki` puts them together: each command is the
sequence of steps its functions take, so that a key can be destroyed between its
generation and the certificate for it.

## Runs

| Run | Shows | Bounds, and why they are enough |
|---|---|---|
| `TaskScheduler` | `NoOverlap`, `ScheduleInStep`, `FirstRunOnTime`, `SchedulerProgress` (a due task runs, Stop ends the loop, the lock is given back, each up to a `Jammed` Stop, which is never the first) | 2 tasks with period 1, 2 Run goroutines, times 0..2, three Stops (the second may meet a full `quit` with the loop waiting for the lock, the third with the loop gone), one call of Run or Clear: both tasks become due, one is run by the loop and a client at once, a scan meets a running task. Formats: all the documented ones, every tick of a week of 4-tick days, the clock advancing at any of the five reads |
| `Utilities` | of the throttle `OneNextPerTrigger`, `LeadingRate`, `ThrottleProgress` (no trigger is lost, Stop releases all); of the session pools `ExclusiveUse`, `NoneLost`, `UserReturns` (an operation returns or waits for ever at a full pool that is smaller than the number of users); of the key pair reloader `ServedPairMatches`, `NeverServesOlder`, `DiskPairServed` | The three packages share no state: `part` picks the one that runs, the other two stay as they start, and fairness is owed by the one that runs. Throttle: 2 consumers, a period longer than a step, so that triggers fall inside and outside it. Pools: 3 users, 2 slots, room for 3 sessions in one pool and for 2 in the other, so that a session is given back to a full pool. Key pairs: 3 certificates and 2 keys (a renewal and a rekeying), 2 tries, a client, a failing stat |
| `ChannelWriter` | `ImplementsAsyncLog` (order, no loss or damage, the winning Stop drains and flushes), `WriterProgress` (a blocked Write returns, only further Writes hold Stop up, data is flushed in time) | 2 writers, 2 stoppers, one slot, 3 writes: one message held, one buffered, one blocked, and every free buffer may be reused. `StopReturns` is stated for each number of writes issued, so that it does not rest on the bound |
| `FileReloader` | `MarkedIsReported`, `ChangeHeard` | 2 modification times, one removal, one client reload, two closers |
| `Retriable` | `FullPayloadSent`, `OutcomeOfAllHosts` (the response decoded is open, a failure names every host), `RetriesEnd` (limits, and no retry after a cancellation) | 2 hosts, every kind of answer, the default policy with its limits scaled down to 0, 1 and 2 in the same order |
| `Authz` | `DecidedByCalls`, `HandlersFrozen` | 3 nested paths, 2 calls, a handler and an interceptor, a caller with a role and one without |
| `RestServer` | `StoppedIsDrained`, `UnavailableForAReason`, `StatusRecorded`, `ServerProgress` (StopHTTP returns, the server stays down, the profiler's lock is released) | a service, 2 requests, a TLS server with profiling and authorization and a plain one: one request holds the profiler's lock while the other waits, is refused or drained |
| `Metrics` | `SamplesAccounted`, `DisplaysFinished`, `PacketsInOrder`, `NeverStuck`, `DroppedWhenStale`, `LabelsKept` | Six configurations, with bounds of their own. In-memory sink: two handlers, each emitting two values, different ones, to a series; 2 retained intervals and 2 ticks of the clock: one series is emitted by both and split over an interval that was made twice, dropped intervals are still written to; then one emitter while an endpoint and a signal handler read. Statsd and Prometheus alone, two emitters, packets of two small metrics, one error of the socket. All sinks together, and three of them, for a handler that emits two metrics with one slice of labels or the collector of runtime statistics, while the filters change |
| `Xlog` | `ClosedIsOnDisk`, `LoggersReturn` (a call waits for ever only at a stopped rotator whose formatter was restored out of order), `ContextKept`, `LevelByLastCall` | Four sets of bounds. 2 callers, a queue of one, 3 records, two rotators of every kind opened and closed under load in any order, an application's own `SetFormatter(nil)`; loggers derived up to five times, where arrays are shared from the fourth on, and logged through; four calls that set levels; one rotator with every formatter and level |
| `Pki` | `PairsWhole`, `ExportedKeyLoads`, `IssuedWithinProfile`, `IssuerForProfile` | 2 users (symmetric) in six scenarios: destroy (3 keys, so that the listing limit of 2 cuts), find (labels on 2 slots), load (token, two KMS regions, memory), show, issue (seven configurations; requests that ask for names, a CA, raw extensions, with good and bad values), csr; one failure of the token |

Two more runs check what a comment of the code says and find it violated; they have the
instances of `Authz` and `Metrics`, and each is a finding in `PROJECT.json`:

| Run | Property | The comment |
|---|---|---|
| `AuthzInner` | `AccessAsDocumented` | "Allow will allow the specified roles access to this path and its children [unless a specific Allow/AllowAny is called for a child path]" (`authz.go:329`) |
| `MetricsLabels` | `LabelsOnce` | "filterLabels return only allowed tags" (`metrics.go:138`) |

Types are stated by `TypeOK` where a proof or a reader needs them.

Deadlock is checked for the scheduler and authorization; the
other systems may come to rest (everybody stopped, closed or returned).

### Fairness

Goroutines that can go on do (weak fairness). `sync.Mutex` and `sync.RWMutex` do not
starve a waiter, and Go's `select` picks at random among the ready cases, so a lock or
a case that is ready again and again is taken: these are strongly fair. Tickers tick.
Callbacks, token operations and writes to `dest` return. The handlers of a REST server's
services need not return; the context of `Shutdown` expires. Nobody has to call the API,
change a file, write, log or cancel. The flush ticker of statsd ticks; the listener of a
log rotator receives. A goroutine that waits to send a session to a full pool is let in by
the first receive after those before it (Go queues senders): giving back is strongly fair.
The runs of `Retriable`, `Authz` and `Pki` check safety only and assume nothing.

### Disagreements met while modelling

The models contain the behaviour unless said otherwise. Where a run shows
that a comment says otherwise, it is named; the other properties are stated so that they hold
beside the behaviour.

Tasks and throttle:

- `Stop` never resets `running` and sends on the one-slot `quit` with the lock held
  (`scheduler.go:174`). A second `Stop` before the loop has received the first blocks
  with the lock, and the loop blocks in `getRunnableTasks`; `scheduler.go:171` and
  `scheduler_test.go:22` have no such condition. A Stop after the loop has ended fills
  `quit`, and the one after that blocks. `SchedulerProgress` has these as `Jammed`.
- The words of the comment of `NewTask`, "at %hh:mm" (`task.go:140`), are rejected: "at" is
  neither a time nor a number. A time before its unit ("10:30 week", "10:30 seconds") is
  accepted, and the pretended last run is that of a daily task.
- `at` reads the weekday twice (`task.go:227`); when midnight falls in between, the task
  of the day that has just ended is due at once instead of next week. `FirstRunOnTime`
  leaves this case out (`SameWeekday`).
- A task "to execute daily at specific time" (`task.go:118`) is rescheduled from the
  moment its last run began (`task.go:257`), so every late run, and every `Run` of a
  client, moves all later ones. `ScheduleInStep` states what the code does.
- `getRunnableTasks` stops at the first task that should not run, so a long callback at
  the head of the list delays due tasks behind it (`scheduler.go:93`; the comment at 116
  says "all the tasks"). `SchedulerProgress` holds because callbacks return.
- A scan between `running = false` and `scheduleNextRun` (`task.go:291`) starts a second
  run at once.
- With `trailing`, the throttle sets `waiting` at once and only delays the broadcast
  (`throttle.go:104`), so a consumer that is awake goes ahead within the period, contrary
  to "Next() returns true at most once per `period`" (`throttle.go:50`). `LeadingRate` is the
  claim without `trailing`.
- `at` takes the day of the local clock and the time of day in the package's location
  (`task.go:216`); a program that calls `SetGlobalLocation` gets a first run that may be a
  day off. The model does not call it.

Server, client and reloaders:

- `StopHTTP` closes the services while requests are served and accepted (`server.go:436`),
  waits no "minShutdownTime" (425) and never fires `ServerStoppingEvent` (51); the
  goroutine of `StartHTTP` may fire `ServerStartedEvent` and raise `serving` after
  `ServerStoppedEvent`. `ServerProgress` says that it comes down again.
- A `StartHTTP` that fails on the profiler's directory leaves its TLS listener open
  (`server.go:361`).
- `ResponseCapture` records the last status a handler sets, net/http sends the first
  (`response_capture.go:47`); a panic and a caller who cannot be identified are neither
  logged nor counted.
- The `Stop` of a channel writer that loses the CompareAndSwap returns before the
  channel is drained (`channelwriter.go:70`). `AsyncLog` is about the winner.
- The drain of `Stop` ends when it finds the channel empty (`channelwriter.go:117-126`), so
  writers that never pause keep `Stop` for ever, and a Write after it blocks once the
  channel is full. `StopReturns` says that only further Writes hold it up.
- `Close` of the key pair reloader sends on `stopChan` with the read lock held while the
  poller waits for the write lock in `Reload` (`tlsconfig/reloader.go:264`, against 248),
  and neither goes on. `fileutil/reloader.Close` has the same deadlock
  (`reloader.go:128`), and its callbacks can overtake each other (`reloader.go:96`).
- The modification time of a certificate is taken after the load; a file replaced in
  between comes into use an hour later and no handler is called
  (`tlsconfig/reloader.go:172`).
- Giving a session back to a full pool, or to a slot without one, blocks for ever
  (`sessions.go:36`; the comment at 19 announces a panic). With more users than room this
  does happen, as sessions are opened whenever the pool is empty: `UserReturns` excepts it.
- Connection errors are retried beyond `TotalRetryLimit` (`retriable.go:690`), a retried
  response is drained and not closed (574), and a payload that can be closed is closed
  at the first host, so the next ones are not sent anything (`request.go:81`).
- `IsReady` and `StopHTTP` iterate over the map of services without the lock of
  `AddService` (`server.go:297`); the model lets services be added before the start only.
- `Allow("/a/b/c")` creates an empty node for `/a/b`, which then decides for `/a/b` and
  takes away what `Allow("/a")` gave (`authz.go:370`), contrary to `authz.go:329`: run
  `AuthzInner`. `DecidedByCalls` says what the tree does decide.
- A lookup creates `pathRoot`, after which `NewHandler` accepts a provider without paths
  (`authz.go:353`).

Metrics and logging:

- An emitter delayed between its look at the clock and `createInterval` (`inmem.go:263`)
  appends an interval that is older than the last one, or there already; readers see both.
  `SamplesAccounted` adds them up.
- `DisplayMetrics` reads an interval without its lock, and an emitter that took it before
  the clock moved may still write to it (`inmem_endpoint.go:60`), although "a read lock should
  be acquired" (`inmem.go:210`). After an append out of order the interval shown may even be
  the current one.
- The snapshot `Data` makes of the current interval shares the `*AggregateSample`s, which
  go on changing (`inmem.go:238`). With `retain < interval` the sink retains nothing and
  `Data` indexes an empty slice.
- `Shutdown` of a statsd sink drops what is in the buffer; a push after it panics until
  the queue is nil; a metric longer than a packet sends an empty packet and then itself.
- `DogStatsdSink.parseKey` splices the key of the caller in place (`dogstatsd.go:72`), so
  sinks after it in the fan-out get a damaged key; `filterLabels` filters in the caller's
  array (`metrics.go:144`), so that with a label blocked the next metric of the request
  carries another one twice (run `MetricsLabels`), and one during which the filters change
  may lose some. `LabelsKept` says what is left: no allowed label is lost while the filters
  stay, and none is doubled when the instance appends labels or blocks none.
- Prometheus keeps the time of an update per hash and not per kind, so a stale gauge
  lives as long as a counter of the same hash.
- `Close` of a rotator flushes only a buffered file without an extra sink
  (`logrotate.go:58`): without a channel, or with an extra sink, entries stay in the buffer of
  the file, although "Close will ensure that queued/buffered but unwritten log entries are
  flushed to disk" (77). `ClosedIsOnDisk` is about the buffered ones.
- From the fourth `WithValues` on, a derived logger shares spare room of its parent's array,
  and logging through the parent, or deriving from it again, overwrites the child's context
  (`packagelogger.go:44`, although 38 says "adds some key-value pairs of context to a logger").
  `ContextKept` says from where a value can be
  overwritten, and so which contexts are safe.
- A derived logger keeps the level it was derived with; a package that registers after
  `SetGlobalLogLevel` is at INFO.
- Rotators closed in another order than last opened, first closed, or an `Initialize` that
  overtakes a `Close`, put a stopped writer back (`logrotate.go:85`); once its channel is
  full, every logging call waits for ever with the mutex held. `LoggersReturn` and the second
  part of `ClosedIsOnDisk` say so with `ordered`.

Keys and certificates:

- `Config.Validate` and `CreateIssuer` return `errors.WithMessagef(nil, …)`, which is nil
  (`config.go:425`, `issuer.go:162`): a profile with an unknown issuer label stops the
  validation half way, and lists after it are not compiled. `IssuedWithinProfile` claims
  the allow lists for configurations without such labels.
- `NewRoot` validates the configuration once more (`root.go:19`), which may compile profiles
  that `LoadConfig` did not come to, or fail on one of them.
- A configuration without AIA settings panics in `NewAuthority`.
- `SetSAN` appends the nil URL of a malformed `://` name (`csr.go:310`), and `Issuer.Sign`
  panics on it if URIs have an allow list (`issuer.go:322`), the encoder if not; in the model
  both make no certificate.
- An empty list of allowed fields copies all of them from the request, its basic constraints
  included; `fillTemplate` overrides the CA flag but leaves the path length of the request in
  the template of a certificate that is none (`issuer.go:468`). A profile that allows the raw
  extensions 2.5.29.17 or 2.5.29.19 leaves the names, or the CA flag, to the caller.
- `DestroyKeyPairOnSlot` goes on when a search fails (`util.go:142`) and an empty id
  matches any key; a search by label may pair halves of different keys; signing uses the
  library's slot and not the key's. `PairsWhole` and `ExportedKeyLoads` say what is left.
- A URI carries the manufacturer the module reports while the lookup uses the configured
  one; KMS always writes "AWSKMS"; a token without a serial number writes a URI that
  cannot be loaded (`Nameable`).
- `LoadProvider` reads the map of loaders without the lock of `Register` (`loader.go:53`);
  `LoadTokenConfig` trims the characters of "file:" and not the prefix.
- KMS lists all keys whatever prefix is asked for, so that `hsm rmkey --prefix` schedules
  the deletion of all of them; on a token it handles at most the 100 objects of one
  listing.
- A failure after the generation of a key (in `NewRoot`, in the commands) leaves the key.
- `csr gencert` and `signcert` ignore the error of the signer and write an empty
  certificate (`gencert.go:134`, `signcert.go:100`); the comment of the TLS key pair
  loader announces a test that the key matches, which is not there.

## Proofs

All theorems hold for every value of the constants allowed by the ASSUMEs of the
modules: periods, capacities and numbers of tries are positive, the bounds are natural
numbers, the special values (`NoTask`, `None`, `Nobody`...) are different from the
others, the limits of a retry policy are natural numbers, a server answers a status from
100 up or an error, and a second, a minute, an hour and a day are each longer than the
one before. The paths of `Authz` are a finite set of sequences with all their prefixes.
No repository or package of `PackageLogger` is called `*`, which is the wildcard of a
configuration; the formatters set from outside write to standard error. The requests of
`Metrics` are sequences of calls with sequences of tags, and a fan-out has each sink
once, as `start.go` builds it; the expiration of the Prometheus sink is a natural number.
The setups of `Pki` are sequences of provider configurations, of which the PKCS#11 ones
and no others have a slot, and the configurations of one place agree in kind, module and
serial, which are what the place itself says of them; the library is called with slots
that exist, and the csr files of `genkey` and `gencert` hold no public key. The runs
evaluate these assumptions on their instances. Two more are in the model itself: a token
does not use the handle of a destroyed object again, and the names of a root request parse
(`csrprov.go:123`).

Each safety theorem goes by an inductive invariant: it holds initially, every step of
`Next` preserves it, and it implies the property. TLC checked it on the run's instance
before it was proved.

- **TaskSchedulerProofs**: `TypeCorrect`, `RunMutualExclusion` (`NoOverlap`),
  `FlagExact` (`RunningFlagExact`), `InStep` (`ScheduleInStep`). `NoOverlap` is not
  inductive: nothing in it says that `runLock` is taken while a goroutine is inside.
  `LockInv` adds that (`SlotTaken`) and that a goroutine which is not idle has a task
  (`JobSet`). For the flag and the schedule the invariant also relates `taskRunning`
  to the one goroutine in "callback", and says that a task that was not created has no
  goroutine. `DailyOnTime`, `WeekdayOnTime` and `IntervalOnTime` are about the arithmetic
  of `TaskFormat`: whatever the length of the day, the interval and the five reads of a
  clock that is not set back, the first run of a task is when it should be. They
  generalise the part of `FirstRunOnTime` that is about `at` and the constructors.
- **RetriableProofs**: `TypeCorrect`, `PayloadIsWhole` (`FullPayloadSent`),
  `OutcomeNamesHosts` (`OutcomeOfAllHosts`), `RetriesStop` (`RetriesEnd`). By the place
  in the code: where the reader and the copy stand (`PayloadInv`), that the last body
  belongs to the answer being judged (`BodyInv`), that exactly the hosts before this one
  have failed (`ManyInv`), that the counter of retries bounds the attempts at this host
  and later hosts have seen none (`RetryInv`), and that an attempt with the context done
  is the last at its host (`LateInv`).
- **RestServerProofs**: `TypeCorrect`, `DrainedOnStop` (`StoppedIsDrained`),
  `ReasonFor503` (`UnavailableForAReason`), `StatusIsRecorded` (`StatusRecorded`),
  `ProfilesDoNotOverlap` (`ProfileOwned`). `ServerInv` relates the owner to the goroutine
  of `StartHTTP`: whoever serves has raised `serving`, and the drain begins after the
  listener is shut. `RequestInv` says, by the handler a request is at, what has been
  captured, logged, counted and sent.

- **UtilityProofs**, five components that have no fact in common:
  - `Throttle`: `ExactlyOneNext` (`OneNextPerTrigger`), `RateWithoutTrailing`
    (`LeadingRate`): without trailing, `waiting` implies that a period has passed between
    the last `Next` and the trigger (`RateInv`).
  - `FileReloader`: `ReloaderTypeCorrect`, `NoModificationSwallowed` (`MarkedIsReported`).
    `fileModifiedAt` is set before the lock is taken, so the property is false on the
    way; `MarkInv` says where the mark may be ahead of the callbacks.
  - `KeypairReloader`: `KeypairTypeCorrect`, `MatchingPairServed` (`ServedPairMatches`),
    `ServedPairAdvances` (the action property `NeverServesOlder`). Needed: one Reload is
    past the lock at a time (`LockInv`), what it has read is no older than the pair in
    use, and it matches once the load has succeeded (`LoadInv`). Both fail without the
    lock.
  - `SessionPool`: `ExclusiveSessions` (`ExclusiveUse`), `NoSessionLost` (`NoneLost`). The
    strengthening says that sessions in pools or in hands have been opened, so a new one
    is different from all of them, and that a user holds a session exactly while using
    or returning it (`HandsEmpty`).
  - `ChannelWriter`: `WriterTypeCorrect` and `WriterImplementsLog`
    (`ImplementsAsyncLog`): the initial states map to initial states of `AsyncLog`, and
    each step to one of its steps or a stutter. The abstract log is the pipeline of
    `dest`, the buffer in hand and the queue; it is only appended to because a buffer that
    is on its way is not handed out again (`BufferInv`), and the drain is complete because
    the pipeline is as long as the writes issued (`CountInv`); `StopInv` takes that to the
    return of the Stop that won.
- **AuthzProofs**: `TypeCorrect`, `AccessDecidedByCalls` (`DecidedByCalls`),
  `HandlersKeepTheirAccess` (the action property `HandlersFrozen`). The tree of a provider
  is a function of the set of calls made on it: its nodes are the prefixes of their
  paths, and a node holds what the calls for that very path say. With that, the walk of
  `isAllowed` ends at the longest prefix a call was made for. A handler's provider is a
  clone nobody else has a reference to, which is why later calls do not reach it.
- **XlogProofs**: `CloseFlushes` (`ClosedIsOnDisk`), `ContextsKept` (`ContextKept`),
  `LevelsByLastCall` (`LevelByLastCall`). `SlicesOK` says of every slice that its values up
  to the end of the shortest one sharing the array are those it was derived with, which an
  append, writing behind the end of some slice, cannot touch; `LevelsOK` relates the registry
  and the levels to the history of calls. `RotsOK` says that what was sent to a rotator is on
  disk, in its buffer or in its channel, in this order (`Accounted`), whoever closes what
  and when; only as long as `ordered` also that a formatter in use writes to an open rotator
  and that open rotators remember older ones (`InOrder`).
- **MetricsProofs**: `DisplaysFinish` (`DisplaysFinished`), `LabelsSurvive`
  (`LabelsKept`), `PacketsOrdered` (`PacketsInOrder`), `DropsOnlyStale` (the action
  property `DroppedWhenStale`). `ReadInv`: the slice of intervals
  does not shrink and its pointers ascend, so an index computed from an earlier length stays
  good without the lock and leads to an interval no older.
  `ArrInv`: `filterLabels` compacts the array of the caller in place and loses only
  labels that are not allowed, so that the next call with the array has them all, and
  leaves the array as it is when nothing is blocked or `prepare` has made a copy.
  `IdInv` and `PacketInv`: an emission is pushed once, and what was sent, what is in the
  buffer and what is in the queue, one after the other, are in the order of the pushes;
  a packet of more than one metric fits. `SeriesInv`: a hash leaves `updates` only with
  the series of every kind, so the time of a hash is never before that of a series that
  has it. `filterLabels` and the flattening of the packets
  are loops: the module proves what a loop computes by induction over the numbers that
  have the property, as a set (`SetInduction`, from the well-foundedness of the natural
  numbers), since the induction theorems of the library take an operator.
- **PkiProofs**: `CertificatesWithinProfile` (`IssuedWithinProfile`). What `Sign` returns
  is within the profile it used, if that is compiled (`SignedWithin`), whatever the request
  asks for, constraints and raw extensions included; the rest is about
  who may call it, and with what. A call is a list of functions in `op[u].todo`, put
  together from the parts of a provider: `CallsInv` says that a call which signs a root or
  makes an issuer began after the configuration was loaded, and that the issuers made so
  far have profiles of that configuration, which does not change any more (`ConfInv`);
  `ValidateCompiles`: without unknown labels LoadConfig succeeds only when every profile
  is compiled.
  `PairsStayWhole` (`PairsWhole`), for any number of users, slots, keys and failures of
  the token: the invariant `PairInv` says of the objects that the handle of a half is that
  of its key, so that a handle names one half for ever, whoever holds it (`ObjectsOK`,
  `HandleDecides`); of the ids in calls, files and lists that a key was made with them
  (`IdsOK`, `CallType`), so that no new key takes the id of one that is being destroyed;
  and of each call on a slot (`PairCalls`) that it is an ordinary one, which destroys
  nothing, a listing, or one of the four suffixes of `DestroyKeyPairOnSlot`. For those
  `Destroying` says what the call has seen so far: each handle it holds is that of its
  key's half or zero, zero only when that half is not there or the token failed about this
  key (`Seen`), and once the private half was handled it is not there any more. Objects
  are never made again with an old id, so what one user has seen absent stays absent
  whatever the others do; the private half goes first (`PrivateGone`), then the public one
  (`PublicGone`), and `gone` is extended only when both are absent. The rest is that every
  command begins with such a call and every function leaves one (`PairSteps`,
  `CommandsPair`).
  `SavedKeysLoad` (`ExportedKeyLoads`): the invariant `LoadInv` says of the providers
  that one of each manufacturer is loaded, the default one among them (`Registry`, the
  check for duplicates of `Add`), of a URI that it is what the provider of the key's place
  exports for its id (`FileNamed`), and of a loaded key that its public half and its
  handle are those of its id (`KeyOK`). A call has one of four forms: it neither saves nor
  holds a key (`QuietSteps`), it makes one, whose id is known before it is saved
  (`Saving`), it finds one to sign a csr (`Signing`), or to keep it (`Holding`, which says
  for each suffix of the call what was found so far). From `PairInv` comes that a handle
  found for an id is that of its half for ever.

Only model-checked:

- every liveness property: fairness and ENABLED are beyond the prover;
- `FirstRunOnTime` as a whole: the parser folds an operator over the words of a format;
  the arithmetic it leads to is proved;
- `SamplesAccounted` of `Metrics`: sums over sets of samples, for which the library has
  no theorems;
- `IssuerForProfile` of `Pki`: it relates the issuers of a configuration to the key that
  each of them has found and to what a chain of certificates verifies under; the invariant
  would have to follow the key from the saved file through the call that makes the issuer.

## Plan

Done: the modules above, in the order tasks and throttle, logging, reloaders, sessions,
client, authorization and server; then metrics, loggers with rotation, keys with
providers and the authority, and the formats of tasks; then the proofs of the safety of
tasks, throttle, channel writer, reloaders, sessions, client and server, of
authorization, loggers with rotation and metrics, of the certificates, of the key
pairs and of the saved keys. Left:

1. Proofs: `IssuerForProfile` of `Pki`.
2. Models: options and decoding of the retriable client, OnReload, one rotator closed by
   two goroutines.

## Not modelled

- Encodings: ASN.1, PEM, JSON, OpenPGP (`gpg`, `armor`), log layouts, signature
  algorithms. Models treat them as data; verification of a chain is external.
- Tables (`oid`), pure helpers of a few lines (`slices`, `math`, `guid`, `certutil`),
  network and file helpers and `tlsconfig`, which build values and keep no state.
- `audit`: a collector that keeps events until they are submitted, used by one goroutine.
- Parsing of command lines, printing, test support.

`PROJECT.json` lists each of them as a component with the reason.
