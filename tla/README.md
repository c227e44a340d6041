# Verification of webx

webx is an HTTP server framework in Go: a `Server` that serves one handler over up to
three channels (TCP with HTTP/1.1 and HTTP/2, QUIC with HTTP/3, a Unix socket), a
configurable chain of built-in middleware around a radix-tree router, graceful
shutdown, probes and metrics. This directory holds TLA+ modules translated from its
source, TLC configurations that check them on small instances, and proofs that TLAPS
checks for every value of the constants. Paths below are relative to the repository
(`src/` is its root).

- [The system](#the-system): components, state, operations, what is hard
- [Modules](#modules): what models what
- [Runs](#runs): what each TLC run asks and shows, bounds, fairness
- [Mutants](#mutants)
- [Proofs](#proofs)
- [Findings](#findings)
- [Not modelled](#not-modelled)
- [Plan](#plan)

## The system

| Component | State | Operations | Interacts with |
|---|---|---|---|
| Server lifecycle (`server.go`, `graceful.go`, `listener.go`) | `started`, the configuration, listeners and servers (`listenersMu`), `shutdownOnce`, `shuttingDown`, `signalCtx`, `cleanupFuncs` | setters, `Start`, `Stop`, `waitSignal`, `shutdownAll` | everything: builds the handler, owns the Serve goroutines |
| Handler assembly (`server.go` `Start`, `registerBuiltinMiddleware`) | the routes, groups and static entries of `Server` | registers the built-ins, builds the chain, mounts routes and probes on the router | middleware manager, route groups, router |
| Concurrency limiter (`middleware/concurrencylimit.go`) | two atomic counters | `TryAcquire`, `Release`, the middleware | every request goroutine |
| Response path (`middleware/{recovery,timeout,gzip,metrics,accesslog}.go`, `internal/core/response.go`) | the stack of writers in a `Context`, its write state, the gzip buffer and pool | each wrapper installs a writer, calls on, restores the one before | `Context`, net/http |
| Rate limiter (`middleware/ratelimit.go`) | bucket per key under a mutex, rejected counter | `Allow`, `RetryAfter`, `Cleanup`, the middleware | the clean-up goroutine of `EnableRateLimit` |
| Request metrics (`middleware/metrics.go`, `metrics.go`) | atomic counters, per-route map under an RW mutex, connection gauge | one request, `Snapshot`, `connState` | response path, router (route pattern) |
| Middleware manager, route groups (`middleware/manager.go`, `route.go`) | built-ins, overrides, disabled set, order, extras; the slices of each group | `Enable`, `Disable`, `Override`, `SetOrder`, `Build`; `Use`, `Group`, `GET`…, `flatten` | handler assembly |
| Router (`router.go`) | the tree, the pool of parameter buffers | `Handle`, `HandleStatic`, `insert`, `lookup`, `ServeHTTP` | request context |
| Request context and pool (`internal/core/context.go`) | `sync.Pool`s of contexts and of parameter buffers, handler index | acquire, release, `Next`, `Abort`, `Param` | every handler |
| Certificate provider (`listener.go`) | cached key pair and two modification times under a mutex | `GetCertificate` | TLS handshakes, an operator rotating files |
| Metrics snapshots (`metrics.go`) | one connection gauge | `Metrics`, `connState` | request metrics |
| Probes (`health.go`) | none (reads `shuttingDown` and registered checks) | `/health`, `/livez`, `/readyz` | lifecycle |
| Header-only middleware (`requestid`, `bodylimit`, `cors`, `validation`, `security`) | none | one request | response path |
| Configuration (`config.go`) | none after load | load, environment override, validation, apply | lifecycle setters |
| Static files (`static.go`), reverse proxy (`proxy/`), forms (`internal/core/form.go`) | none shared | one request | response path; file system, upstream |
| pprof, error codes, platform files, aliases | none | – | – |

**How they interact.** `Start` holds `mu` for three lines, marks the server started, and
from then on reads the configuration without the lock; the setters refuse to run once
`started` is set. It opens the enabled channels one after the other, registering each
listener and each server under `listenersMu`, and spawns a Serve goroutine for each.
`Stop` and the signal watcher both go through `shutdownOnce` into `shutdownAll`, which
takes a snapshot of what is registered under `listenersMu` and works on that snapshot
alone. A request runs in a goroutine of net/http or quic-go through
`recovery → request_id → body_limit → concurrency_limit → timeout → cors → validation →
security → gzip → rate_limit → metrics → access_log → extras → router`.

**What is hard.** The lifecycle is the place where goroutines meet without a common
lock: a `Stop` may come before, during or after every step of `Start`, `Shutdown` may
overtake the goroutine that is about to call `Serve`, and the requests still in flight
decide whether a shutdown ends cleanly. The limiter and the counters are lock-free.
Contexts and parameter buffers come from pools, so that one request could see what another
left. The router's tree is shared by all routes and walked without backing out of a branch,
and what the application configures reaches `Start` in whatever order it was called. The
response path is sequential, but the *order* in which deferred functions, writer
restorations and panics meet is what decides the bytes a client gets.
`PROJECT.json` lists each hazard at its line with the properties that cover it.

## Modules

| Module | Models | Checked by |
|---|---|---|
| `Lifecycle` | server lifecycle | `MCLifecycle` and its three cfgs |
| `Lifecycle_proofs` | theorems about `Lifecycle` | TLAPS |
| `ConcurrencyLimiter` | the limiter, one action per atomic access | `MCConcurrencyLimiter` |
| `Semaphore` | what the limiter promises | refined by `ConcurrencyLimiter` |
| `ConcurrencyLimiter_proofs` | theorems about the limiter, its refinement of `Semaphore` | TLAPS |
| `ResponsePath` | one request through recovery, timeout, gzip, metrics and access log | `MCResponsePath` and its two cfgs |
| `ResponsePath_proofs` | theorems about `ResponsePath` | TLAPS |
| `RateLimiter` | the table of token buckets and its clean-up | `MCRateLimiter` |
| `TokenBucket` | what the rate limit promises: one bucket per key, filled early only when its key has not asked for long | refined by `RateLimiter` |
| `RateLimiter_proofs` | theorems about the rate limiter, its refinement of `TokenBucket` | TLAPS |
| `CertificateProvider` | `getCertificate`, one action per system call, against an operator | `MCCertificateProvider` |
| `CertificateProvider_proofs` | theorems about the certificate cache | TLAPS |
| `Router` | the matching tree: registration, `lookup`, `ServeHTTP` | `MCRouter` |
| `Router_proofs` | theorems about `Router` | TLAPS |
| `Requests` | concurrent requests on the pools of contexts and buffers, the chain of handlers, the metrics | `MCRequests` |
| `Requests_proofs` | theorems about `Requests` | TLAPS |
| `Assembly` | middleware manager, route groups, and what `Start` makes of them | `MCAssembly` and its two cfgs |
| `Assembly_proofs` | theorems about `Assembly` | TLAPS |

### Lifecycle

One action is what a goroutine does between two points at which another one can see the
`Server`: a critical section, the opening or closing of a listener, entering
`shutdownOnce`, one `http.Server.Shutdown`.

| Variables | Code |
|---|---|
| `started` | `Server.started`, under `mu` |
| `config`, `inUse` | a version number of everything setters change, and the version `Start` built the handler from |
| `logger` | whether `Server.logger` is non-nil |
| `starter`, `left` | where each `Start` call is and the channels it has still to open |
| `listener`, `listeners`, `servers` | the OS listeners; what is registered under `listenersMu` |
| `serving`, `down` | the Serve goroutine of each channel; whether `Shutdown`/`Close` was called on its server |
| `socket` | the Unix socket's file (`stale`: left by a crashed run) |
| `conn`, `on` | each connection, and the channel its client dials |
| `cleaner`, `cleanupFuncs` | the goroutines of `EnableRateLimit` and the functions that cancel them |
| `signalCtx`, `signalled` | `signalCtx`/`signalCancel`; the one-place `quit` channel |
| `closer`, `once`, `phase`, `snap*`, `todo`, `failed` | each `Stop` caller and the watcher, `shutdownOnce`, and the program counter and locals of `shutdownAll`/`shutdownServers` |
| `shuttingDown` | `Server.shuttingDown`, what the readiness probe reads |

| Actions | Code |
|---|---|
| `Configure`, `EnableRateLimit` | the setters: hold `mu`, return if started |
| `EnterStart` | the critical section at the top of `Start` |
| `RefuseNilLogger` | the return before the deferred clean-up is set up |
| `Prepare`, `PrepareFails` | validation, chain, router, TLS: all before the first listener |
| `Listen`, `ListenFails` | `create*Listener`, and `closeListeners` when it fails |
| `AddListener`, `AddServer`, `SpawnWatcher` | registration, `wg.Add` and the go statements |
| `ReturnFromStart`, `CancelCleanup` | `wg.Wait`; the deferred `cancelCleanup` |
| `BeginServe`, `EndServe`, `ServeFails` | the Serve goroutine: `Serve` on a server already shut down returns at once and closes the listener; it ends when its listener is closed; `Accept` may fail for good |
| `Accept`, `Respond` | connections |
| `Signal`, `WatcherWakes`, `CallStop`, `EnterOnce` | `waitSignal`'s select, `Stop`, `shutdownOnce.Do` (losers wait) |
| `SetShuttingDown` … `CloseHTTP3` | the statements of `shutdownAll` and `shutdownServers` in their order |

What is abstracted: addresses, TLS, routes and options are one version number; that any
check of them may fail is kept. The two real timers (`ShutdownTimeout`,
`QUICDrainTimeout`) are events that may happen at any moment. `Stop(ctx)`'s context and
the shutdown timeout are one event, since the code derives one from the other.
`Server.signalCancel` and `cleanupFuncs` are read and written without a lock; that race is
modelled as the interleaving of the read and the write, either of which may come first.
The behaviour of `http.Server` (what `Serve`, `Shutdown`, `Close` do, including `Serve`
after `Shutdown`) and of quic-go (a connection past its handshake is still handed over
after its listener is closed, until `http3.Server.Close`) is modelled as the code in
`src/` uses it.

### ConcurrencyLimiter and Semaphore

`TryAcquire` is three actions (`Arrive`, `Load`, `CompareAndSwap`) because another
goroutine may run between the load and the swap; `current` is its local variable. The
handler may return or panic (`Finish`), and the deferred `Release` runs either way.
`Semaphore` is the same promise without the loop: a request enters, is refused because
the limit is reached *at that moment*, or leaves. `Abstract` is the refinement mapping.

### ResponsePath

One request is one goroutine, but the deadline of the timeout middleware may pass between
any two of its steps; one action is one call of one writer, or the entry or exit of one
middleware.

| Variables | Code |
|---|---|
| `enabled`, `ops` | which of the five the server installs (gzip only if the client accepts it); what its handler does |
| `at`, `mode` | the `ServeHTTP` frame that runs: entered (`down`), returned to (`up`), unwound by a panic |
| `calls` | the calls of writers the running frame has still to make |
| `writer`, `orig` | `Context.writer`; the local `orig`/`origWriter` of each wrapper |
| `c` | `Context.wrote`, `Context.status` |
| `deadline`, `tw` | the timeout's context; `timeoutWriter.timedOut`, `wroteHeader` |
| `gw` | the fields of `gzipWriter`; `pending` is what compress/gzip holds back |
| `header` | Content-Type, Content-Encoding and Content-Length in the header map all writers share |
| `sent`, `body` | the status and headers net/http has committed, the body it has accepted |
| `written`, `direct` | what the handler wrote; the status it gave past the `Context` |
| `panics`, `m`, `logged` | `Metrics.panics`, the other counters of `Metrics`, the access log |

`Enter*` are the statements before `next.ServeHTTP`, `Leave*` those after it, `Unwind*`
and `Recover` the deferred functions that run when a panic passes: only timeout's cancel,
metrics and recovery defer anything, so a panic leaves the innermost writer in the
`Context`. `ToAccessLog`, `ToTimeout`, `FlushTimeout` and `Gzip*` are the methods of the
writers, `ToServer` net/http. A body is a sequence of tokens, each naming the write it
comes from and whether it passed through the compressor; `End` is the trailer
`gzip.Writer.Close` writes. Sizes are counted in writes.

The handler answers in any of the ways `Context` offers, in any order, but sets a status or
a file only once and first, as net/http asks. It may also answer past the `Context`, which
then never learns of the status: static files (`DirectFile`: a file, a 304 or a 404), the
router's 301 and automatic 204 and any status an `http.Handler` sends by itself
(`DirectStatus`), bare writes (`Write`). `direct` remembers that status, and `Asked` is the
one the client should get. Statuses other than 200 and those of the middleware are one
value, 404.

net/http holds an answer to its Content-Length: `Commit` notes whether the header was sent,
`Receive` accepts what fits and drops the rest (`ErrContentLength`), and `Whole` demands a
body that is as long as was said, in the encoding that was said. The only length anybody
declares here is that of a file, which is one token long, so what fits is the file itself.

`timeoutWriter` looks at its context and then passes the call on
(`middleware/timeout.go:39`); the two are one action, so a write that passes the look just
before the deadline counts as having come before it. Sampling and `LogSuccess` only choose
which records the access log prints: `logged` holds all of them. The counters of routes,
groups and protocols are in `Requests`.

### RateLimiter and TokenBucket

`Allow` and `Cleanup` hold the mutex from their first statement to their last, so each
outcome of `Allow` is one action: `AdmitKnown`, `AdmitNew`, `RefuseEmpty`,
`RefuseCrowded`. `buckets` maps the keys in the table to their tokens and to the time
since `lastTime`; `rejected` is the counter, which wraps. Time is a number of instants, of
which a bucket needs `Token` to regain a token; `Tick` ages every bucket. The bucket
itself is the external `resiliencex` one (`Full`, `Older`). `TokenBucket` knows no table
and no other key: each key has a level and the time since it last asked (`rested`); it takes
from its level or is refused when that is empty. A key that has not asked for longer than
`Expiry` may have its bucket filled at once (`Forget`), and only such a key, its bucket
full, may be refused for want of room (`TurnAway`). `Abstract` maps a key that is not in the
table to a full bucket that has rested. So the refinement says that what other keys do never
gives a key a token and never costs it one, and exactly when its debt may be forgotten.
The run takes an `Expiry` at which debts are forgotten; when they are not is the theorem
`DebtsAreKept`.

`EnableRateLimit` refuses `QPS <= 0`, which leaves the refusals at `ratelimit.go:116` and
`:121` unreachable; the setters of the limiter run before the server starts and give the
constants; `RetryAfter` reads, and its answer is a header.

### CertificateProvider

Every handshake takes the mutex of the provider, so handshakes do not interleave with each
other between `Lock` and the deferred `Unlock`; but the operator holds no mutex, and may
write or remove a file between any two of the four system calls of `getCertificate`: two
`Stat` and two reads by `tls.LoadX509KeyPair`.

| Variables | Code |
|---|---|
| `disk` | the two files: version, and `whole`, `torn` (being written) or `gone` |
| `cache` | `cert`, `mtimeCert`, `mtimeKey` of the provider |
| `holder` | the mutex |
| `pc`, `local` | where each handshake is; `infoCert`, `infoKey`, and the certificate read |
| `since` | what was on disk when the handshake began, for the properties |

The modification time of a file is its version. That assumes what the code assumes: two
versions of a file never share a modification time, and a file is not replaced by one that
is older. `KeyFor` says which key each certificate belongs to; a renewal for the same key
and a change of both are different cases, because in the first the pair matches all along.

### Router

Patterns are sequences of parts, one for each way `translateGinPattern` and
`parsePattern` can take what stands between two slashes; paths are sequences of segments
and the slashes after the last, of which two stand for more (`nextSegment` skips them). A
node of the tree is named by the keys that lead to it, so `tree` is one function and
sharing is visible: two patterns meet in a node exactly if they have the same keys up to it.

| Variables | Code |
|---|---|
| `tree` | `Router.root` and the nodes below it: `name` (`param`), `handlers`, `subtree` |
| `accepted`, `verdict` | what the registrations returned |
| `at`, `path`, `again` | where `ServeHTTP` is; whether it looks the path up again with a slash |
| `cur`, `idx`, `best`, `params` | the locals of `lookup` |
| `answer` | the handler called with its parameters, the `Allow` header, 301, 404 |

`Handle` and `HandleStatic` are one action each, with every error of `insert` and the
nodes it leaves behind; each iteration of `lookup` is one action, named for the branch it
takes (`EndExact`, `EndWild`, `EndNothing`, `ToLiteral`, `ToParam`, `ToWild`, `Stuck`).
Handlers are identified by what they were registered with; a parameter's value is the
range of the path's segments it is cut from. Requests come after the registrations, as
`Start` has it.

Slashes at the end need care. `parsePattern` drops that of a pattern, and `lookup` gives a
path that ends in one to a subtree or a wildcard only; `/` is such a path, of no segments.
`Reads` therefore wants no slash after the path, and `LiteralRoutesAreFound` speaks of paths
without one: a route `/`, or one that ends in a slash, is not found ([Findings](#findings)).

### Requests

Each request is a goroutine that takes a `Context` and a buffer from pools, runs a chain
and is counted. A `sync.Pool` may give back anything put into it, or something new, and
may drop what it holds: `Acquire` and `Match` choose any place that is in the pool or that
nobody uses.

| Variables | Code |
|---|---|
| `at` | where each request is between `injectContext` and its deferred `Release` |
| `ctx`, `buf`, `ctxPool`, `bufPool` | `ctxPool`, `Router.paramBuf` and what was taken from them |
| `context` | the fields of each `Context` that more than one party reads |
| `content` | whose parameters a buffer holds: what `lookup` last wrote into it |
| `target`, `stack`, `panics` | the node and handler found; the Go stack of handlers; unwinding |
| `m`, `table`, `counted`, `scope`, `stat` | `Metrics`, the two `sync.Map`s of `routeGroupStore`, the counters, the locals of `recordRoute` |
| `did` | what the handlers did, for the properties |

The loop of `Next` is three actions (`Call`, `CallFirst` for the handler `buildChain` puts
in front, `LeaveLoop`), because the handler that called it and the one it calls share the
index. A handler may call `Next`, `Abort`, set a status, return, panic, or recover a panic
from further in, as often and in any order it likes. `Load` and `LoadOrStore` of a
`sync.Map` are separate actions. A status is its class. Left out: the buffer that grows
beyond its capacity of eight (append then gives the request an array of its own, which
`ServeHTTP` puts back into the same buffer), a `Router` used without `injectContext`
(each handler then takes a `Context` of its own), durations and snapshots. Left out as
well: outer middleware that refuses a request before metrics see it (413, 429, 503: such a
request is not counted and runs no chain), the application's global middleware between
metrics and the router, which might answer, panic or recover there, and the probes, which
are routes without a handler of `buildChain` in front and behave like a fallback here.

### Assembly

Everything in it runs in one goroutine at a time, so what there is to check is the order
of calls, and memory: `RouteGroup` keeps its middleware in Go slices, so `heap` holds the
arrays and a slice is an array and a length. `append` writes in place if there is room;
how much room a new array has is free (`Spares`), since Go does not say. The loops that
append what passes a test (`Build`, `SetOrder`, `flatten`) are `Picked`, a recursive
function and not `SelectSeq`, so that the proofs can unfold it.

| Variables | Code |
|---|---|
| `builtins`, `overrides`, `disabled`, `order`, `extras` | the fields of `Manager` |
| `mwOrder`, `direct`, `entries` | `Server.mwOrder`, `routes`, `routeGroups` |
| `config` | the switch of each built-in middleware in the configuration |
| `chain` | what `Build` returns |
| `groups`, `routes`, `heap` | the `RouteGroup`s of the callback that runs, their routes, the arrays |
| `toVisit`, `toMount`, `mounted`, `probe` | the recursion of `flatten`; the loops of `Start`; the router |
| `calls`, `registered`, `owed` | what the application asked for, for the properties |

`RoutesKeepTheirMiddleware` takes the side of `route_test.go:52-56`, where a `Use` after a
route must not affect it; the comment at `route.go:77` says the opposite, which is
`UseReachesRegistered`, and does not hold.

`BuildChain` is `registerBuiltinMiddleware`, `SetOrder` and `Build` in one, since nobody
else runs. A callback may use, register and open groups within groups in any order, and may
panic. `Handle` may refuse any route (`MountFails`), and always refuses a method and path
twice. `hasRoute` runs the callbacks again: they are taken to do the same each time.

## Runs

Runs that check liveness use `FairSpec`, the others `Spec`. The runs of `Lifecycle`,
`ConcurrencyLimiter`, `ResponsePath`, `Requests` and `Assembly` set `CHECK_DEADLOCK
FALSE`: a server that has been stopped, requests that have all been answered and a `Start`
that has built its handler or failed rightly have nothing left to do. The rate limiter, the
certificate provider and the router never have nothing to do, and there deadlock is
checked.

| Run | Asks | Expect |
|---|---|---|
| `lifecycle` | a QUIC and a Unix channel, two `Start` calls, one `Stop`, a signal, a setter, a connection, a clean-up goroutine: does a `Stop` that returns find the shutdown complete, does a failed start leave anything behind, is a nil error honest, does readiness turn first, is a stopped server deaf, is the configuration frozen; does every `Stop` return, `Start` return after it, and a signal shut the server down, though handlers may never finish? | pass |
| `lifecycle_early_return` | does `Start` block until the server is shut down, as its comment says? | violation |
| `lifecycle_early_stop` | does a `Stop` stop a running server when another one came too early? | violation |
| `limiter` | four requests, two slots: exact counters, limit never exceeded; is it a semaphore, does everyone get an answer? | pass |
| `response` | every combination of the five middleware, every kind of handler: does the client get what was written, whole, in the encoding and of the length the headers name, unless gzip compresses a file; do the records agree with what went through the `Context`, and is each request counted once; does nothing pass after the deadline; is the 503 of a late answer alone in its response; is a panic answered where no writer is left behind? | pass |
| `response_panic` | is every panic answered with a readable 500, under timeout and under gzip too? | violation |
| `rate_limiter` | three keys, room for two, a hasty clean-up: is each key limited as by a bucket of its own, filled early only when it has not asked for long, refused otherwise only when it asks for nothing it is owed, and let in in the end if it keeps asking? | pass |
| `certificates` | two handshakes, an operator who renews, replaces or removes the files one at a time: is anyone served what was already replaced, does anyone fail without a reason, does the cache go back, is everyone answered? | pass |
| `router` | three registrations, any path, any method: does the handler that runs belong to a pattern that reads the path, and does it get that pattern's parameters; is a literal route found by every path without a slash at its end, and a static prefix by every path below it; does a refused registration leave a trace? | pass |
| `requests` | two requests on shared pools and counters, handlers that do as they like: does either see anything of the other, does every handler run once and in order, do all counters but those of protocols add up at every moment? | pass |
| `assembly` | three setter calls in any order, any switches, route groups: is the chain what the last calls ask for, does each route keep its own middleware, does a serving server have every route? | pass |
| `assembly_use` | does `Use` reach the routes that are already registered, as its comment says? | violation |

**Bounds.** `lifecycle` has two channels, the two that differ from each other most: QUIC,
where a connection may be handed over late, and the Unix socket with its file; with them the
second channel can fail after the first was opened. TCP goes through the same steps as the
Unix channel but for the file. The violation runs have the smallest set that shows the case.
One connection is enough for every lifecycle property: each speaks of one connection at a
time, and `InFlight` distinguishes only "none" from "some"; `on` is chosen freely, so the
connection may be on any channel. A `Stop` caller and the watcher are two competitors for
`shutdownOnce`. `MaxConfig` allows one setter call before, between or after the `Start`
calls. The proofs remove all of these bounds for the safety properties. In the limiter, four
requests for two slots allow a holder, two that swap for the last slot and one more that
is refused in between. In the response path, all 32 subsets of the middleware are initial
states; three writes with `MinSize = 2` give answers below the threshold, at it and above
it, and a write, a flush and the deadline on either side of the start of the compressor.
`OpSets` are a handler that does anything and one that is orderly (`Orderly`: it sends a
status before it writes and does not flush), of which alone the 503 of
`TimeoutAnswersAlone` is said to be alone. The violation run uses the smallest sets of
middleware that show the case. In the rate limiter three keys for two places let the table
be full with a third at the door, a capacity of two tokens distinguishes full, partly used
and empty, and with `Full = 4` instants of filling, `Expiry = 1` lets a bucket be forgotten
at every level but the empty one; `Wrap = 2` makes the counter wrap. `certificates` has three
versions of each file: the first, a renewal for the same key, and a change of both; with
two handshakes one can be inside while the other waits with what it saw on arrival.

`router` takes three registrations out of fourteen patterns and three prefixes: three are
what it takes for two routes to meet in a node that a third one has made. The patterns have
up to three parts and every kind of part; the paths have up to three segments, one more
than a pattern needs to be passed, with no, one or more slashes after them. `requests` has
two requests, since each of its properties speaks of one request or of a pair; two
contexts and two buffers let one be reused while the other is in use; a chain of three has
a handler before and after each place where `Next` can be called, and `MaxIndex = 4` lets
the index run past its end. The only status set is 5 (an error), the one that has a counter
of its own; without it a request counts as 2. In `assembly` three calls allow one about a
middleware, one that takes it back and one that takes that back; the three standard keys
are treated alike by the code, as are the other eight. Three operations of a callback are
what two slices need to meet in one array. `View` leaves out of a state what no later step
reads.

**Fairness.** The Go scheduler eventually runs each runnable goroutine, hence weak
fairness on the steps of each entered `Start`, of each Serve goroutine, of the watcher,
of each caller of `shutdownOnce.Do` and of `shutdownAll`. Timers expire, so
`DrainExpires` is among the fair steps. Nothing is assumed of the environment: no handler
need finish, no client connect, nobody call `Stop`, no signal come. In the limiter every
step but the end of a handler is fair, per request. In the rate limiter time passes
(`Tick`) and the clean-up goroutine runs (`Cleanup`, which `EnableRateLimit` starts on a
ticker); that a key asks is a premise of `ServedInTheEnd`, not an assumption. In the
certificate provider the steps of a handshake are weakly fair; `Lock` is strongly fair,
since `sync.Mutex` hands itself to a waiter that has starved for a millisecond. The
operator need do nothing.

## Mutants

Each property of each passing run is shown to be able to fail: `PROJECT.json` names, for
every one, an action (`of`) and a variant of it with one plausible bug (`as`). The
variants stand above what they replace, under the heading of a plausible bug, and no
specification uses them. With the variant in the place of the action TLC finds the
property violated. Examples: `EnterOnceNoWait` (an atomic flag instead of `sync.Once`: the
second `Stop` returns during the first one's shutdown), `SnapshotMixesServers`,
`DrainExpiresNoError` (a forced close reported as a clean shutdown),
`StoreInsteadOfCAS`, `ReleaseNotDeferred`, `BestAtEnd` (the subtree to fall back on is
forgotten where the path goes on), `StoreAnyway` (`Store` for `LoadOrStore`),
`RouteMiddlewareShared` (`append` to the slice of the group itself).

## Proofs

`tlapm M.tla` checks every obligation of the eight `*_proofs` modules.

**Assumptions** are those the modules declare: the channels are a non-empty subset of the
three kinds, the watcher is none of the `Stop` callers, the set of requests is finite (it
is counted), the limit is any integer, a handler writes at most 499 times (so that its
writes are told apart from the bodies 500 and 503 of the middleware), rate, capacities and
bounds are positive, `KeyFor` gives each version of the certificate a version of the key
and the first ones match (`Start` checks them), a target is what the router can find (a
route has the handler `Start` puts in front and one more, a fallback is one handler), no
segment of a path is empty or is called like one of the two keys that are not literals, no
parameter is nameless (`validParamName` sees to it for `:n` and `*n`; a bare `{}` is left
out), a static prefix has no `:n` or `*n`, since `HandleStatic` does not translate, the
rate limiter is one of the built-in middleware and the default order holds none of them
twice (`NewManager`). There is no bound on callers, connections, requests, keys,
handshakes, clean-up goroutines, configuration calls, contexts in the pool, handlers in a
chain, routes, route groups, or the length of patterns and paths.

**The limiter.** `IInv` says that `active` is the number of holders when there is a limit,
and that a request about to swap has read a value below `Max`. The second part is what
makes `NeverOverLimit` inductive: a swap that succeeds has read the *current* value, which
its load found below the limit. `Refinement` maps each step to a step of `Semaphore` or a
stutter; the work is in showing that a load that finds `active >= Max` is a legal refusal
*at that load*, not at the later answer.

**The lifecycle.** Type correctness comes first. `StopIsComplete` needs the largest
strengthening, because what `shutdownAll` has already done is recorded only in its
program counter while `Start` may still be opening channels:

- `StartInv`: exactly one `Start` got past the `started` test; `left` shrinks with it.
- `RegInv`: what the snapshot holds of servers is registered and was registered with its
  listener, since each listener is added before its server.
- `CutInv`, `OpenInv`, `CleanInv`: what each phase of `shutdownAll` has closed stays
  closed — a listener never goes back from `closed` to `open`, because a channel leaves
  `left` when it is registered and only a channel in `left` is opened.
- `OnceInv`: `once = "running"` exactly while one closer runs and `phase # "none"`.
- `ShutInv`, `DeafInv`: a server that is `down` has no accepting Serve goroutine on an open
  listener, whichever of `Shutdown` and `Serve` came first.
- `ReadyInv`, `ConfigInv`: the flag is stored before any phase that closes; `inUse` is the
  version at the time of the `started` test and no setter runs after it.

Each invariant has a frame lemma (`…Frame`) naming the actions that can touch its
variables, then one step per such action.

**The response path.** `InnerIsNext` and `OuterIsNext` say that the frame entered or left
next is the nearest installed one, whatever the set of middleware. `DeafAfterDeadline` is
about bytes, but what makes it true is where writers point, so `DeafInv` follows the
timeout middleware through the request: *before* it is entered the only writer is the
server's; while it is *inside*, the writer in the `Context` and the target of every pending
call are `Guarded`, that is, every chain of `orig` from them ends at the `timeoutWriter`
(the only calls that go past it are flushes, which carry no data); *after* it has
returned, only its own 503 is pending. A panic keeps a request *inside* to its end, for the
writer is not restored; an installed wrapper has saved a guarded writer because it was
entered after the timeout (`Past`). Each group of actions has its lemma: the handler, the
writers, the way in, the way out.

The four invariants about answers each need an account of where every byte is between two
steps, since a body is right or wrong only when the last writer has passed it on.

- `GoodInv`, for `AnswerIsWhatWasWritten`, speaks of requests that no panic or deadline has
  met. `Wired` says which writer the `Context` holds and which one lies below each
  (`Below`), and `Shape` that at most a header and one other call are under way, none to a
  writer that is not installed. `Content` is the heart, either `Misfit`, a file that is being
  compressed under its own length, or `Gathered`: the bodies sent, held in `buf` or
  `pending` and in flight, put together in that order, are what was `written`, plain or
  compressed as the place demands, and once `Close` has been called what is sent and in
  flight is compressed to the end (`Sealed`). That holds only with `Fields` (what the flags
  of the `gzipWriter` say of each other), `Choice` (as long as it may still compress, no byte
  has passed it, and `Content-Encoding` agrees with what it started), `Status` (the header
  is sent, or it is on its way with the status `Asked` for) and `InTime`. `Sized` (a
  Content-Length is that of the only write there is) shows that net/http refuses nothing
  that is not `Misfit`. `Recorded`,
  what metrics and the access log noted, is part of it for the sake of `RecordsAreHonest`.
- `CountInv`, for the half of `RecordsAreHonest` that holds of every request: metrics have
  counted it not at all, once and in flight, or once and out of flight, according to where
  the request is (`Past`), in exactly one class, and as a 500 if it panicked.
- `PanicInv`, for `PanicAnswered`: with neither timeout nor gzip the only writers are the
  server's and the access log's, nothing is sent before the handler has answered, and the
  500 of recovery is header, body or both on the way to the server (`Progress`).
- `AloneInv`, for `TimeoutAnswersAlone`: until the timeout has returned, no 503 is anywhere
  (`Clean`) and nothing was sent unless the `timeoutWriter` let a header through; after it
  has returned (`Left`), either it was `TooLate` for the handler and the 503 is under way
  alone, or nothing is under way any more and the body has no part of it. `Over => Expired`
  ties that to the deadline, whose end is what `DeafInv` knows. Whether the client can read
  the 503 depends on the headers alone that the replaced answer has left.

Token sequences are compared by `Ids` (which writes) and `All` (in which form); the lemmas
that these distribute over concatenation are what all four proofs are made of.

**The rate limiter.** `Refinement` holds for every rate, table size and clean-up interval
and needs `TypeOK` only: each action of the table is one of the abstract buckets, and a
`Cleanup` forgets the keys it removes (`Forget`), all of which have been idle for longer
than `Expiry`. `DebtsAreKept` says when that is harmless: the tokens of a bucket are at
least the instants since it was last used, or it is full (`Refilled`), so what is removed is
full if `Expiry + 1 >= Full`. Filling takes a second and the clean-up waits ten of its
intervals, five minutes each by default; the premise fails for a `CleanupInterval` below
100 ms, which the code accepts.

**The certificate provider.** Everything follows from an order: the modification times are
read before the files. `CacheInv` says that what is cached is *not older* than the times it
is filed under; it may be newer, and is then loaded again by the next handshake, which is
the safe direction. `KnowsCert`, `KnowsKey` and `HasCert` carry the same order through the
local variables of `getCertificate`, `SinceInv` relates what was on disk when a handshake
began to what is there now. The cache does not go back because only the holder of the
mutex loads (`Mutex`, part of `TypeOK`) and what it has loaded is no older than what was
cached (`HasCert`). A steady handshake, one whose files nobody touched, finds the pair it
saw at the beginning, which is why it cannot fail (`FailsForAReason`).

**The requests.** `IInv` has a part about sharing, `Apart` (two requests never hold the same
`Context` or buffer, and nobody holds what is in a pool), and a part about each request by
itself, `About`, which only the request's own steps can disturb: `OthersKeep` shows that
from `Apart`, so that each action has to be looked at for one request only. `Fresh` follows
the `Context` from `Reset` to `wrapRequestHandler`, `Labelled` through the chain. The
difficult one is `Ordered`. All the loops of `Next` share one index, and a handler that
returns or calls `Next` moves it on, so the index may pass the end of the chain; what does
not change is `Reached`: as long as nobody has aborted, the number of handlers that have
started is the index, or the size of the chain if that is less (inside a handler, the index
and one). `Return` and `Next_` are the same step for it (`IndexMoves`), and a handler that
recovers the panic of another moves neither number (`StayInHandler`). The bound `MaxIndex`
plays no part.

The counters have an invariant of their own, `CInv`, on top of `IInv`. `Agrees` says that
the `Context` still holds the status the handlers set and the names the router found when
`MetricsHandler` reads them, so that the class counted is the request's own `Outcome`, and
the key used is its own name. `Totals` then changes by one element at each of `CountIn` and
`CountOut`, and nowhere else (`TotalsFrame`). For the tables, `Exact` (each counter is the
number of requests recorded under its name) is not inductive by itself: when `LoadOrStore`
files new counters they must be zero (`Unused`) and nobody may have been recorded under the
name before (`Entered`), and when `Add` counts it must not touch another name's counters,
which needs `Owned`: counters filed under a name were made by a request of that name, in
that scope, so no two names of a scope share any.

**The router.** `IInv` has a part about the tree, which only registrations change, one
about the walk of a request, and one about literal routes.

- `TreeInv` says that the tree holds every way to each of its nodes, that a handler stands
  at the place of its pattern (`Settled`) and that the nodes on the way bear the names its
  pattern gives them: `insert` stops at the first node of another name, and a name is
  never changed. That is why the walk can collect the parameters of whichever handler it
  will end at before it knows it. `Subtrees` (a subtree has a handler for GET) is what
  `RefusalIsClean` needs: `HandleStatic` finds GET taken before it comes to HEAD, so if GET
  went in, HEAD does too; and a conflict in `insert` means that the node, and so the whole
  way to it, was there before.
- `WalkInv`: the keys of `cur` fit the path as far as the walk has come, `params` are the
  parameters of the way to it in its order (`Collected`), and `best` reads the path.
  `ServedByItsPattern` follows at the node where the walk ends.
- `LiteralInv`: whenever the tree has a node that the path leads to literal by literal, the
  walk is still on the way to it, for `ToLiteral` is tried first; if that node is a subtree
  the walk may leave the way below it, but `best` is kept.

`LastOf`, the last parameter of a name, is the maximum of a finite set of positions; that
it exists is proved by a least counterexample (`WFMin` on the naturals), since the
induction rules of the library are out of reach.

**The assembly.** `Inv` has five parts, and each action touches few of them (`SetterLeaves`,
`StartingLeaves` and the like say which).

- `ManagerOK` and `MountOK` are types; what is on its way to the router is a `KeptRoute`,
  one whose middleware is what it is owed.
- `GroupsOK` says why that is so while slices may share memory: every slice of a group or
  route holds what is owed (`Held`), and the array of a *group's* slice belongs to nobody
  else (`Alone`). Routes need no array of their own, because nobody appends to a route;
  groups do, because `Use` may write in place. `Use` stays within the array of its group
  (`AppendedSlice`: what append `Spared`), and what `register` and `Group` start from is a
  copy in a new array, or no array at all (`CopiedSlice`); this is where
  `RouteMiddlewareShared` breaks the proof.
- `RoutesAccounted` follows each route of the application from `direct` or the callback's
  `routes` through `toMount` to the router. While `flatten` runs, there is a set of groups
  it has come to, such that the groups right below one of these are in it or wait; when
  nothing waits the set holds every group (`AllVisited`, by the least group that it lacks,
  whose parent is an earlier one).
- `CallsOK` says what the fields of the manager have to do with the calls so far
  (`ConfiguringOK`): `overrides`, `extras`, `mwOrder` and, key by key, `disabled` are what
  the last calls made of them, and a rate limiter that is not disabled is installed. It is
  kept call by call, through what `Picked` makes of an `Append` (`PickedAppend`); `Build`
  then picks the keys that were asked for (`RunsIfAsked`, `OrderIsAsked`).

What `Picked` returns is again proved by least counterexamples (`PicksExist`,
`PicksAgree`, `PickedRange`).

| Theorem | Property |
|---|---|
| `Lifecycle_proofs!TypeCorrect` | `TypeOK` |
| `StopCompletes` | `StopIsComplete` |
| `StartCleansUp` | `StartLeavesNothingOpen` |
| `ConfigIsFrozen` | `ConfigFrozen` |
| `NilErrorIsHonest` | `NilErrorMeansDrained` |
| `ReadinessTurnsFirst` | `ReadinessFirst` |
| `DeafAfterShutdown` | `NoAcceptAfterShutdown` |
| `ConcurrencyLimiter_proofs!TypeCorrect` | `TypeOK` |
| `LimitHolds` | `NeverOverLimit` |
| `CountersAreExact` | `CountersExact` |
| `Refinement` | `IsSemaphore` |
| `ResponsePath_proofs!TypeCorrect` | `TypeOK` |
| `DeafToLateWrites` | `DeafAfterDeadline` |
| `AnswersAreWhole` | `AnswerIsWhatWasWritten` |
| `RecordsAreTrue` | `RecordsAreHonest` |
| `PanicsAreAnswered` | `PanicAnswered` |
| `TimeoutIsAlone` | `TimeoutAnswersAlone` |
| `RateLimiter_proofs!TypeCorrect` | `TypeOK` |
| `Refinement` | `IsTokenBucket` |
| `DebtsAreKept` | (buckets that are forgotten are full, if the clean-up is patient) |
| `CertificateProvider_proofs!TypeCorrect` | `TypeOK` |
| `ServesFresh` | `NeverStale` |
| `FailuresAreFounded` | `FailsForAReason` |
| `CacheNeverBack` | `NeverBack` |
| `Requests_proofs!TypeCorrect` | `TypeOK` |
| `ScopesStayApart` | `ScopesAreApart` |
| `ChainRunsInOrder` | `ChainInOrder` |
| `CountsAreExact` | `CountsAddUp` |
| `Router_proofs!TypeCorrect` | `TypeOK` |
| `ServedAsRegistered` | `ServedByItsPattern` |
| `LiteralsAreFound` | `LiteralRoutesAreFound` |
| `RefusalLeavesNoTrace` | `RefusalIsClean` |
| `Assembly_proofs!TypeCorrect` | `TypeOK` |
| `ChainsAreAsked` | `ChainIsAsked` |
| `RoutesKeep` | `RoutesKeepTheirMiddleware` |

**Only model-checked:** all liveness (`StopReturns`, `StartReturnsAfterStop`,
`SignalShutsDown`, `ServedInTheEnd`, both `Answered`): leads-to under fairness needs
`ENABLED`, which the prover does not reason about. Every other property of a passing run
is a theorem.

## Findings

1. `Start` returns as soon as `Shutdown` has closed its listeners, while `shutdownAll` is
   still draining requests (`server.go:741`), against its comment (`server.go:515`). An
   application whose `main` ends with `Start` cuts them. Run `lifecycle_early_return`.
2. A `Stop` before or during `Start` uses up `shutdownOnce` on what is registered by then;
   the server comes up and nothing can stop it (`server.go:789`). Run
   `lifecycle_early_stop`.
3. A panic under the timeout middleware is answered with an empty 200: the deferred cancel
   (`middleware/timeout.go:74`) runs before recovery writes its 500 through the
   `timeoutWriter` that the `Context` still holds. Under gzip the compressed 500 never
   ends, because `Close` (`middleware/gzip.go:75`) is not deferred. Run `response_panic`;
   give its `LayerSets` one of the two sets to see either case.
4. The comment of `RouteGroup.Use` says that it affects routes that are already registered
   (`route.go:77`); it does not (`route.go:72`), and `route_test.go:55` wants it so. Run
   `assembly_use`.

No run is spent on the following ones; the property that comes closest says in its comment
that it leaves the case out, and how.

5. Under gzip a file is sent compressed under its own Content-Length, for `gzipWriter` sets
   the encoding and leaves the length (`middleware/gzip.go:113`): the body is cut off, or
   ends too soon (`AnswerIsWhatWasWritten`).
6. The 503 of the timeout middleware is written in plain (`middleware/timeout.go:87`) under
   the headers of the answer it replaces: `Content-Encoding: gzip` makes it unreadable, the
   Content-Length of a file makes net/http refuse what is beyond it (`TimeoutAnswersAlone`).
7. Metrics run inside the timeout middleware and count the class of an answer that is then
   replaced by a 503 (`middleware/metrics.go:121`); the access log does the same
   (`middleware/accesslog.go:71`). `RecordsAreHonest`.
8. The router's 301, its automatic 204 to OPTIONS and static files do not go through the
   `Context`, so that metrics and access log take them for 200
   (`internal/core/context.go:300`). `RecordsAreHonest`.
9. A route `/` is never found: a request for `/` is answered with 404 (`router.go:212`),
   although `examples/order/main.go:40` registers one. In the same way a route `/a/` is
   found as `/a` and not as `/a/` (`LiteralRoutesAreFound`).
10. The counters of protocols leave out requests that panicked (`middleware/metrics.go:122`),
    against `middleware/metrics.go:58` and `:105` (`CountsAddUp`).
11. `Cleanup` waits ten clean-up intervals and not, as its comment says
    (`middleware/ratelimit.go:160`), ten windows; nothing reads `window`. A
    `CleanupInterval` below 100 ms, which `EnableRateLimit` accepts (`server.go:421`),
    forgets buckets that are still in debt (`DebtsAreKept`).

Smaller things met while modelling.

*Lifecycle, limiter, certificates.* The nil-logger refusal in `Start` returns before the
clean-up is deferred (`server.go:525`), so the goroutine of `EnableRateLimit` runs on
(`StartLeavesNothingOpen` leaves that case out). A limiter without a limit counts only
releases (`middleware/concurrencylimit.go:44`), so `Active` goes negative. A refusal of the
rate limiter for want of room is not reported
to the metrics sink (`middleware/ratelimit.go:113`), though `docs/metrics-external.md:43`
counts refusals. A handshake that meets a rotation half-way fails although the provider
still holds a good pair (`listener.go:48`); a file put back with its old modification time
is taken for the one that is cached, which is why `CertificateProvider` assumes that files
get newer.

*Response path.* A handler that notices its deadline and returns without writing is answered
with 200, since only a late write sets `timedOut` (`middleware/timeout.go:85`); a stream
begun by a bare write gets the 503 body appended, and a late Flush, which passes
`timeoutWriter` by, can commit a 200 (why `Orderly` excludes both). `gzipWriter.Flush` does
not flush the writer below it (`middleware/gzip.go:206`).

*Router.* A pattern in braces whose wildcard is not last, `/{p...}/b`, is registered as
`/`: `Handle` drops the error of `parsePattern` with a comment that it cannot happen
(`router.go:74`). `/{id}` matches as a parameter but its handler gets none, since only
`:id` is recorded (`router.go:320`); `:id` inside a segment makes the segment a literal.
The walk does not back out of a branch, so a path that a pattern reads may still be
answered with 404 (routes `/a/c` and `/:x/b`, path `/a/b`); `ServedByItsPattern` and
`LiteralRoutesAreFound` say what holds in spite of that. A static prefix that is also the
path of a probe makes `Start` fail, against `docs/architecture.md:95`.

*Requests.* The parameter buffer goes back to its pool when the router returns
(`router.go:159`), and the `Context` keeps pointing to it: an outer middleware that calls
`Param` after the handler may read another request's value.

*Assembly.* `SetOrder` keeps a key that is given twice, and
drops those that are not given (`middleware/manager.go:118`), so that a middleware can be
installed twice or not at all. `EnableMiddleware` does not outlast a switch that is off in
the configuration, since `Start` disables it again (`server.go:879`). An override of the
rate limiter is ignored unless `EnableRateLimit` was called. `hasRoute` ignores the method:
an application's `POST /health` suppresses the probe (`server.go:853`), and it calls the
callbacks of the groups once more for each probe (`server.go:849`).

*Proxy, read but not modelled.* `timeoutRoundTripper` cancels its context when the round
trip returns (`proxy/proxy.go:109`), which is before the body has been copied: a body that
has not arrived with the headers is cut off.

## Not modelled

- *Header-only middleware, forms, configuration, pprof, error codes, aliases, platform
  files*: each looks at one request or one value, keeps no state and has no order to get
  wrong; unit tests reach them.
- *Static files, single-page applications*: checks of one request in front of
  `http.FileServer`; the subtree routes they are served under are in `Router`.
- *Reverse proxy*: `net/http/httputil` does the work; what a cancelled context does to a
  body is a matter of net/http alone.
- *Metrics snapshots and the connection gauge* (`metrics.go`): readings of one counter
  after the other. They are not consistent with each other and do not claim to be.
- *Standalone `GracefulShutdown`*: waits for a signal or a context and calls the
  `shutdownServers` that `Lifecycle` models.
- *Health probes*: the value of `shuttingDown` over time is in `Lifecycle`, their mounting
  in `Assembly`; what a check of the application says is the application's.
- Of modelled parts: `RateLimiter.RetryAfter`, which reads; the accessors of `Context`;
  durations and the external metrics sink; the buffer of more than eight parameters.

## Plan

Every safety property that a run checks is proved. What could follow: the numbers of the
metrics snapshots if they come to promise consistency, the body of a proxied answer (above)
if the proxy comes to own its transport.
