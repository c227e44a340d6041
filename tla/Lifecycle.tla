----------------------------- MODULE Lifecycle -----------------------------
(***************************************************************************)
(* The life of one webx Server (server.go, graceful.go, listener.go): the  *)
(* goroutines that call Start, the ones that call Stop, the goroutine that *)
(* waits for SIGINT/SIGTERM, one Serve goroutine per enabled channel, the  *)
(* connections they serve, and the clean-up goroutines EnableRateLimit     *)
(* leaves behind.                                                          *)
(*                                                                         *)
(* One action is one step between two points at which another goroutine    *)
(* can observe the Server: a critical section of mu or listenersMu, the    *)
(* opening or closing of a listener, the entry of shutdownOnce, one        *)
(* http.Server.Shutdown call.  Addresses, TLS and routes are abstracted;   *)
(* that any of their checks may fail is kept (PrepareFails, ListenFails).  *)
(***************************************************************************)
EXTENDS Naturals, FiniteSets

CONSTANTS
    Channels,   \* the channels enabled by the Use*Listen calls
    Starters,   \* goroutines that call Start
    Stoppers,   \* goroutines that call Stop
    Conns,      \* connections clients may open
    Limiters,   \* the EnableRateLimit calls the application may make
    Loggers,    \* FALSE in it: the application may pass a nil logger
    AcceptFails, \* may Accept fail for good while its listener is open?
    MaxConfig   \* bound on the number of configuration calls

ChannelKinds == {"http", "http3", "unix"}

\* The goroutine of waitSignal; it competes with the Stop callers.
Watcher == "watcher"
Closers == Stoppers \cup {Watcher}

ASSUME ChannelsAssumption == Channels \subseteq ChannelKinds /\ Channels # {}
ASSUME ClosersAssumption == Watcher \notin Stoppers
ASSUME LoggersAssumption == Loggers \subseteq BOOLEAN /\ Loggers # {}
ASSUME AcceptFailsAssumption == AcceptFails \in BOOLEAN
ASSUME MaxConfigAssumption == MaxConfig \in Nat

VARIABLES
    started,       \* Server.started, under mu
    config,        \* version of everything the setters change
    logger,        \* is Server.logger set?
    inUse,         \* version Start assembled the handler from; 0 before that
    starter,       \* where each Start call is
    left,          \* channels the running Start has still to open
    listener,      \* the OS listener of each channel
    listeners,     \* Server.listeners and quicListeners, under listenersMu
    servers,       \* Server.httpServers and http3Servers, under listenersMu
    serving,       \* the Serve goroutine of each channel (and its wg count)
    down,          \* has Shutdown or Close been called on the channel's server?
    socket,        \* the file of the Unix socket
    conn,          \* each connection
    on,            \* the channel each connection came in on
    cleaner,       \* the clean-up goroutine of each EnableRateLimit call
    cleanupFuncs,  \* Server.cleanupFuncs
    signalCtx,     \* Server.signalCtx / signalCancel
    signalled,     \* is a signal waiting in the quit channel?
    closer,        \* where each Stop caller and the watcher is
    once,          \* Server.shutdownOnce
    shuttingDown,  \* Server.shuttingDown, read by the readiness probe
    phase,         \* the program counter inside shutdownAll
    snapListeners, \* locals of shutdownAll: what it found registered ...
    snapServers,
    snapCleanups,
    todo,          \* ... the http.Servers it has still to shut down
    failed         \* ... and whether it has collected an error

configVars == <<config, logger, inUse, cleaner, cleanupFuncs>>
startVars  == <<started, starter, left>>
netVars    == <<listener, serving, down, socket, conn, on>>
regVars    == <<listeners, servers>>
signalVars == <<signalCtx, signalled>>
stopVars   == <<closer, once, shuttingDown, phase, snapListeners, snapServers,
                snapCleanups, todo, failed>>
vars == <<configVars, startVars, netVars, regVars, signalVars, stopVars>>

-----------------------------------------------------------------------------
\* The order in which Start opens the channels and shutdownServers visits them.
Rank == [http |-> 1, http3 |-> 2, unix |-> 3]
First(S) == CHOOSE ch \in S : \A other \in S : Rank[ch] <= Rank[other]

InFlight(ch) == {c \in Conns : conn[c] = "active" /\ on[c] = ch}

\* Closing the server of a channel by force ends the connections it serves.
Cut(S) == [c \in Conns |-> IF conn[c] = "active" /\ on[c] \in S THEN "cut"
                           ELSE conn[c]]

\* Closing the listeners in S; closing the Unix one unlinks its file.
CloseAll(S) ==
    /\ listener' = [ch \in Channels |->
                       IF ch \in S /\ listener[ch] = "open" THEN "closed"
                       ELSE listener[ch]]
    /\ socket' = IF "unix" \in S /\ "unix" \in Channels
                    /\ listener["unix"] = "open"
                 THEN "absent" ELSE socket

\* Running the cleanup functions of the EnableRateLimit calls in S.
CancelAll(S) == cleaner' = [l \in Limiters |->
                               IF l \in S THEN "cancelled" ELSE cleaner[l]]

Init ==
    /\ started = FALSE /\ config = 1 /\ logger \in Loggers /\ inUse = 0
    /\ starter = [t \in Starters |-> "idle"]
    /\ left = Channels
    /\ listener = [ch \in Channels |-> "none"]
    /\ listeners = {} /\ servers = {}
    /\ serving = [ch \in Channels |-> "none"]
    /\ down = [ch \in Channels |-> FALSE]
    /\ socket \in {"absent", "stale"}  \* a crashed run may have left its file
    /\ conn = [c \in Conns |-> "none"]
    /\ on \in [Conns -> Channels]      \* the channel a client will dial
    /\ cleaner = [l \in Limiters |-> "none"]
    /\ cleanupFuncs = {}
    /\ signalCtx = "nil" /\ signalled = FALSE
    /\ closer = [p \in Closers |-> "idle"]
    /\ once = "fresh" /\ shuttingDown = FALSE /\ phase = "none"
    /\ snapListeners = {} /\ snapServers = {} /\ snapCleanups = {}
    /\ todo = {} /\ failed = FALSE

-----------------------------------------------------------------------------
(* Plausible bugs.  Each operator of this section is an action below with   *)
(* one mistake in it; no specification uses them.  Putting one in the place *)
(* of its action must break a property (README, Mutants).                   *)

locals == <<snapListeners, snapServers, snapCleanups, todo, failed>>

\* A setter that does not look at started.
ConfigureAnyTime ==
    /\ config < MaxConfig
    /\ config' = config + 1
    /\ logger' \in Loggers
    /\ UNCHANGED <<inUse, cleaner, cleanupFuncs, startVars, netVars, regVars,
                   signalVars, stopVars>>

\* A failing channel that returns without closeListeners.
ListenFailsNoRollback(t) ==
    /\ starter[t] = "opening" /\ left # {}
    /\ starter' = [starter EXCEPT ![t] = "cleaning"]
    /\ UNCHANGED <<started, left, netVars, configVars, regVars, signalVars,
                   stopVars>>

\* A signal that ends waitSignal without requestShutdown.
WatcherForgetsShutdown ==
    /\ closer[Watcher] = "watching" /\ (signalled \/ signalCtx = "cancelled")
    /\ signalled' = FALSE
    /\ closer' = [closer EXCEPT ![Watcher] = "done"]
    /\ UNCHANGED <<signalCtx, once, shuttingDown, phase, locals, configVars,
                   startVars, netVars, regVars>>

\* A compare-and-swap flag in the place of sync.Once: losers do not wait.
EnterOnceNoWait(p) ==
    /\ closer[p] = "calling"
    /\ \/ /\ once = "fresh"
          /\ once' = "running"
          /\ phase' = "flag"
          /\ closer' = [closer EXCEPT ![p] = "running"]
       \/ /\ once # "fresh"
          /\ closer' = [closer EXCEPT ![p] = "done"]
          /\ UNCHANGED <<once, phase>>
    /\ UNCHANGED <<shuttingDown, locals, configVars, startVars, netVars,
                   regVars, signalVars>>

\* The shuttingDown flag is never stored.
ShuttingDownForgotten ==
    /\ phase = "flag"
    /\ phase' = "cancel"
    /\ UNCHANGED <<closer, once, shuttingDown, locals, configVars, startVars,
                   netVars, regVars, signalVars>>

\* HTTP/3 servers in the list that is shut down as http.Servers.
SnapshotMixesServers ==
    /\ phase = "snapshot"
    /\ snapListeners' = listeners /\ snapServers' = servers
    /\ todo' = servers
    /\ phase' = "collect"
    /\ UNCHANGED <<snapCleanups, failed, closer, once, shuttingDown, configVars,
                   startVars, netVars, regVars, signalVars>>

\* Waiting for the connections before the listener is closed.
ShutdownServerKeepsListener ==
    /\ phase = "servers" /\ todo # {}
    /\ LET ch == First(todo) IN
       /\ down' = [down EXCEPT ![ch] = TRUE]
       /\ IF InFlight(ch) = {}
          THEN todo' = todo \ {ch} /\ UNCHANGED phase
          ELSE phase' = "drain" /\ UNCHANGED todo
    /\ UNCHANGED <<listener, socket, serving, conn, on, snapListeners,
                   snapServers, snapCleanups, failed, closer, once,
                   shuttingDown, configVars, startVars, regVars, signalVars>>

\* The error of Shutdown is dropped.
DrainExpiresNoError ==
    /\ phase = "drain"
    /\ conn' = Cut({First(todo)})
    /\ todo' = todo \ {First(todo)}
    /\ phase' = "servers"
    /\ UNCHANGED <<listener, serving, down, socket, on, snapListeners, failed,
                   snapServers, snapCleanups, closer, once, shuttingDown,
                   configVars, startVars, regVars, signalVars>>

\* Shutdown with a context that has no deadline.
DrainNeverExpires ==
    /\ phase = "drain" /\ InFlight(First(todo)) = {}
    /\ todo' = todo \ {First(todo)}
    /\ phase' = "servers"
    /\ UNCHANGED <<snapListeners, snapServers, snapCleanups, failed, closer,
                   once, shuttingDown, configVars, startVars, netVars, regVars,
                   signalVars>>

\* The QUIC listeners are forgotten.
CloseQUICForgotten ==
    /\ phase = "quic"
    /\ phase' = "sleep"
    /\ UNCHANGED <<netVars, locals, closer, once, shuttingDown, configVars,
                   startVars, regVars, signalVars>>

-----------------------------------------------------------------------------
(* Configuration calls.  Each holds mu and does nothing once started.      *)

Configure ==
    /\ ~started /\ config < MaxConfig
    /\ config' = config + 1
    /\ logger' \in Loggers
    /\ UNCHANGED <<inUse, cleaner, cleanupFuncs, startVars, netVars, regVars,
                   signalVars, stopVars>>

EnableRateLimit(l) ==
    /\ ~started /\ config < MaxConfig
    /\ cleaner[l] = "none"
    /\ config' = config + 1
    /\ cleaner' = [cleaner EXCEPT ![l] = "running"]
    /\ cleanupFuncs' = cleanupFuncs \cup {l}
    /\ UNCHANGED <<logger, inUse, startVars, netVars, regVars, signalVars,
                   stopVars>>

-----------------------------------------------------------------------------
(* Start.                                                                  *)

\* The critical section at the top of Start.
EnterStart(t) ==
    /\ starter[t] = "idle"
    /\ started' = TRUE
    /\ starter' = [starter EXCEPT ![t] =
                       IF started THEN "refused" ELSE "entered"]
    /\ UNCHANGED <<left, configVars, netVars, regVars, signalVars, stopVars>>

\* A nil logger is refused before the clean-up of failed starts is deferred.
RefuseNilLogger(t) ==
    /\ starter[t] = "entered" /\ ~logger
    /\ starter' = [starter EXCEPT ![t] = "failed"]
    /\ UNCHANGED <<started, left, configVars, netVars, regVars, signalVars,
                   stopVars>>

\* Validation, middleware chain, router: everything before the first listener.
Prepare(t) ==
    /\ starter[t] = "entered" /\ logger
    /\ starter' = [starter EXCEPT ![t] = "opening"]
    /\ inUse' = config
    /\ signalCtx' = "live"
    /\ UNCHANGED <<config, logger, cleaner, cleanupFuncs, started, left,
                   netVars, regVars, signalled, stopVars>>

\* One of those checks fails, before or after signalCtx is created.
PrepareFails(t) ==
    /\ starter[t] = "entered" /\ logger
    /\ starter' = [starter EXCEPT ![t] = "cleaning"]
    /\ signalCtx' \in {signalCtx, "live"}
    /\ UNCHANGED <<started, left, configVars, netVars, regVars, signalled,
                   stopVars>>

\* create*Listener succeeds; the listener accepts connections from here on.
Listen(t) ==
    /\ starter[t] = "opening" /\ left # {}
    /\ LET ch == First(left) IN
       /\ listener' = [listener EXCEPT ![ch] = "open"]
       /\ socket' = IF ch = "unix" THEN "live" ELSE socket
    /\ starter' = [starter EXCEPT ![t] = "opened"]
    /\ UNCHANGED <<started, left, serving, down, conn, on, configVars, regVars,
                   signalVars, stopVars>>

\* create*Listener fails, having perhaps removed a stale socket file (or, when
\* only chmod failed, closed the listener it had opened); closeListeners runs.
ListenFails(t) ==
    /\ starter[t] = "opening" /\ left # {}
    /\ listener' = [ch \in Channels |->
                       IF ch \in listeners /\ listener[ch] = "open"
                       THEN "closed" ELSE listener[ch]]
    /\ socket' \in IF First(left) = "unix" THEN {socket, "absent"} ELSE {socket}
    /\ down' = [ch \in Channels |->
                   down[ch] \/ (ch = "http3" /\ ch \in servers)]
    /\ conn' = Cut(servers \cap {"http3"})
    /\ starter' = [starter EXCEPT ![t] = "cleaning"]
    /\ UNCHANGED <<started, left, serving, on, configVars, regVars, signalVars,
                   stopVars>>

\* addListener / addQUICListener.
AddListener(t) ==
    /\ starter[t] = "opened"
    /\ listeners' = listeners \cup {First(left)}
    /\ starter' = [starter EXCEPT ![t] = "listening"]
    /\ UNCHANGED <<started, left, servers, configVars, netVars, signalVars,
                   stopVars>>

\* addHTTPServer / addHTTP3Server, wg.Add and the go statement.
AddServer(t) ==
    /\ starter[t] = "listening"
    /\ LET ch == First(left) IN
       /\ servers' = servers \cup {ch}
       /\ serving' = [serving EXCEPT ![ch] = "spawned"]
       /\ left' = left \ {ch}
    /\ starter' = [starter EXCEPT ![t] = "opening"]
    /\ UNCHANGED <<started, listener, listeners, down, socket, conn, on,
                   configVars, signalVars, stopVars>>

\* All channels are open: the watcher is spawned and Start blocks in wg.Wait.
SpawnWatcher(t) ==
    /\ starter[t] = "opening" /\ left = {}
    /\ starter' = [starter EXCEPT ![t] = "waiting"]
    /\ closer' = [closer EXCEPT ![Watcher] = "watching"]
    /\ UNCHANGED <<started, left, once, shuttingDown, phase, snapListeners,
                   snapServers, snapCleanups, todo, failed, configVars, netVars,
                   regVars, signalVars>>

\* wg.Wait returns when every Serve goroutine has ended.
ReturnFromStart(t) ==
    /\ starter[t] = "waiting"
    /\ \A ch \in Channels : serving[ch] = "exited"
    /\ starter' = [starter EXCEPT ![t] = "returned"]
    /\ UNCHANGED <<started, left, configVars, netVars, regVars, signalVars,
                   stopVars>>

\* The deferred cancelCleanup of a Start that fails.
CancelCleanup(t) ==
    /\ starter[t] = "cleaning"
    /\ CancelAll(cleanupFuncs)
    /\ starter' = [starter EXCEPT ![t] = "failed"]
    /\ UNCHANGED <<config, logger, inUse, cleanupFuncs, started, left, netVars,
                   regVars, signalVars, stopVars>>

-----------------------------------------------------------------------------
(* The Serve goroutines and the connections (net/http and quic-go).        *)

\* http.Server.Serve refuses to run, and closes its listener, after Shutdown.
BeginServe(ch) ==
    /\ serving[ch] = "spawned"
    /\ IF ch # "http3" /\ down[ch]
       THEN /\ serving' = [serving EXCEPT ![ch] = "exited"]
            /\ CloseAll({ch})
       ELSE /\ serving' = [serving EXCEPT ![ch] = "accepting"]
            /\ UNCHANGED <<listener, socket>>
    /\ UNCHANGED <<down, conn, on, configVars, startVars, regVars, signalVars,
                   stopVars>>

\* Accept fails because the listener has been closed.
EndServe(ch) ==
    /\ serving[ch] = "accepting" /\ listener[ch] = "closed"
    /\ serving' = [serving EXCEPT ![ch] = "exited"]
    /\ UNCHANGED <<listener, down, socket, conn, on, configVars, startVars,
                   regVars, signalVars, stopVars>>

\* Accept fails for a reason of its own: http.Server.Serve closes its listener.
ServeFails(ch) ==
    /\ AcceptFails /\ ch # "http3"
    /\ serving[ch] = "accepting" /\ listener[ch] = "open"
    /\ serving' = [serving EXCEPT ![ch] = "exited"]
    /\ CloseAll({ch})
    /\ UNCHANGED <<down, conn, on, configVars, startVars, regVars, signalVars,
                   stopVars>>

\* QUIC connections that are past their handshake when the listener is closed
\* are still handed to ServeQUICConn, which refuses them only after Close.
Accept(c) ==
    /\ conn[c] = "none"
    /\ \/ listener[on[c]] = "open" /\ serving[on[c]] = "accepting"
       \/ /\ on[c] = "http3" /\ ~down[on[c]]
          /\ listener[on[c]] = "closed"
          /\ serving[on[c]] \in {"accepting", "exited"}
    /\ conn' = [conn EXCEPT ![c] = "active"]
    /\ UNCHANGED <<listener, serving, down, socket, on, configVars, startVars,
                   regVars, signalVars, stopVars>>

\* The response has been written: the connection is idle or gone.
Respond(c) ==
    /\ conn[c] = "active"
    /\ conn' = [conn EXCEPT ![c] = "served"]
    /\ UNCHANGED <<listener, serving, down, socket, on, configVars, startVars,
                   regVars, signalVars, stopVars>>

\* SIGINT or SIGTERM reaches the quit channel, which holds one signal.
Signal ==
    /\ closer[Watcher] = "watching" /\ ~signalled
    /\ signalled' = TRUE
    /\ UNCHANGED <<signalCtx, configVars, startVars, netVars, regVars,
                   stopVars>>

-----------------------------------------------------------------------------
(* Stop, waitSignal and shutdownAll.                                       *)

CallStop(p) ==
    /\ p \in Stoppers /\ closer[p] = "idle"
    /\ closer' = [closer EXCEPT ![p] = "calling"]
    /\ UNCHANGED <<once, shuttingDown, phase, locals, configVars, startVars,
                   netVars, regVars, signalVars>>

\* The two branches of waitSignal's select; either may be taken when both can.
WatcherWakes ==
    /\ closer[Watcher] = "watching"
    /\ \/ /\ signalled
          /\ signalled' = FALSE
          /\ closer' = [closer EXCEPT ![Watcher] = "calling"]
       \/ /\ signalCtx = "cancelled"
          /\ closer' = [closer EXCEPT ![Watcher] = "done"]
          /\ UNCHANGED signalled
    /\ UNCHANGED <<signalCtx, once, shuttingDown, phase, locals, configVars,
                   startVars, netVars, regVars>>

\* shutdownOnce.Do: the first caller runs shutdownAll, the others wait for it.
EnterOnce(p) ==
    /\ closer[p] = "calling"
    /\ \/ /\ once = "fresh"
          /\ once' = "running"
          /\ phase' = "flag"
          /\ closer' = [closer EXCEPT ![p] = "running"]
       \/ /\ once = "done"
          /\ closer' = [closer EXCEPT ![p] = "done"]
          /\ UNCHANGED <<once, phase>>
    /\ UNCHANGED <<shuttingDown, locals, configVars, startVars, netVars,
                   regVars, signalVars>>

\* The readiness probe answers 503 from here on.
SetShuttingDown ==
    /\ phase = "flag"
    /\ shuttingDown' = TRUE
    /\ phase' = "cancel"
    /\ UNCHANGED <<closer, once, locals, configVars, startVars, netVars,
                   regVars, signalVars>>

\* signalCancel is nil until Start has come to Prepare.
CancelSignal ==
    /\ phase = "cancel"
    /\ signalCtx' = IF signalCtx = "nil" THEN "nil" ELSE "cancelled"
    /\ phase' = "snapshot"
    /\ UNCHANGED <<signalled, closer, once, shuttingDown, locals, configVars,
                   startVars, netVars, regVars>>

\* The critical section of shutdownAll.
Snapshot ==
    /\ phase = "snapshot"
    /\ snapListeners' = listeners /\ snapServers' = servers
    /\ todo' = servers \ {"http3"}
    /\ phase' = "collect"
    /\ UNCHANGED <<snapCleanups, failed, closer, once, shuttingDown, configVars,
                   startVars, netVars, regVars, signalVars>>

\* cleanupFuncs is read when shutdownServers is called.
CollectCleanups ==
    /\ phase = "collect"
    /\ snapCleanups' = cleanupFuncs
    /\ phase' = "servers"
    /\ UNCHANGED <<snapListeners, snapServers, todo, failed, closer, once,
                   shuttingDown, configVars, startVars, netVars, regVars,
                   signalVars>>

\* http.Server.Shutdown: the listener its Serve has taken over is closed, then
\* it waits, unless it finds no connection busy at its first look.
ShutdownServer ==
    /\ phase = "servers" /\ todo # {}
    /\ LET ch == First(todo) IN
       /\ down' = [down EXCEPT ![ch] = TRUE]
       /\ CloseAll(IF serving[ch] = "accepting" THEN {ch} ELSE {})
       /\ IF InFlight(ch) = {}
          THEN todo' = todo \ {ch} /\ UNCHANGED phase
          ELSE phase' = "drain" /\ UNCHANGED todo
    /\ UNCHANGED <<serving, conn, on, snapListeners, snapServers, snapCleanups,
                   failed, closer, once, shuttingDown, configVars, startVars,
                   regVars, signalVars>>

\* A later look of Shutdown finds every connection idle.
Drained ==
    /\ phase = "drain" /\ InFlight(First(todo)) = {}
    /\ todo' = todo \ {First(todo)}
    /\ phase' = "servers"
    /\ UNCHANGED <<snapListeners, snapServers, snapCleanups, failed, closer,
                   once, shuttingDown, configVars, startVars, netVars, regVars,
                   signalVars>>

\* ShutdownTimeout passes or the caller's ctx ends first: closeServer.
DrainExpires ==
    /\ phase = "drain"
    /\ conn' = Cut({First(todo)})
    /\ failed' = TRUE
    /\ todo' = todo \ {First(todo)}
    /\ phase' = "servers"
    /\ UNCHANGED <<listener, serving, down, socket, on, snapListeners,
                   snapServers, snapCleanups, closer, once, shuttingDown,
                   configVars, startVars, regVars, signalVars>>

\* ln.Close on what is left of the listeners; net.ErrClosed is ignored.
CloseListeners ==
    /\ phase = "servers" /\ todo = {}
    /\ CloseAll(snapListeners \ {"http3"})
    /\ phase' = "unlink"
    /\ UNCHANGED <<serving, down, conn, on, locals, closer, once, shuttingDown,
                   configVars, startVars, regVars, signalVars>>

\* os.Remove of the socket path, which an enabled Unix channel always has.
Unlink ==
    /\ phase = "unlink"
    /\ socket' = IF "unix" \in Channels THEN "absent" ELSE socket
    /\ phase' = "cleanup"
    /\ UNCHANGED <<listener, serving, down, conn, on, locals, closer, once,
                   shuttingDown, configVars, startVars, regVars, signalVars>>

\* The file is there and cannot be removed: a warning, and part of the error.
UnlinkFails ==
    /\ phase = "unlink" /\ "unix" \in Channels /\ socket # "absent"
    /\ failed' = TRUE
    /\ phase' = "cleanup"
    /\ UNCHANGED <<snapListeners, snapServers, snapCleanups, todo, closer, once,
                   shuttingDown, netVars, configVars, startVars, regVars,
                   signalVars>>

RunCleanups ==
    /\ phase = "cleanup"
    /\ CancelAll(snapCleanups)
    /\ phase' = "quic"
    /\ UNCHANGED <<locals, closer, once, shuttingDown, config, logger, inUse,
                   cleanupFuncs, startVars, netVars, regVars, signalVars>>

CloseQUIC ==
    /\ phase = "quic"
    /\ CloseAll(snapListeners \cap {"http3"})
    /\ phase' = "sleep"
    /\ UNCHANGED <<serving, down, conn, on, locals, closer, once, shuttingDown,
                   configVars, startVars, regVars, signalVars>>

\* After QUICDrainTimeout, http3.Server.Close; shutdownAll and Do return.
CloseHTTP3(p) ==
    /\ phase = "sleep" /\ closer[p] = "running"
    /\ down' = [ch \in Channels |->
                   down[ch] \/ (ch = "http3" /\ ch \in snapServers)]
    /\ conn' = Cut(snapServers \cap {"http3"})
    /\ once' = "done" /\ phase' = "none"
    /\ closer' = [closer EXCEPT ![p] = "done"]
    /\ UNCHANGED <<listener, serving, socket, on, locals, shuttingDown,
                   configVars, startVars, regVars, signalVars>>

-----------------------------------------------------------------------------
StartStep(t) ==
    \/ EnterStart(t) \/ RefuseNilLogger(t) \/ Prepare(t) \/ PrepareFails(t)
    \/ Listen(t) \/ ListenFails(t) \/ AddListener(t) \/ AddServer(t)
    \/ SpawnWatcher(t) \/ ReturnFromStart(t) \/ CancelCleanup(t)

ServeStep(ch) == BeginServe(ch) \/ EndServe(ch)

ShutdownStep ==
    \/ SetShuttingDown \/ CancelSignal \/ Snapshot \/ CollectCleanups
    \/ ShutdownServer \/ Drained \/ DrainExpires \/ CloseListeners \/ Unlink
    \/ UnlinkFails \/ RunCleanups \/ CloseQUIC
    \/ \E p \in Closers : CloseHTTP3(p)

\* What applications, clients and the operating system may do, or may not.
Environment ==
    \/ Configure \/ Signal
    \/ \E l \in Limiters : EnableRateLimit(l)
    \/ \E ch \in Channels : ServeFails(ch)
    \/ \E c \in Conns : Accept(c) \/ Respond(c)
    \/ \E p \in Stoppers : CallStop(p)

Next ==
    \/ Environment
    \/ \E t \in Starters : StartStep(t)
    \/ \E ch \in Channels : ServeStep(ch)
    \/ WatcherWakes
    \/ \E p \in Closers : EnterOnce(p)
    \/ ShutdownStep

Spec == Init /\ [][Next]_vars

\* The Go scheduler runs every goroutine that can go on; timers expire.  No
\* fairness for Environment: a handler need not finish, nobody need call Stop.
Fairness ==
    /\ \A t \in Starters : WF_vars(StartStep(t) /\ starter[t] # "idle")
    /\ \A ch \in Channels : WF_vars(ServeStep(ch))
    /\ WF_vars(WatcherWakes)
    /\ \A p \in Closers : WF_vars(EnterOnce(p))
    /\ WF_vars(ShutdownStep)

FairSpec == Spec /\ Fairness

-----------------------------------------------------------------------------
(* Properties.                                                             *)

StarterStates == {"idle", "refused", "entered", "opening", "opened",
                  "listening", "waiting", "returned", "cleaning", "failed"}

Phases == {"none", "flag", "cancel", "snapshot", "collect", "servers", "drain",
           "unlink", "cleanup", "quic", "sleep"}

FlagsOK == {started, logger, signalled, shuttingDown, failed} \subseteq BOOLEAN

NetOK ==
    /\ down \in [Channels -> BOOLEAN]
    /\ listener \in [Channels -> {"none", "open", "closed"}]
    /\ listeners \subseteq Channels /\ servers \subseteq Channels
    /\ serving \in [Channels -> {"none", "spawned", "accepting", "exited"}]
    /\ socket \in {"absent", "stale", "live"}
    /\ conn \in [Conns -> {"none", "active", "served", "cut"}]
    /\ on \in [Conns -> Channels]

ControlOK ==
    /\ config \in Nat /\ inUse \in Nat
    /\ starter \in [Starters -> StarterStates] /\ left \subseteq Channels
    /\ cleaner \in [Limiters -> {"none", "running", "cancelled"}]
    /\ cleanupFuncs \subseteq Limiters
    /\ signalCtx \in {"nil", "live", "cancelled"}
    /\ closer \in [Closers ->
                     {"idle", "watching", "calling", "running", "done"}]
    /\ once \in {"fresh", "running", "done"} /\ phase \in Phases
    /\ snapListeners \subseteq Channels /\ snapServers \subseteq Channels
    /\ snapCleanups \subseteq Limiters
    /\ todo \subseteq Channels \ {"http3"}

TypeOK == FlagsOK /\ NetOK /\ ControlOK

\* When any Stop call returns, also one that found another under way, the
\* shutdown is complete: every listener it found registered is closed, no
\* connection of a server it found is still served, and the clean-up goroutines
\* it found are cancelled (server.go Stop, shutdownAll; graceful.go).
StopIsComplete ==
    (\E p \in Stoppers : closer[p] = "done") =>
        /\ \A ch \in snapListeners : listener[ch] # "open"
        /\ \A ch \in snapServers : InFlight(ch) = {}
        /\ \A l \in snapCleanups : cleaner[l] = "cancelled"
        /\ once = "done"

\* A Start that has returned, with an error or without, leaves no listener open;
\* one that failed leaves no clean-up goroutine running either (server.go
\* closeListeners, cancelCleanup, and the end of each Serve goroutine).
StartLeavesNothingOpen ==
    \A t \in Starters :
        /\ starter[t] \in {"failed", "returned"} =>
               \A ch \in Channels : listener[ch] # "open"
        /\ starter[t] = "failed" /\ logger =>
               \A l \in Limiters : cleaner[l] # "running"

\* The configuration the handlers were assembled from, which Start reads without
\* holding mu, is the configuration for good, and one Start alone assembles it
\* (server.go: the started test of Start and of every setter).
ConfigFrozen ==
    /\ inUse # 0 => inUse = config
    /\ \A t, u \in Starters :
           {starter[t], starter[u]} \cap {"idle", "refused"} = {} => t = u

\* A shutdown that reports no error has let every HTTP and Unix connection
\* finish: none was cut by force (graceful.go, the error of shutdownServers).
NilErrorMeansDrained ==
    once = "done" /\ ~failed =>
        \A c \in Conns : conn[c] = "cut" => on[c] \notin snapServers \ {"http3"}

\* The readiness probe turns to 503 before graceful shutdown closes the first
\* listener; only a failing Start or a failing Serve closes one without it.
ReadinessFirst ==
    [][\A ch \in Channels :
           listener[ch] = "open" /\ listener'[ch] = "closed" =>
               \/ shuttingDown
               \/ serving[ch] = "accepting" /\ serving'[ch] = "exited"
               \/ \E t \in Starters : starter[t] = "opening"
                                      /\ starter'[t] = "cleaning"]_vars

\* No connection is taken on by a server that has been told to shut down, also
\* when Shutdown overtakes the goroutine that is about to call Serve.
NoAcceptAfterShutdown ==
    [][\A c \in Conns :
           conn[c] = "none" /\ conn'[c] = "active" => ~down[on[c]]]_vars

\* Every Stop call returns: a handler that never ends holds it no longer than
\* the shutdown timeout.
StopReturns == \A p \in Stoppers : closer[p] = "calling" ~> closer[p] = "done"

\* A shutdown that begins when Start is waiting makes Start return.
StartReturnsAfterStop ==
    \A t \in Starters : phase = "flag" /\ starter[t] = "waiting"
                        ~> starter[t] = "returned"

\* A signal shuts down a server that has not been shut down before.
SignalShutsDown ==
    \A t \in Starters : signalled /\ once = "fresh" /\ starter[t] = "waiting"
                        ~> once = "done" /\ starter[t] = "returned"

-----------------------------------------------------------------------------
(* What comments and documents say and the code does not do: see README.   *)

\* Start does not return while the shutdown is still draining requests: an
\* application whose main ends with Start would cut them (server.go Start).
StartBlocksUntilClosed ==
    [][\A t \in Starters :
           starter[t] = "waiting" /\ starter'[t] = "returned"
               => phase # "drain"]_vars

\* Stop called on a running server makes its Start return, also when Stop has
\* been called before (server.go Stop).
StopStopsRunning ==
    \A p \in Stoppers, t \in Starters :
        closer[p] = "calling" /\ starter[t] = "waiting"
            ~> starter[t] = "returned"

=============================================================================
