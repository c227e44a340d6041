-------------------------- MODULE Lifecycle_proofs --------------------------
(***************************************************************************)
(* Proofs about Lifecycle for every non-empty set of channels and every    *)
(* set of callers, connections and rate limiters.  The properties of       *)
(* Lifecycle are not inductive; each one is a consequence of one or more   *)
(* of the invariants stated here, and those lean on one another in the     *)
(* order in which they are proved:                                         *)
(*   StartInv, ConfigInv, OpenInv, CleanInv   the side of Start            *)
(*   OnceInv, RegInv, DeafInv, ReadyInv       what Start and Stop share    *)
(*   ShutInv                                  the side of Stop             *)
(***************************************************************************)
EXTENDS Lifecycle, TLAPS

USE ChannelsAssumption, ClosersAssumption, LoggersAssumption
    DEF Closers

\* First picks a member of every set of channels that has one.
LEMMA FirstIsMember ==
    ASSUME NEW S \in SUBSET Channels, S # {}
    PROVE  First(S) \in S
<1>1. \E ch \in S : \A other \in S : Rank[ch] <= Rank[other]
  <2>1. Rank["http"] = 1 /\ Rank["http3"] = 2 /\ Rank["unix"] = 3
    BY DEF Rank
  <2>2. CASE "http" \in S
    BY <2>1, <2>2 DEF ChannelKinds
  <2>3. CASE "http" \notin S /\ "http3" \in S
    BY <2>1, <2>3 DEF ChannelKinds
  <2>4. CASE "http" \notin S /\ "http3" \notin S
    <3>1. "unix" \in S /\ \A other \in S : other = "unix"
      BY <2>4 DEF ChannelKinds
    <3>2. QED
      BY <2>1, <3>1
  <2>5. QED
    BY <2>2, <2>3, <2>4
<1>2. QED
  BY <1>1 DEF First

-----------------------------------------------------------------------------
(* The invariants.                                                         *)

\* A Start call that has got past the test of started.
Running(t) == starter[t] \notin {"idle", "refused"}

StartInv ==
    /\ \A t \in Starters : Running(t) => started
    /\ \A t, u \in Starters : Running(t) /\ Running(u) => t = u
    /\ \A t \in Starters : starter[t] \in {"opened", "listening"} => left # {}

ConfigInv == inUse # 0 => started /\ inUse = config

\* Where listeners can be open, and that an ended Serve goroutine leaves none.
OpenInv ==
    /\ \A ch \in left : serving[ch] = "none"
    /\ \A ch \in Channels : serving[ch] # "none" => listener[ch] # "none"
    /\ \A ch \in Channels : serving[ch] = "exited" => listener[ch] # "open"
    /\ \A ch \in Channels : listener[ch] = "open" =>
           \/ ch \in listeners
           \/ \E t \in Starters : starter[t] = "opened" /\ ch = First(left)
    /\ \A t \in Starters : starter[t] \in {"opened", "listening"} =>
           listener[First(left)] # "none"
    /\ \A t \in Starters : starter[t] \in {"entered", "cleaning", "failed"} =>
           \A ch \in Channels : listener[ch] # "open"
    /\ \A t \in Starters : starter[t] = "returned" =>
           \A ch \in Channels : serving[ch] = "exited"
    /\ ~started => \A ch \in Channels : listener[ch] = "none"

CleanInv ==
    /\ \A l \in Limiters : cleaner[l] = "running" => l \in cleanupFuncs
    /\ \A t \in Starters : starter[t] = "failed" /\ logger =>
           \A l \in Limiters : cleaner[l] # "running"

\* A connection is cut by an http.Server only where an error is recorded.
CutInv == \A c \in Conns : conn[c] = "cut" => failed \/ on[c] = "http3"

\* shutdownAll runs at most once, and no Stop returns before it is over.
OnceInv ==
    /\ phase # "none" <=> once = "running"
    /\ \A p \in Closers : closer[p] = "running" => once = "running"
    /\ \A p, q \in Closers :
           closer[p] = "running" /\ closer[q] = "running" => p = q
    /\ \A p \in Stoppers : closer[p] = "done" => once = "done"

\* What is registered, and what shutdownAll has found registered, is never
\* opened again by Start.
RegInv ==
    /\ servers \subseteq listeners /\ servers \cap left = {}
    /\ snapServers \subseteq servers \cap snapListeners
    /\ snapListeners \subseteq listeners
    /\ \A ch \in listeners \cap left :
           \E t \in Starters : starter[t] = "listening" /\ ch = First(left)
    /\ \A t \in Starters : starter[t] = "listening" => First(left) \in listeners
    /\ snapCleanups \subseteq cleanupFuncs
    /\ \A l \in cleanupFuncs : cleaner[l] # "none"

\* An http.Server that has been shut down can accept nothing.
DeafInv ==
    \A ch \in Channels \ {"http3"} :
        down[ch] /\ serving[ch] = "accepting" => listener[ch] # "open"

ReadyInv ==
    /\ phase \notin {"none", "flag"} => shuttingDown
    /\ once = "done" => shuttingDown
    /\ \A ch \in Channels \ {"http3"} : down[ch] => shuttingDown

\* shutdownAll has closed the listeners of shutdownServers.
Late == phase \in {"unlink", "cleanup", "quic", "sleep"} \/ once = "done"

Idle(ch) == \A c \in Conns : conn[c] = "active" => on[c] # ch

\* What shutdownAll has achieved at each point of its run, and that nothing
\* running beside it undoes that.
ShutInv ==
    /\ todo \subseteq snapServers /\ (Late => todo = {})
    /\ phase = "collect" => todo = snapServers \ {"http3"}
    /\ phase = "drain" => todo # {} /\ down[First(todo)]
    /\ phase \in {"servers", "drain"} \/ Late =>
           \A ch \in snapServers \ (todo \cup {"http3"}) : down[ch] /\ Idle(ch)
    /\ Late => \A ch \in snapListeners \ {"http3"} : listener[ch] # "open"
    /\ phase = "sleep" \/ once = "done" =>
           \A ch \in snapListeners : listener[ch] # "open"
    /\ phase \in {"quic", "sleep"} \/ once = "done" =>
           \A l \in snapCleanups : cleaner[l] = "cancelled"
    /\ once = "done" => \A ch \in snapServers : down[ch] /\ Idle(ch)
    /\ \A ch \in Channels \cap {"http3"} :
           down[ch] => ch \in servers /\ listener[ch] # "open"

-----------------------------------------------------------------------------
(* Types, together with StartInv, which says that Start opens a channel only *)
(* when it has one left.                                                     *)

\* The initial values have their types.
LEMMA InitTypes == Init => TypeOK
<1>1. Init => FlagsOK
  BY Zenon DEF Init, FlagsOK
<1>2. Init => NetOK
  BY DEF Init, NetOK
<1>3. Init => ControlOK
  BY DEF Init, ControlOK, StarterStates, Phases
<1>4. QED
  BY <1>1, <1>2, <1>3 DEF TypeOK

\* Every step keeps the types of the flags.
LEMMA FlagsStep == FlagsOK /\ [Next]_vars => FlagsOK'
<1> SUFFICES ASSUME FlagsOK, [Next]_vars
             PROVE  FlagsOK'
  OBVIOUS
<1> USE DEF FlagsOK, configVars, startVars, netVars, regVars, signalVars,
            stopVars, locals
<1>1. CASE UNCHANGED vars
  BY <1>1, Zenon DEF vars
<1>2. CASE Environment
  BY <1>2, Zenon
     DEF Environment, Configure, Signal, EnableRateLimit, ServeFails, Accept,
         Respond, CallStop
<1>3. ASSUME NEW t \in Starters, StartStep(t)
      PROVE  FlagsOK'
  BY <1>3, Zenon
     DEF StartStep, EnterStart, RefuseNilLogger, Prepare, PrepareFails,
         Listen, ListenFails, AddListener, AddServer, SpawnWatcher,
         ReturnFromStart, CancelCleanup
<1>4. ASSUME NEW ch \in Channels, ServeStep(ch)
      PROVE  FlagsOK'
  BY <1>4, Zenon DEF ServeStep, BeginServe, EndServe
<1>5. CASE WatcherWakes
  BY <1>5, Zenon DEF WatcherWakes
<1>6. ASSUME NEW p \in Closers, EnterOnce(p)
      PROVE  FlagsOK'
  BY <1>6, Zenon DEF EnterOnce
<1>7. CASE ShutdownStep
  BY <1>7, Zenon
     DEF ShutdownStep, SetShuttingDown, CancelSignal, Snapshot,
         CollectCleanups, ShutdownServer, Drained, DrainExpires,
         CloseListeners, Unlink, UnlinkFails, RunCleanups, CloseQUIC,
         CloseHTTP3
<1>8. QED
  BY <1>1, <1>2, <1>3, <1>4, <1>5, <1>6, <1>7 DEF Next

\* Every step keeps the types of program counters and shutdown locals.
LEMMA ControlStep == TypeOK /\ StartInv /\ [Next]_vars => ControlOK'
<1> SUFFICES ASSUME TypeOK, StartInv, [Next]_vars
             PROVE  ControlOK'
  OBVIOUS
<1> USE DEF TypeOK, NetOK, ControlOK, StartInv, StarterStates, Phases,
            CloseAll, Cut, CancelAll, configVars, startVars, netVars, regVars,
            signalVars, stopVars, locals
<1>1. CASE UNCHANGED vars
  BY <1>1, SMTT(20) DEF vars
<1>2. CASE Environment
  BY <1>2, SMTT(20)
     DEF Environment, Configure, Signal, EnableRateLimit, ServeFails, Accept,
         Respond, CallStop
<1>3. ASSUME NEW t \in Starters, StartStep(t)
      PROVE  ControlOK'
  BY <1>3, SMTT(20), FirstIsMember
     DEF StartStep, EnterStart, RefuseNilLogger, Prepare, PrepareFails,
         Listen, ListenFails, AddListener, AddServer, SpawnWatcher,
         ReturnFromStart, CancelCleanup
<1>4. ASSUME NEW ch \in Channels, ServeStep(ch)
      PROVE  ControlOK'
  BY <1>4, SMTT(20) DEF ServeStep, BeginServe, EndServe
<1>5. CASE WatcherWakes
  BY <1>5, SMTT(20) DEF WatcherWakes
<1>6. ASSUME NEW p \in Closers, EnterOnce(p)
      PROVE  ControlOK'
  BY <1>6, SMTT(20) DEF EnterOnce
<1>7. CASE ShutdownStep
  BY <1>7, SMTT(20)
     DEF ShutdownStep, SetShuttingDown, CancelSignal, Snapshot,
         CollectCleanups, ShutdownServer, Drained, DrainExpires,
         CloseListeners, Unlink, UnlinkFails, RunCleanups, CloseQUIC,
         CloseHTTP3
<1>8. QED
  BY <1>1, <1>2, <1>3, <1>4, <1>5, <1>6, <1>7 DEF Next

\* The actions that can touch the listeners, servers and connections.
LEMMA NetFrame ==
    ASSUME [Next]_vars
    PROVE  \/ UNCHANGED <<netVars, regVars>>
           \/ \E ch \in Channels : ServeFails(ch) \/ BeginServe(ch)
                  \/ EndServe(ch)
           \/ \E c \in Conns : Accept(c) \/ Respond(c)
           \/ \E t \in Starters : Listen(t) \/ ListenFails(t)
                  \/ AddListener(t) \/ AddServer(t)
           \/ ShutdownServer \/ DrainExpires \/ CloseListeners \/ Unlink
              \/ CloseQUIC
           \/ \E p \in Closers : CloseHTTP3(p)
BY ZenonT(60) DEF
   Next, vars, Environment, StartStep, ServeStep, ShutdownStep, Configure,
   Signal, EnableRateLimit, ServeFails, Accept, Respond, CallStop, EnterStart,
   RefuseNilLogger, Prepare, PrepareFails, Listen, ListenFails, AddListener,
   AddServer, SpawnWatcher, ReturnFromStart, CancelCleanup, BeginServe,
   EndServe, WatcherWakes, EnterOnce, SetShuttingDown, CancelSignal, Snapshot,
   CollectCleanups, ShutdownServer, Drained, DrainExpires, CloseListeners,
   Unlink, UnlinkFails, RunCleanups, CloseQUIC, CloseHTTP3, configVars,
   startVars, netVars, regVars, signalVars, stopVars, locals

\* Every step keeps the types of listeners, servers and connections.
LEMMA NetStep == TypeOK /\ StartInv /\ [Next]_vars => NetOK'
<1> SUFFICES ASSUME TypeOK, StartInv, [Next]_vars
             PROVE  NetOK'
  OBVIOUS
<1> USE DEF TypeOK, NetOK, ControlOK, StartInv
<1>1. CASE UNCHANGED <<netVars, regVars>>
  BY <1>1 DEF netVars, regVars
<1>2. ASSUME NEW ch \in Channels, ServeFails(ch)
      PROVE  NetOK'
  BY <1>2 DEF ServeFails, CloseAll, regVars
<1>3. ASSUME NEW c \in Conns, Accept(c)
      PROVE  NetOK'
  BY <1>3 DEF Accept, regVars
<1>4. ASSUME NEW c \in Conns, Respond(c)
      PROVE  NetOK'
  BY <1>4 DEF Respond, regVars
<1>5. ASSUME NEW t \in Starters, Listen(t)
      PROVE  NetOK'
  BY <1>5, FirstIsMember DEF Listen, regVars
<1>6. ASSUME NEW t \in Starters, ListenFails(t)
      PROVE  NetOK'
  BY <1>6 DEF ListenFails, Cut, regVars
<1>7. ASSUME NEW t \in Starters, AddListener(t)
      PROVE  NetOK'
  BY <1>7, FirstIsMember DEF AddListener, netVars
<1>8. ASSUME NEW t \in Starters, AddServer(t)
      PROVE  NetOK'
  BY <1>8, FirstIsMember DEF AddServer
<1>9. ASSUME NEW ch \in Channels, BeginServe(ch)
      PROVE  NetOK'
  BY <1>9 DEF BeginServe, CloseAll, regVars
<1>10. ASSUME NEW ch \in Channels, EndServe(ch)
       PROVE  NetOK'
  BY <1>10 DEF EndServe, regVars
<1>11. CASE ShutdownServer
  BY <1>11, FirstIsMember DEF ShutdownServer, CloseAll, regVars
<1>12. CASE DrainExpires
  BY <1>12 DEF DrainExpires, Cut, regVars
<1>13. CASE CloseListeners
  BY <1>13 DEF CloseListeners, CloseAll, regVars
<1>14. CASE Unlink
  BY <1>14 DEF Unlink, regVars
<1>15. CASE CloseQUIC
  BY <1>15 DEF CloseQUIC, CloseAll, regVars
<1>16. ASSUME NEW p \in Closers, CloseHTTP3(p)
       PROVE  NetOK'
  BY <1>16 DEF CloseHTTP3, Cut, regVars
<1>17. QED
  BY NetFrame, <1>1, <1>2, <1>3, <1>4, <1>5, <1>6, <1>7, <1>8, <1>9, <1>10,
     <1>11, <1>12, <1>13, <1>14, <1>15, <1>16

\* The actions that can touch the variables of StartInv.
LEMMA StartInvFrame ==
    ASSUME [Next]_vars
    PROVE  \/ UNCHANGED <<started, starter, left>>
           \/ \E t \in Starters : StartStep(t)
BY DEF Next, vars, Environment, ShutdownStep, ServeStep, Configure, Signal,
       EnableRateLimit, ServeFails, Accept, Respond, CallStop, BeginServe,
       EndServe, WatcherWakes, EnterOnce, SetShuttingDown, CancelSignal,
       Snapshot, CollectCleanups, ShutdownServer, Drained, DrainExpires,
       CloseListeners, Unlink, UnlinkFails, RunCleanups, CloseQUIC,
       CloseHTTP3, configVars, startVars, netVars, regVars, signalVars,
       stopVars, locals

\* One Start call gets past the test of started, and it has a channel in hand
\* whenever it has just opened one.
LEMMA StartInvStep == TypeOK /\ StartInv /\ [Next]_vars => StartInv'
<1> SUFFICES ASSUME TypeOK, StartInv, [Next]_vars
             PROVE  StartInv'
  OBVIOUS
<1> USE DEF TypeOK, FlagsOK, NetOK, ControlOK, StartInv, Running, StarterStates
<1>1. CASE UNCHANGED <<started, starter, left>>
  BY <1>1
<1>2. ASSUME NEW t \in Starters, EnterStart(t)
      PROVE  StartInv'
  BY <1>2 DEF EnterStart, configVars, netVars, regVars, signalVars, stopVars
<1>3. ASSUME NEW t \in Starters, RefuseNilLogger(t)
      PROVE  StartInv'
  BY <1>3
     DEF RefuseNilLogger, configVars, netVars, regVars, signalVars, stopVars
<1>4. ASSUME NEW t \in Starters, Prepare(t)
      PROVE  StartInv'
  BY <1>4 DEF Prepare, netVars, regVars, stopVars
<1>5. ASSUME NEW t \in Starters, PrepareFails(t)
      PROVE  StartInv'
  BY <1>5 DEF PrepareFails, configVars, netVars, regVars, stopVars
<1>6. ASSUME NEW t \in Starters, Listen(t)
      PROVE  StartInv'
  BY <1>6, FirstIsMember
     DEF Listen, configVars, regVars, signalVars, stopVars
<1>7. ASSUME NEW t \in Starters, ListenFails(t)
      PROVE  StartInv'
  BY <1>7, FirstIsMember
     DEF ListenFails, Cut, configVars, regVars, signalVars, stopVars
<1>8. ASSUME NEW t \in Starters, AddListener(t)
      PROVE  StartInv'
  BY <1>8, FirstIsMember
     DEF AddListener, configVars, netVars, signalVars, stopVars
<1>9. ASSUME NEW t \in Starters, AddServer(t)
      PROVE  StartInv'
  BY <1>9, FirstIsMember DEF AddServer, configVars, signalVars, stopVars
<1>10. ASSUME NEW t \in Starters, SpawnWatcher(t)
       PROVE  StartInv'
  BY <1>10 DEF SpawnWatcher, configVars, netVars, regVars, signalVars
<1>11. ASSUME NEW t \in Starters, ReturnFromStart(t)
       PROVE  StartInv'
  BY <1>11
     DEF ReturnFromStart, configVars, netVars, regVars, signalVars, stopVars
<1>12. ASSUME NEW t \in Starters, CancelCleanup(t)
       PROVE  StartInv'
  BY <1>12
     DEF CancelCleanup, CancelAll, netVars, regVars, signalVars, stopVars
<1>13. QED
  BY StartInvFrame, <1>1, <1>2, <1>3, <1>4, <1>5, <1>6, <1>7, <1>8, <1>9,
     <1>10, <1>11, <1>12
     DEF StartStep

\* The two are one inductive invariant.
LEMMA TypeAndStart == Spec => [](TypeOK /\ StartInv)
<1>1. Init => TypeOK /\ StartInv
  BY InitTypes DEF Init, StartInv, Running
<1>2. TypeOK /\ StartInv /\ [Next]_vars => (TypeOK /\ StartInv)'
  BY FlagsStep, NetStep, ControlStep, StartInvStep DEF TypeOK
<1>3. QED
  BY <1>1, <1>2, PTL DEF Spec

\* Every variable keeps its type (the state of Server, server.go).
THEOREM TypeCorrect == Spec => []TypeOK
BY TypeAndStart, PTL

\* Its other half.
LEMMA StartInvHolds == Spec => []StartInv
BY TypeAndStart, PTL

-----------------------------------------------------------------------------
(* The other invariants, one by one.                                       *)

\* The actions that can touch the variables of ConfigInv.
LEMMA ConfigInvFrame ==
    ASSUME [Next]_vars
    PROVE  \/ UNCHANGED <<started, config, inUse>>
           \/ Configure
           \/ \E l \in Limiters : EnableRateLimit(l)
           \/ \E t \in Starters : EnterStart(t) \/ Prepare(t)
BY DEF Next, vars, Environment, StartStep, ShutdownStep, ServeStep, Signal,
       ServeFails, Accept, Respond, CallStop, RefuseNilLogger, PrepareFails,
       Listen, ListenFails, AddListener, AddServer, SpawnWatcher,
       ReturnFromStart, CancelCleanup, BeginServe, EndServe, WatcherWakes,
       EnterOnce, SetShuttingDown, CancelSignal, Snapshot, CollectCleanups,
       ShutdownServer, Drained, DrainExpires, CloseListeners, Unlink,
       UnlinkFails, RunCleanups, CloseQUIC, CloseHTTP3, configVars, startVars,
       netVars, regVars, signalVars, stopVars, locals

\* The configuration in use is the configuration.
LEMMA ConfigInvHolds == Spec => []ConfigInv
<1>1. Init => ConfigInv
  BY DEF Init, ConfigInv, Running
<1>2. ASSUME TypeOK, StartInv, ConfigInv, [Next]_vars
      PROVE  ConfigInv'
  <2> USE <1>2 DEF TypeOK, FlagsOK, NetOK, ControlOK, ConfigInv, StartInv,
                 Running, StarterStates
  <2>1. CASE UNCHANGED <<started, config, inUse>>
    BY <2>1
  <2>2. CASE Configure
    BY <2>2 DEF Configure, startVars, netVars, regVars, signalVars, stopVars
  <2>3. ASSUME NEW l \in Limiters, EnableRateLimit(l)
        PROVE  ConfigInv'
    BY <2>3
       DEF EnableRateLimit, startVars, netVars, regVars, signalVars, stopVars
  <2>4. ASSUME NEW t \in Starters, EnterStart(t)
        PROVE  ConfigInv'
    BY <2>4 DEF EnterStart, configVars, netVars, regVars, signalVars, stopVars
  <2>5. ASSUME NEW t \in Starters, Prepare(t)
        PROVE  ConfigInv'
    BY <2>5 DEF Prepare, netVars, regVars, stopVars
  <2>6. QED
    BY ConfigInvFrame, <2>1, <2>2, <2>3, <2>4, <2>5
<1>3. QED
  BY <1>1, <1>2, TypeCorrect, StartInvHolds, PTL DEF Spec

\* The actions that can touch the variables of OpenInv.
LEMMA OpenInvFrame ==
    ASSUME [Next]_vars
    PROVE  \/ UNCHANGED <<started, starter, left, listener, listeners, serving>>
           \/ \E ch \in Channels : ServeFails(ch) \/ BeginServe(ch)
                  \/ EndServe(ch)
           \/ ShutdownServer \/ CloseListeners \/ CloseQUIC
           \/ \E t \in Starters : StartStep(t)
BY DEF Next, vars, Environment, ShutdownStep, ServeStep, Configure, Signal,
       EnableRateLimit, Accept, Respond, CallStop, WatcherWakes, EnterOnce,
       SetShuttingDown, CancelSignal, Snapshot, CollectCleanups, Drained,
       DrainExpires, Unlink, UnlinkFails, RunCleanups, CloseHTTP3, configVars,
       startVars, netVars, regVars, signalVars, stopVars, locals

\* Start rolls back, and returns, with no listener open.
LEMMA OpenInvHolds == Spec => []OpenInv
<1>1. Init => OpenInv
  BY DEF Init, OpenInv, Running
<1>2. ASSUME TypeOK, StartInv, StartInv', OpenInv, [Next]_vars
      PROVE  OpenInv'
  <2> USE <1>2 DEF TypeOK, FlagsOK, NetOK, ControlOK, OpenInv, StartInv,
                 Running, StarterStates
  <2>1. CASE UNCHANGED <<started, starter, left, listener, listeners, serving>>
    BY <2>1
  <2>2. ASSUME NEW ch \in Channels, ServeFails(ch)
        PROVE  OpenInv'
    BY <2>2, FirstIsMember
       DEF ServeFails, CloseAll, configVars, startVars, regVars, signalVars,
           stopVars
  <2>3. ASSUME NEW t \in Starters, EnterStart(t)
        PROVE  OpenInv'
    BY <2>3 DEF EnterStart, configVars, netVars, regVars, signalVars, stopVars
  <2>4. ASSUME NEW t \in Starters, RefuseNilLogger(t)
        PROVE  OpenInv'
    BY <2>4
       DEF RefuseNilLogger, configVars, netVars, regVars, signalVars, stopVars
  <2>5. ASSUME NEW t \in Starters, Prepare(t)
        PROVE  OpenInv'
    BY <2>5 DEF Prepare, netVars, regVars, stopVars
  <2>6. ASSUME NEW t \in Starters, PrepareFails(t)
        PROVE  OpenInv'
    BY <2>6 DEF PrepareFails, configVars, netVars, regVars, stopVars
  <2>7. ASSUME NEW t \in Starters, Listen(t)
        PROVE  OpenInv'
    BY <2>7, FirstIsMember
       DEF Listen, configVars, regVars, signalVars, stopVars
  <2>8. ASSUME NEW t \in Starters, ListenFails(t)
        PROVE  OpenInv'
    BY <2>8, FirstIsMember
       DEF ListenFails, Cut, configVars, regVars, signalVars, stopVars
  <2>9. ASSUME NEW t \in Starters, AddListener(t)
        PROVE  OpenInv'
    BY <2>9, FirstIsMember
       DEF AddListener, configVars, netVars, signalVars, stopVars
  <2>10. ASSUME NEW t \in Starters, AddServer(t)
         PROVE  OpenInv'
    BY <2>10, FirstIsMember DEF AddServer, configVars, signalVars, stopVars
  <2>11. ASSUME NEW t \in Starters, SpawnWatcher(t)
         PROVE  OpenInv'
    BY <2>11 DEF SpawnWatcher, configVars, netVars, regVars, signalVars
  <2>12. ASSUME NEW t \in Starters, ReturnFromStart(t)
         PROVE  OpenInv'
    BY <2>12
       DEF ReturnFromStart, configVars, netVars, regVars, signalVars, stopVars
  <2>13. ASSUME NEW t \in Starters, CancelCleanup(t)
         PROVE  OpenInv'
    BY <2>13
       DEF CancelCleanup, CancelAll, netVars, regVars, signalVars, stopVars
  <2>14. ASSUME NEW ch \in Channels, BeginServe(ch)
         PROVE  OpenInv'
    BY <2>14, FirstIsMember
       DEF BeginServe, CloseAll, configVars, startVars, regVars, signalVars,
           stopVars
  <2>15. ASSUME NEW ch \in Channels, EndServe(ch)
         PROVE  OpenInv'
    BY <2>15
       DEF EndServe, configVars, startVars, regVars, signalVars, stopVars
  <2>16. CASE ShutdownServer
    BY <2>16, FirstIsMember
       DEF ShutdownServer, CloseAll, configVars, startVars, regVars,
           signalVars
  <2>17. CASE CloseListeners
    BY <2>17, FirstIsMember
       DEF CloseListeners, CloseAll, configVars, startVars, regVars,
           signalVars, locals
  <2>18. CASE CloseQUIC
    BY <2>18, FirstIsMember
       DEF CloseQUIC, CloseAll, configVars, startVars, regVars, signalVars,
           locals
  <2>19. QED
    BY OpenInvFrame, <2>1, <2>2, <2>3, <2>4, <2>5, <2>6, <2>7, <2>8, <2>9,
       <2>10, <2>11, <2>12, <2>13, <2>14, <2>15, <2>16, <2>17, <2>18
       DEF StartStep
<1>3. QED
  BY <1>1, <1>2, TypeCorrect, StartInvHolds, PTL DEF Spec

\* The actions that can touch the variables of CleanInv.
LEMMA CleanInvFrame ==
    ASSUME [Next]_vars
    PROVE  \/ UNCHANGED <<started, starter, logger, cleaner, cleanupFuncs>>
           \/ Configure \/ RunCleanups
           \/ \E l \in Limiters : EnableRateLimit(l)
           \/ \E t \in Starters : StartStep(t)
BY DEF Next, vars, Environment, ShutdownStep, ServeStep, Signal, ServeFails,
       Accept, Respond, CallStop, BeginServe, EndServe, WatcherWakes,
       EnterOnce, SetShuttingDown, CancelSignal, Snapshot, CollectCleanups,
       ShutdownServer, Drained, DrainExpires, CloseListeners, Unlink,
       UnlinkFails, CloseQUIC, CloseHTTP3, configVars, startVars, netVars,
       regVars, signalVars, stopVars, locals

\* A failed Start cancels the clean-up goroutines.
LEMMA CleanInvHolds == Spec => []CleanInv
<1>1. Init => CleanInv
  BY DEF Init, CleanInv, Running
<1>2. ASSUME TypeOK, StartInv, CleanInv, [Next]_vars
      PROVE  CleanInv'
  <2> USE <1>2 DEF TypeOK, FlagsOK, NetOK, ControlOK, CleanInv, StartInv,
                 Running, StarterStates
  <2>1. CASE UNCHANGED <<started, starter, logger, cleaner, cleanupFuncs>>
    BY <2>1
  <2>2. CASE Configure
    BY <2>2 DEF Configure, startVars, netVars, regVars, signalVars, stopVars
  <2>3. ASSUME NEW l \in Limiters, EnableRateLimit(l)
        PROVE  CleanInv'
    BY <2>3
       DEF EnableRateLimit, startVars, netVars, regVars, signalVars, stopVars
  <2>4. ASSUME NEW t \in Starters, EnterStart(t)
        PROVE  CleanInv'
    BY <2>4 DEF EnterStart, configVars, netVars, regVars, signalVars, stopVars
  <2>5. ASSUME NEW t \in Starters, RefuseNilLogger(t)
        PROVE  CleanInv'
    BY <2>5
       DEF RefuseNilLogger, configVars, netVars, regVars, signalVars, stopVars
  <2>6. ASSUME NEW t \in Starters, Prepare(t)
        PROVE  CleanInv'
    BY <2>6 DEF Prepare, netVars, regVars, stopVars
  <2>7. ASSUME NEW t \in Starters, PrepareFails(t)
        PROVE  CleanInv'
    BY <2>7 DEF PrepareFails, configVars, netVars, regVars, stopVars
  <2>8. ASSUME NEW t \in Starters, Listen(t)
        PROVE  CleanInv'
    BY <2>8 DEF Listen, configVars, regVars, signalVars, stopVars
  <2>9. ASSUME NEW t \in Starters, ListenFails(t)
        PROVE  CleanInv'
    BY <2>9 DEF ListenFails, Cut, configVars, regVars, signalVars, stopVars
  <2>10. ASSUME NEW t \in Starters, AddListener(t)
         PROVE  CleanInv'
    BY <2>10 DEF AddListener, configVars, netVars, signalVars, stopVars
  <2>11. ASSUME NEW t \in Starters, AddServer(t)
         PROVE  CleanInv'
    BY <2>11 DEF AddServer, configVars, signalVars, stopVars
  <2>12. ASSUME NEW t \in Starters, SpawnWatcher(t)
         PROVE  CleanInv'
    BY <2>12 DEF SpawnWatcher, configVars, netVars, regVars, signalVars
  <2>13. ASSUME NEW t \in Starters, ReturnFromStart(t)
         PROVE  CleanInv'
    BY <2>13
       DEF ReturnFromStart, configVars, netVars, regVars, signalVars, stopVars
  <2>14. ASSUME NEW t \in Starters, CancelCleanup(t)
         PROVE  CleanInv'
    BY <2>14
       DEF CancelCleanup, CancelAll, netVars, regVars, signalVars, stopVars
  <2>15. CASE RunCleanups
    BY <2>15
       DEF RunCleanups, CancelAll, startVars, netVars, regVars, signalVars,
           locals
  <2>16. QED
    BY CleanInvFrame, <2>1, <2>2, <2>3, <2>4, <2>5, <2>6, <2>7, <2>8, <2>9,
       <2>10, <2>11, <2>12, <2>13, <2>14, <2>15
       DEF StartStep
<1>3. QED
  BY <1>1, <1>2, TypeCorrect, StartInvHolds, PTL DEF Spec

\* The actions that can touch the variables of CutInv.
LEMMA CutInvFrame ==
    ASSUME [Next]_vars
    PROVE  \/ UNCHANGED <<conn, on, failed>>
           \/ \E c \in Conns : Accept(c) \/ Respond(c)
           \/ \E t \in Starters : ListenFails(t)
           \/ DrainExpires \/ UnlinkFails
           \/ \E p \in Closers : CloseHTTP3(p)
BY DEF Next, vars, Environment, StartStep, ShutdownStep, ServeStep, Configure,
       Signal, EnableRateLimit, ServeFails, CallStop, EnterStart,
       RefuseNilLogger, Prepare, PrepareFails, Listen, AddListener, AddServer,
       SpawnWatcher, ReturnFromStart, CancelCleanup, BeginServe, EndServe,
       WatcherWakes, EnterOnce, SetShuttingDown, CancelSignal, Snapshot,
       CollectCleanups, ShutdownServer, Drained, CloseListeners, Unlink,
       RunCleanups, CloseQUIC, configVars, startVars, netVars, regVars,
       signalVars, stopVars, locals

\* No connection of an http.Server is cut without an error.
LEMMA CutInvHolds == Spec => []CutInv
<1>1. Init => CutInv
  BY DEF Init, CutInv
<1>2. ASSUME TypeOK, CutInv, [Next]_vars
      PROVE  CutInv'
  <2> USE <1>2 DEF TypeOK, FlagsOK, NetOK, ControlOK, CutInv
  <2>1. CASE UNCHANGED <<conn, on, failed>>
    BY <2>1
  <2>2. ASSUME NEW c \in Conns, Accept(c)
        PROVE  CutInv'
    BY <2>2 DEF Accept, configVars, startVars, regVars, signalVars, stopVars
  <2>3. ASSUME NEW c \in Conns, Respond(c)
        PROVE  CutInv'
    BY <2>3 DEF Respond, configVars, startVars, regVars, signalVars, stopVars
  <2>4. ASSUME NEW t \in Starters, ListenFails(t)
        PROVE  CutInv'
    BY <2>4 DEF ListenFails, Cut, configVars, regVars, signalVars, stopVars
  <2>5. CASE DrainExpires
    BY <2>5 DEF DrainExpires, Cut, configVars, startVars, regVars, signalVars
  <2>6. CASE UnlinkFails
    BY <2>6
       DEF UnlinkFails, configVars, startVars, netVars, regVars, signalVars
  <2>7. ASSUME NEW p \in Closers, CloseHTTP3(p)
        PROVE  CutInv'
    BY <2>7
       DEF CloseHTTP3, Cut, configVars, startVars, regVars, signalVars, locals
  <2>8. QED
    BY CutInvFrame, <2>1, <2>2, <2>3, <2>4, <2>5, <2>6, <2>7
<1>3. QED
  BY <1>1, <1>2, TypeCorrect, PTL DEF Spec

\* The actions that can touch the variables of OnceInv.
LEMMA OnceInvFrame ==
    ASSUME [Next]_vars
    PROVE  \/ UNCHANGED <<phase, once, closer>>
           \/ \E p \in Stoppers : CallStop(p)
           \/ \E t \in Starters : SpawnWatcher(t)
           \/ WatcherWakes
           \/ \E p \in Closers : EnterOnce(p)
           \/ ShutdownStep
BY DEF Next, vars, Environment, StartStep, ServeStep, Configure, Signal,
       EnableRateLimit, ServeFails, Accept, Respond, EnterStart,
       RefuseNilLogger, Prepare, PrepareFails, Listen, ListenFails,
       AddListener, AddServer, ReturnFromStart, CancelCleanup, BeginServe,
       EndServe, configVars, startVars, netVars, regVars, signalVars,
       stopVars, locals

\* sync.Once: one shutdown, and everybody waits for it.
LEMMA OnceInvHolds == Spec => []OnceInv
<1>1. Init => OnceInv
  BY DEF Init, OnceInv
<1>2. ASSUME TypeOK, OnceInv, [Next]_vars
      PROVE  OnceInv'
  <2> USE <1>2 DEF TypeOK, FlagsOK, NetOK, ControlOK, OnceInv, Watcher
  <2>1. CASE UNCHANGED <<phase, once, closer>>
    BY <2>1
  <2>2. ASSUME NEW p \in Stoppers, CallStop(p)
        PROVE  OnceInv'
    BY <2>2
       DEF CallStop, configVars, startVars, netVars, regVars, signalVars,
           locals
  <2>3. ASSUME NEW t \in Starters, SpawnWatcher(t)
        PROVE  OnceInv'
    BY <2>3 DEF SpawnWatcher, configVars, netVars, regVars, signalVars
  <2>4. CASE WatcherWakes
    BY <2>4 DEF WatcherWakes, configVars, startVars, netVars, regVars, locals
  <2>5. ASSUME NEW p \in Closers, EnterOnce(p)
        PROVE  OnceInv'
    BY <2>5
       DEF EnterOnce, configVars, startVars, netVars, regVars, signalVars,
           locals
  <2>6. CASE SetShuttingDown
    BY <2>6
       DEF SetShuttingDown, configVars, startVars, netVars, regVars,
           signalVars, locals
  <2>7. CASE CancelSignal
    BY <2>7 DEF CancelSignal, configVars, startVars, netVars, regVars, locals
  <2>8. CASE Snapshot
    BY <2>8 DEF Snapshot, configVars, startVars, netVars, regVars, signalVars
  <2>9. CASE CollectCleanups
    BY <2>9
       DEF CollectCleanups, configVars, startVars, netVars, regVars,
           signalVars
  <2>10. CASE ShutdownServer
    BY <2>10
       DEF ShutdownServer, CloseAll, configVars, startVars, regVars,
           signalVars
  <2>11. CASE Drained
    BY <2>11 DEF Drained, configVars, startVars, netVars, regVars, signalVars
  <2>12. CASE DrainExpires
    BY <2>12 DEF DrainExpires, Cut, configVars, startVars, regVars, signalVars
  <2>13. CASE CloseListeners
    BY <2>13
       DEF CloseListeners, CloseAll, configVars, startVars, regVars,
           signalVars, locals
  <2>14. CASE Unlink
    BY <2>14 DEF Unlink, configVars, startVars, regVars, signalVars, locals
  <2>15. CASE UnlinkFails
    BY <2>15
       DEF UnlinkFails, configVars, startVars, netVars, regVars, signalVars
  <2>16. CASE RunCleanups
    BY <2>16
       DEF RunCleanups, CancelAll, startVars, netVars, regVars, signalVars,
           locals
  <2>17. CASE CloseQUIC
    BY <2>17
       DEF CloseQUIC, CloseAll, configVars, startVars, regVars, signalVars,
           locals
  <2>18. ASSUME NEW p \in Closers, CloseHTTP3(p)
         PROVE  OnceInv'
    BY <2>18
       DEF CloseHTTP3, Cut, configVars, startVars, regVars, signalVars, locals
  <2>19. QED
    BY OnceInvFrame, <2>1, <2>2, <2>3, <2>4, <2>5, <2>6, <2>7, <2>8, <2>9,
       <2>10, <2>11, <2>12, <2>13, <2>14, <2>15, <2>16, <2>17, <2>18
       DEF ShutdownStep
<1>3. QED
  BY <1>1, <1>2, TypeCorrect, PTL DEF Spec

\* The actions that can touch the variables of RegInv.
LEMMA RegInvFrame ==
    ASSUME [Next]_vars
    PROVE  \/ UNCHANGED <<starter, left, servers, listeners, snapServers,
                         snapListeners, snapCleanups, cleanupFuncs, cleaner>>
           \/ \E l \in Limiters : EnableRateLimit(l)
           \/ Snapshot \/ CollectCleanups \/ RunCleanups
           \/ \E t \in Starters : StartStep(t)
BY DEF Next, vars, Environment, ShutdownStep, ServeStep, Configure, Signal,
       ServeFails, Accept, Respond, CallStop, BeginServe, EndServe,
       WatcherWakes, EnterOnce, SetShuttingDown, CancelSignal, ShutdownServer,
       Drained, DrainExpires, CloseListeners, Unlink, UnlinkFails, CloseQUIC,
       CloseHTTP3, configVars, startVars, netVars, regVars, signalVars,
       stopVars, locals

\* What is registered is not opened again.
LEMMA RegInvHolds == Spec => []RegInv
<1>1. Init => RegInv
  BY DEF Init, RegInv, Running
<1>2. ASSUME TypeOK, StartInv, RegInv, [Next]_vars
      PROVE  RegInv'
  <2> USE <1>2 DEF TypeOK, FlagsOK, NetOK, ControlOK, RegInv, StartInv, Running,
                 StarterStates
  <2>1. CASE UNCHANGED <<starter, left, servers, listeners, snapServers,
                         snapListeners, snapCleanups, cleanupFuncs, cleaner>>
    BY <2>1
  <2>2. ASSUME NEW l \in Limiters, EnableRateLimit(l)
        PROVE  RegInv'
    BY <2>2
       DEF EnableRateLimit, startVars, netVars, regVars, signalVars, stopVars
  <2>3. ASSUME NEW t \in Starters, EnterStart(t)
        PROVE  RegInv'
    BY <2>3 DEF EnterStart, configVars, netVars, regVars, signalVars, stopVars
  <2>4. ASSUME NEW t \in Starters, RefuseNilLogger(t)
        PROVE  RegInv'
    BY <2>4
       DEF RefuseNilLogger, configVars, netVars, regVars, signalVars, stopVars
  <2>5. ASSUME NEW t \in Starters, Prepare(t)
        PROVE  RegInv'
    BY <2>5 DEF Prepare, netVars, regVars, stopVars
  <2>6. ASSUME NEW t \in Starters, PrepareFails(t)
        PROVE  RegInv'
    BY <2>6 DEF PrepareFails, configVars, netVars, regVars, stopVars
  <2>7. ASSUME NEW t \in Starters, Listen(t)
        PROVE  RegInv'
    BY <2>7, FirstIsMember
       DEF Listen, configVars, regVars, signalVars, stopVars
  <2>8. ASSUME NEW t \in Starters, ListenFails(t)
        PROVE  RegInv'
    BY <2>8, FirstIsMember
       DEF ListenFails, Cut, configVars, regVars, signalVars, stopVars
  <2>9. ASSUME NEW t \in Starters, AddListener(t)
        PROVE  RegInv'
    BY <2>9, FirstIsMember
       DEF AddListener, configVars, netVars, signalVars, stopVars
  <2>10. ASSUME NEW t \in Starters, AddServer(t)
         PROVE  RegInv'
    BY <2>10, FirstIsMember DEF AddServer, configVars, signalVars, stopVars
  <2>11. ASSUME NEW t \in Starters, SpawnWatcher(t)
         PROVE  RegInv'
    BY <2>11 DEF SpawnWatcher, configVars, netVars, regVars, signalVars
  <2>12. ASSUME NEW t \in Starters, ReturnFromStart(t)
         PROVE  RegInv'
    BY <2>12
       DEF ReturnFromStart, configVars, netVars, regVars, signalVars, stopVars
  <2>13. ASSUME NEW t \in Starters, CancelCleanup(t)
         PROVE  RegInv'
    BY <2>13
       DEF CancelCleanup, CancelAll, netVars, regVars, signalVars, stopVars
  <2>14. CASE Snapshot
    BY <2>14 DEF Snapshot, configVars, startVars, netVars, regVars, signalVars
  <2>15. CASE CollectCleanups
    BY <2>15, FirstIsMember
       DEF CollectCleanups, configVars, startVars, netVars, regVars,
           signalVars
  <2>16. CASE RunCleanups
    BY <2>16
       DEF RunCleanups, CancelAll, startVars, netVars, regVars, signalVars,
           locals
  <2>17. QED
    BY RegInvFrame, <2>1, <2>2, <2>3, <2>4, <2>5, <2>6, <2>7, <2>8, <2>9,
       <2>10, <2>11, <2>12, <2>13, <2>14, <2>15, <2>16
       DEF StartStep
<1>3. QED
  BY <1>1, <1>2, TypeCorrect, StartInvHolds, PTL DEF Spec

\* The actions that can touch the variables of DeafInv.
LEMMA DeafInvFrame ==
    ASSUME [Next]_vars
    PROVE  \/ UNCHANGED <<down, listener, serving>>
           \/ \E ch \in Channels : ServeFails(ch) \/ BeginServe(ch)
                  \/ EndServe(ch)
           \/ \E t \in Starters : Listen(t) \/ ListenFails(t) \/ AddServer(t)
           \/ ShutdownServer \/ CloseListeners \/ CloseQUIC
           \/ \E p \in Closers : CloseHTTP3(p)
BY DEF Next, vars, Environment, StartStep, ShutdownStep, ServeStep, Configure,
       Signal, EnableRateLimit, Accept, Respond, CallStop, EnterStart,
       RefuseNilLogger, Prepare, PrepareFails, AddListener, SpawnWatcher,
       ReturnFromStart, CancelCleanup, WatcherWakes, EnterOnce,
       SetShuttingDown, CancelSignal, Snapshot, CollectCleanups, Drained,
       DrainExpires, Unlink, UnlinkFails, RunCleanups, configVars, startVars,
       netVars, regVars, signalVars, stopVars, locals

\* A server that has been shut down accepts nothing.
LEMMA DeafInvHolds == Spec => []DeafInv
<1>1. Init => DeafInv
  BY DEF Init, DeafInv, Running
<1>2. ASSUME TypeOK, StartInv, OpenInv, DeafInv, [Next]_vars
      PROVE  DeafInv'
  <2> USE <1>2 DEF TypeOK, FlagsOK, NetOK, ControlOK, DeafInv, OpenInv,
                 StartInv, Running, StarterStates
  <2>1. CASE UNCHANGED <<down, listener, serving>>
    BY <2>1
  <2>2. ASSUME NEW ch \in Channels, ServeFails(ch)
        PROVE  DeafInv'
    BY <2>2
       DEF ServeFails, CloseAll, configVars, startVars, regVars, signalVars,
           stopVars
  <2>3. ASSUME NEW t \in Starters, Listen(t)
        PROVE  DeafInv'
    BY <2>3, FirstIsMember
       DEF Listen, configVars, regVars, signalVars, stopVars
  <2>4. ASSUME NEW t \in Starters, ListenFails(t)
        PROVE  DeafInv'
    BY <2>4, FirstIsMember
       DEF ListenFails, Cut, configVars, regVars, signalVars, stopVars
  <2>5. ASSUME NEW t \in Starters, AddServer(t)
        PROVE  DeafInv'
    BY <2>5, FirstIsMember DEF AddServer, configVars, signalVars, stopVars
  <2>6. ASSUME NEW ch \in Channels, BeginServe(ch)
        PROVE  DeafInv'
    BY <2>6
       DEF BeginServe, CloseAll, configVars, startVars, regVars, signalVars,
           stopVars
  <2>7. ASSUME NEW ch \in Channels, EndServe(ch)
        PROVE  DeafInv'
    BY <2>7 DEF EndServe, configVars, startVars, regVars, signalVars, stopVars
  <2>8. CASE ShutdownServer
    BY <2>8, FirstIsMember
       DEF ShutdownServer, CloseAll, configVars, startVars, regVars,
           signalVars
  <2>9. CASE CloseListeners
    BY <2>9
       DEF CloseListeners, CloseAll, configVars, startVars, regVars,
           signalVars, locals
  <2>10. CASE CloseQUIC
    BY <2>10
       DEF CloseQUIC, CloseAll, configVars, startVars, regVars, signalVars,
           locals
  <2>11. ASSUME NEW p \in Closers, CloseHTTP3(p)
         PROVE  DeafInv'
    BY <2>11
       DEF CloseHTTP3, Cut, configVars, startVars, regVars, signalVars, locals
  <2>12. QED
    BY DeafInvFrame, <2>1, <2>2, <2>3, <2>4, <2>5, <2>6, <2>7, <2>8, <2>9,
       <2>10, <2>11
<1>3. QED
  BY <1>1, <1>2, TypeCorrect, StartInvHolds, OpenInvHolds, PTL DEF Spec

\* The actions that can touch the variables of ReadyInv.
LEMMA ReadyInvFrame ==
    ASSUME [Next]_vars
    PROVE  \/ UNCHANGED <<phase, once, shuttingDown, down>>
           \/ \E t \in Starters : ListenFails(t)
           \/ \E p \in Closers : EnterOnce(p)
           \/ ShutdownStep
BY DEF Next, vars, Environment, StartStep, ServeStep, Configure, Signal,
       EnableRateLimit, ServeFails, Accept, Respond, CallStop, EnterStart,
       RefuseNilLogger, Prepare, PrepareFails, Listen, AddListener, AddServer,
       SpawnWatcher, ReturnFromStart, CancelCleanup, BeginServe, EndServe,
       WatcherWakes, configVars, startVars, netVars, regVars, signalVars,
       stopVars, locals

\* The readiness flag is up from the first step of a shutdown on.
LEMMA ReadyInvHolds == Spec => []ReadyInv
<1>1. Init => ReadyInv
  BY DEF Init, ReadyInv
<1>2. ASSUME TypeOK, OnceInv, ReadyInv, [Next]_vars
      PROVE  ReadyInv'
  <2> USE <1>2 DEF TypeOK, FlagsOK, NetOK, ControlOK, ReadyInv, OnceInv
  <2>1. CASE UNCHANGED <<phase, once, shuttingDown, down>>
    BY <2>1
  <2>2. ASSUME NEW t \in Starters, ListenFails(t)
        PROVE  ReadyInv'
    BY <2>2 DEF ListenFails, Cut, configVars, regVars, signalVars, stopVars
  <2>3. ASSUME NEW p \in Closers, EnterOnce(p)
        PROVE  ReadyInv'
    BY <2>3
       DEF EnterOnce, configVars, startVars, netVars, regVars, signalVars,
           locals
  <2>4. CASE SetShuttingDown
    BY <2>4
       DEF SetShuttingDown, configVars, startVars, netVars, regVars,
           signalVars, locals
  <2>5. CASE CancelSignal
    BY <2>5 DEF CancelSignal, configVars, startVars, netVars, regVars, locals
  <2>6. CASE Snapshot
    BY <2>6 DEF Snapshot, configVars, startVars, netVars, regVars, signalVars
  <2>7. CASE CollectCleanups
    BY <2>7
       DEF CollectCleanups, configVars, startVars, netVars, regVars,
           signalVars
  <2>8. CASE ShutdownServer
    BY <2>8
       DEF ShutdownServer, CloseAll, configVars, startVars, regVars,
           signalVars
  <2>9. CASE Drained
    BY <2>9 DEF Drained, configVars, startVars, netVars, regVars, signalVars
  <2>10. CASE DrainExpires
    BY <2>10 DEF DrainExpires, Cut, configVars, startVars, regVars, signalVars
  <2>11. CASE CloseListeners
    BY <2>11
       DEF CloseListeners, CloseAll, configVars, startVars, regVars,
           signalVars, locals
  <2>12. CASE Unlink
    BY <2>12 DEF Unlink, configVars, startVars, regVars, signalVars, locals
  <2>13. CASE UnlinkFails
    BY <2>13
       DEF UnlinkFails, configVars, startVars, netVars, regVars, signalVars
  <2>14. CASE RunCleanups
    BY <2>14
       DEF RunCleanups, CancelAll, startVars, netVars, regVars, signalVars,
           locals
  <2>15. CASE CloseQUIC
    BY <2>15
       DEF CloseQUIC, CloseAll, configVars, startVars, regVars, signalVars,
           locals
  <2>16. ASSUME NEW p \in Closers, CloseHTTP3(p)
         PROVE  ReadyInv'
    BY <2>16
       DEF CloseHTTP3, Cut, configVars, startVars, regVars, signalVars, locals
  <2>17. QED
    BY ReadyInvFrame, <2>1, <2>2, <2>3, <2>4, <2>5, <2>6, <2>7, <2>8, <2>9,
       <2>10, <2>11, <2>12, <2>13, <2>14, <2>15, <2>16
       DEF ShutdownStep
<1>3. QED
  BY <1>1, <1>2, TypeCorrect, OnceInvHolds, PTL DEF Spec

\* The actions that can touch the variables of ShutInv.
LEMMA ShutInvFrame ==
    ASSUME [Next]_vars
    PROVE  \/ UNCHANGED <<phase, once, todo, snapServers, snapListeners,
                         snapCleanups, down, conn, on, listener, serving,
                         servers, cleaner>>
           \/ \E l \in Limiters : EnableRateLimit(l)
           \/ \E ch \in Channels : ServeFails(ch) \/ BeginServe(ch)
                  \/ EndServe(ch)
           \/ \E c \in Conns : Accept(c) \/ Respond(c)
           \/ \E t \in Starters : Listen(t) \/ ListenFails(t) \/ AddServer(t)
                  \/ CancelCleanup(t)
           \/ \E p \in Closers : EnterOnce(p)
           \/ ShutdownStep
BY DEF Next, vars, Environment, StartStep, ServeStep, Configure, Signal,
       CallStop, EnterStart, RefuseNilLogger, Prepare, PrepareFails,
       AddListener, SpawnWatcher, ReturnFromStart, WatcherWakes, configVars,
       startVars, netVars, regVars, signalVars, stopVars, locals

\* shutdownAll closes, drains and cancels what it found, for good.
LEMMA ShutInvHolds == Spec => []ShutInv
<1>1. Init => ShutInv
  BY DEF Init, ShutInv, Late, Idle, InFlight, Running
<1>2. ASSUME TypeOK, StartInv, OnceInv, RegInv, DeafInv, ShutInv, [Next]_vars
      PROVE  ShutInv'
  <2> USE <1>2 DEF TypeOK, FlagsOK, NetOK, ControlOK, ShutInv, Late, Idle,
                 InFlight, OnceInv, RegInv, DeafInv, StartInv, Running,
                 StarterStates
  <2>1. CASE UNCHANGED <<phase, once, todo, snapServers, snapListeners,
                         snapCleanups, down, conn, on, listener, serving,
                         servers, cleaner>>
    BY <2>1
  <2>2. ASSUME NEW l \in Limiters, EnableRateLimit(l)
        PROVE  ShutInv'
    BY <2>2
       DEF EnableRateLimit, startVars, netVars, regVars, signalVars, stopVars
  <2>3. ASSUME NEW ch \in Channels, ServeFails(ch)
        PROVE  ShutInv'
    BY <2>3
       DEF ServeFails, CloseAll, configVars, startVars, regVars, signalVars,
           stopVars
  <2>4. ASSUME NEW c \in Conns, Accept(c)
        PROVE  ShutInv'
    BY <2>4 DEF Accept, configVars, startVars, regVars, signalVars, stopVars
  <2>5. ASSUME NEW c \in Conns, Respond(c)
        PROVE  ShutInv'
    BY <2>5 DEF Respond, configVars, startVars, regVars, signalVars, stopVars
  <2>6. ASSUME NEW t \in Starters, Listen(t)
        PROVE  ShutInv'
    BY <2>6, FirstIsMember
       DEF Listen, configVars, regVars, signalVars, stopVars
  <2>7. ASSUME NEW t \in Starters, ListenFails(t)
        PROVE  ShutInv'
    BY <2>7, FirstIsMember
       DEF ListenFails, Cut, configVars, regVars, signalVars, stopVars
  <2>8. ASSUME NEW t \in Starters, AddServer(t)
        PROVE  ShutInv'
    BY <2>8, FirstIsMember DEF AddServer, configVars, signalVars, stopVars
  <2>9. ASSUME NEW t \in Starters, CancelCleanup(t)
        PROVE  ShutInv'
    BY <2>9
       DEF CancelCleanup, CancelAll, netVars, regVars, signalVars, stopVars
  <2>10. ASSUME NEW ch \in Channels, BeginServe(ch)
         PROVE  ShutInv'
    BY <2>10
       DEF BeginServe, CloseAll, configVars, startVars, regVars, signalVars,
           stopVars
  <2>11. ASSUME NEW ch \in Channels, EndServe(ch)
         PROVE  ShutInv'
    BY <2>11
       DEF EndServe, configVars, startVars, regVars, signalVars, stopVars
  <2>12. ASSUME NEW p \in Closers, EnterOnce(p)
         PROVE  ShutInv'
    BY <2>12
       DEF EnterOnce, configVars, startVars, netVars, regVars, signalVars,
           locals
  <2>13. CASE SetShuttingDown
    BY <2>13
       DEF SetShuttingDown, configVars, startVars, netVars, regVars,
           signalVars, locals
  <2>14. CASE CancelSignal
    BY <2>14 DEF CancelSignal, configVars, startVars, netVars, regVars, locals
  <2>15. CASE Snapshot
    BY <2>15 DEF Snapshot, configVars, startVars, netVars, regVars, signalVars
  <2>16. CASE CollectCleanups
    BY <2>16, FirstIsMember
       DEF CollectCleanups, configVars, startVars, netVars, regVars,
           signalVars
  <2>17. CASE ShutdownServer
    BY <2>17, FirstIsMember
       DEF ShutdownServer, CloseAll, configVars, startVars, regVars,
           signalVars
  <2>18. CASE Drained
    BY <2>18, FirstIsMember
       DEF Drained, configVars, startVars, netVars, regVars, signalVars
  <2>19. CASE DrainExpires
    BY <2>19, FirstIsMember
       DEF DrainExpires, Cut, configVars, startVars, regVars, signalVars
  <2>20. CASE CloseListeners
    BY <2>20
       DEF CloseListeners, CloseAll, configVars, startVars, regVars,
           signalVars, locals
  <2>21. CASE Unlink
    BY <2>21 DEF Unlink, configVars, startVars, regVars, signalVars, locals
  <2>22. CASE UnlinkFails
    BY <2>22
       DEF UnlinkFails, configVars, startVars, netVars, regVars, signalVars
  <2>23. CASE RunCleanups
    BY <2>23
       DEF RunCleanups, CancelAll, startVars, netVars, regVars, signalVars,
           locals
  <2>24. CASE CloseQUIC
    BY <2>24
       DEF CloseQUIC, CloseAll, configVars, startVars, regVars, signalVars,
           locals
  <2>25. ASSUME NEW p \in Closers, CloseHTTP3(p)
         PROVE  ShutInv'
    <3> USE <2>25 DEF CloseHTTP3, Cut, configVars, startVars, regVars,
                  signalVars, locals
    <3>1. todo = {} /\ \A ch \in snapListeners : listener[ch] # "open"
      OBVIOUS
    <3>2. \A ch \in snapServers \ {"http3"} : down[ch] /\ Idle(ch)
      BY <3>1
    <3>3. \A ch \in snapServers : down'[ch]
      BY <3>2
    <3>4. \A ch \in snapServers : Idle(ch)'
      BY <3>2
    <3>5. \A ch \in Channels \cap {"http3"} :
              down'[ch] => ch \in servers' /\ listener'[ch] # "open"
      BY <3>1
    <3>6. QED
      BY <3>1, <3>3, <3>4, <3>5
  <2>26. QED
    BY ShutInvFrame, <2>1, <2>2, <2>3, <2>4, <2>5, <2>6, <2>7, <2>8, <2>9,
       <2>10, <2>11, <2>12, <2>13, <2>14, <2>15, <2>16, <2>17, <2>18, <2>19,
       <2>20, <2>21, <2>22, <2>23, <2>24, <2>25
       DEF ShutdownStep
<1>3. QED
  BY <1>1, <1>2, TypeCorrect, StartInvHolds, OnceInvHolds, RegInvHolds,
     DeafInvHolds, PTL DEF Spec

-----------------------------------------------------------------------------
(* The theorems.                                                           *)

\* Whichever Stop call returns, the shutdown is complete by then and stays so:
\* the listeners, connections and clean-up goroutines it found are gone
\* (server.go Stop, shutdownAll; graceful.go shutdownServers).
THEOREM StopCompletes == Spec => []StopIsComplete
<1>1. OnceInv /\ ShutInv => StopIsComplete
  BY DEF OnceInv, ShutInv, StopIsComplete, InFlight, Idle, Late
<1>2. QED
  BY <1>1, OnceInvHolds, ShutInvHolds, PTL

\* A Start that has returned leaves no listener open, and one that failed no
\* clean-up goroutine (server.go Start, closeListeners, cancelCleanup).
THEOREM StartCleansUp == Spec => []StartLeavesNothingOpen
<1>1. OpenInv /\ CleanInv => StartLeavesNothingOpen
  BY DEF OpenInv, CleanInv, StartLeavesNothingOpen
<1>2. QED
  BY <1>1, OpenInvHolds, CleanInvHolds, PTL

\* The configuration Start reads without holding mu is frozen (server.go, the
\* started test of Start and of the setters).
THEOREM ConfigIsFrozen == Spec => []ConfigFrozen
<1>1. StartInv /\ ConfigInv => ConfigFrozen
  BY DEF StartInv, ConfigInv, ConfigFrozen, Running
<1>2. QED
  BY <1>1, StartInvHolds, ConfigInvHolds, PTL

\* A shutdown without an error cut no HTTP or Unix connection (graceful.go).
THEOREM NilErrorIsHonest == Spec => []NilErrorMeansDrained
<1>1. TypeOK /\ CutInv => NilErrorMeansDrained
  BY DEF TypeOK, NetOK, CutInv, NilErrorMeansDrained
<1>2. QED
  BY <1>1, TypeCorrect, CutInvHolds, PTL

\* The readiness probe has turned to 503 when a graceful shutdown closes the
\* first listener (server.go shutdownAll, health.go).
THEOREM ReadinessTurnsFirst == Spec => ReadinessFirst
<1> DEFINE Warned ==
      \A ch \in Channels :
          listener[ch] = "open" /\ listener'[ch] = "closed" =>
              \/ shuttingDown
              \/ serving[ch] = "accepting" /\ serving'[ch] = "exited"
              \/ \E t \in Starters : starter[t] = "opening"
                                     /\ starter'[t] = "cleaning"
<1>1. ASSUME TypeOK, ReadyInv, [Next]_vars
      PROVE  Warned
  <2> USE <1>1 DEF TypeOK, NetOK, ControlOK, ReadyInv, CloseAll
  <2>1. CASE UNCHANGED <<down, listener, serving>>
    BY <2>1
  <2>2. ASSUME NEW ch \in Channels, ServeFails(ch)
        PROVE  Warned
    BY <2>2 DEF ServeFails
  <2>3. ASSUME NEW t \in Starters, Listen(t)
        PROVE  Warned
    BY <2>3, FirstIsMember DEF Listen
  <2>4. ASSUME NEW t \in Starters, ListenFails(t)
        PROVE  Warned
    BY <2>4 DEF ListenFails
  <2>5. ASSUME NEW t \in Starters, AddServer(t)
        PROVE  Warned
    BY <2>5 DEF AddServer
  <2>6. ASSUME NEW ch \in Channels, BeginServe(ch)
        PROVE  Warned
    BY <2>6 DEF BeginServe
  <2>7. ASSUME NEW ch \in Channels, EndServe(ch)
        PROVE  Warned
    BY <2>7 DEF EndServe
  <2>8. CASE ShutdownServer
    BY <2>8 DEF ShutdownServer
  <2>9. CASE CloseListeners
    BY <2>9 DEF CloseListeners
  <2>10. CASE CloseQUIC
    BY <2>10 DEF CloseQUIC
  <2>11. ASSUME NEW p \in Closers, CloseHTTP3(p)
         PROVE  Warned
    BY <2>11 DEF CloseHTTP3
  <2>12. QED
    BY DeafInvFrame, <2>1, <2>2, <2>3, <2>4, <2>5, <2>6, <2>7, <2>8, <2>9,
       <2>10, <2>11
<1>2. QED
  BY <1>1, TypeCorrect, ReadyInvHolds, PTL DEF Spec, ReadinessFirst

\* A server that has been told to shut down takes on no connection, however the
\* shutdown and the start of its Serve goroutine interleave (server.go Start,
\* shutdownAll; graceful.go shutdownServers).
THEOREM DeafAfterShutdown == Spec => NoAcceptAfterShutdown
<1> DEFINE Quiet ==
      \A c \in Conns :
          conn[c] = "none" /\ conn'[c] = "active" => ~down[on[c]]
<1>1. ASSUME TypeOK, DeafInv, ShutInv, [Next]_vars
      PROVE  Quiet
  <2> USE <1>1 DEF TypeOK, NetOK, DeafInv, ShutInv
  <2>1. CASE UNCHANGED <<conn, on, failed>>
    BY <2>1
  <2>2. ASSUME NEW c \in Conns, Accept(c)
        PROVE  Quiet
    BY <2>2 DEF Accept
  <2>3. ASSUME NEW c \in Conns, Respond(c)
        PROVE  Quiet
    BY <2>3 DEF Respond
  <2>4. ASSUME NEW t \in Starters, ListenFails(t)
        PROVE  Quiet
    BY <2>4 DEF ListenFails, Cut
  <2>5. CASE DrainExpires
    BY <2>5 DEF DrainExpires, Cut
  <2>6. CASE UnlinkFails
    BY <2>6 DEF UnlinkFails, netVars
  <2>7. ASSUME NEW p \in Closers, CloseHTTP3(p)
        PROVE  Quiet
    BY <2>7 DEF CloseHTTP3, Cut
  <2>8. QED
    BY CutInvFrame, <2>1, <2>2, <2>3, <2>4, <2>5, <2>6, <2>7
<1>2. QED
  BY <1>1, TypeCorrect, DeafInvHolds, ShutInvHolds, PTL
  DEF Spec, NoAcceptAfterShutdown
=============================================================================
