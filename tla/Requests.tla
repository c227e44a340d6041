------------------------------ MODULE Requests ------------------------------
(***************************************************************************)
(* Concurrent requests on what they share: the pool of Contexts of         *)
(* internal/core/context.go, the pool of parameter buffers of router.go    *)
(* and the counters of middleware/metrics.go.  A request takes a Context   *)
(* (injectContext), is counted (MetricsHandler), borrows a buffer for its  *)
(* parameters (Router.ServeHTTP), runs a chain of handlers (Run, Next) and *)
(* gives everything back in the reverse order, in deferred functions.      *)
(*                                                                         *)
(* Each request is served by a goroutine of its own and is over when that  *)
(* ends.  An action is what a goroutine does between two points at which   *)
(* another one can notice it.                                              *)
(*                                                                         *)
(* Left out is what comes between these layers.  A middleware outside of   *)
(* MetricsHandler may answer itself (413, 429, 503): such a request takes  *)
(* a Context, gives it back and is counted nowhere.  A global middleware   *)
(* of the application between MetricsHandler and the router may answer,    *)
(* panic or recover before the router is reached: here the handlers of a   *)
(* chain do.  The probes are handlers behind nothing, as a fallback is.    *)
(***************************************************************************)
EXTENDS Integers, Sequences, FiniteSets

CONSTANTS
    Requests,
    Contexts,       \* the places in memory a Context can have
    Buffers,        \* the places a buffer of parameters can have
    Targets,        \* what the router can find for a request
    Statuses,       \* the classes of status an application answers with
    MaxIndex,       \* bound: where a handler stops calling Next
    None            \* no context, no buffer, no target

\* A route is found, with its chain of handlers, one of which is the handler
\* that Start puts in front; or a fallback, a single handler; or what needs no
\* chain: a static file, a redirect, the automatic answer to OPTIONS.
Target == [kind : {"route", "fallback", "direct"}, path : STRING, group : STRING,
           named : BOOLEAN, size : Nat]

ASSUME RequestsAssumption == IsFiniteSet(Requests)
ASSUME TargetsAssumption ==
    /\ Targets \subseteq Target
    /\ \A t \in Targets :
          /\ t.kind = "route" => t.size >= 2 /\ t.path # ""
          /\ t.kind # "route" => t.path = "" /\ t.group = "" /\ ~t.named
          /\ t.kind = "fallback" => t.size = 1
          /\ t.kind = "direct" => t.size = 0
ASSUME StatusesAssumption == Statuses \subseteq 1 .. 5
ASSUME MaxIndexAssumption == MaxIndex \in Nat
ASSUME NoneAssumption == None \notin Contexts \cup Buffers \cup Targets \cup Requests

VARIABLES
    at,             \* where each request is
    ctx, buf,       \* the context and the buffer it has in its hands
    target,         \* what the router has found for it
    stack,          \* the handlers it is in, outermost first
    panics,         \* whether it unwinds because of a panic
    scope, stat,    \* which statistics it records, and their counters
    context,        \* the fields of each Context
    content,        \* whose parameters each buffer holds
    ctxPool, bufPool,
    m,              \* the counters of Metrics
    table,          \* the counters filed for each route and group
    counted,        \* the number in each of them
    did             \* what the handlers of each request did: for the properties

local == <<at, ctx, buf, target, stack, panics, scope, stat>>
pools == <<context, content, ctxPool, bufPool>>
metrics == <<m, table, counted>>
vars == <<local, pools, metrics, did>>

-----------------------------------------------------------------------------
Reset(q) == [request |-> q, params |-> None, route |-> "", group |-> "",
             handlers |-> None, index |-> -1, aborted |-> FALSE, status |-> 0]

Mine(r) == context[ctx[r]]

Size(c) == IF c.handlers = None THEN 0 ELSE c.handlers.size

Goto(r, where) == at' = [at EXCEPT ![r] = where]

\* StatusCode: a handler that sets no status answers with 200.
StatusCode(c) == IF c.status = 0 THEN 2 ELSE c.status

-----------------------------------------------------------------------------
(* Plausible bugs (not part of the specification; README, Mutants).        *)

\* A Context from the pool is used as it is.
AcquireDirty(r) ==
    /\ at[r] = "away"
    /\ \E c \in Contexts :
          /\ c \in ctxPool \/ \A q \in Requests : ctx[q] # c
          /\ ctxPool' = ctxPool \ {c}
          /\ ctx' = [ctx EXCEPT ![r] = c]
          /\ context' = [context EXCEPT ![c].request = r]
    /\ Goto(r, "acquired")
    /\ UNCHANGED <<buf, target, stack, panics, scope, stat, content, bufPool, metrics, did>>

\* The buffer is given back in a statement, not in a deferred function.
PutBufferNotDeferred(r) ==
    /\ at[r] = "ran"
    /\ IF panics[r] THEN UNCHANGED <<buf, bufPool>>
       ELSE /\ bufPool' = bufPool \cup {buf[r]}
            /\ buf' = [buf EXCEPT ![r] = None]
    /\ Goto(r, "returned")
    /\ UNCHANGED <<ctx, target, stack, panics, scope, stat, context, content, ctxPool,
                   metrics, did>>

\* Only the loop moves the index.
NextWithoutIndex(r) ==
    /\ at[r] = "handler" /\ stack[r][Len(stack[r])] > 0 /\ target[r].kind = "route"
    /\ Mine(r).index < MaxIndex
    /\ Goto(r, "loop")
    /\ UNCHANGED <<ctx, buf, target, stack, panics, scope, stat, pools, metrics, did>>

\* Store for LoadOrStore: the second first request replaces the counters.
StoreAnyway(r) ==
    LET key == <<scope[r], IF scope[r] = "route" THEN Mine(r).route ELSE Mine(r).group>>
    IN  /\ at[r] = "store"
        /\ table' = [k \in DOMAIN table \cup {key} |-> IF k = key THEN r ELSE table[k]]
        /\ stat' = [stat EXCEPT ![r] = r]
        /\ Goto(r, "add")
        /\ UNCHANGED <<ctx, buf, target, stack, panics, scope, pools, m, counted, did>>

-----------------------------------------------------------------------------
(* The way in.                                                             *)

\* Acquire: the pool has a used Context or makes one; either is reset.
Acquire(r) ==
    /\ at[r] = "away"
    /\ \E c \in Contexts :
          /\ c \in ctxPool \/ \A q \in Requests : ctx[q] # c
          /\ ctxPool' = ctxPool \ {c}
          /\ ctx' = [ctx EXCEPT ![r] = c]
          /\ context' = [context EXCEPT ![c] = Reset(r)]
    /\ Goto(r, "acquired")
    /\ UNCHANGED <<buf, target, stack, panics, scope, stat, content, bufPool, metrics, did>>

\* MetricsHandler, before it calls on.
CountIn(r) ==
    /\ at[r] = "acquired"
    /\ m' = [m EXCEPT !.requests = @ + 1, !.inFlight = @ + 1]
    /\ Goto(r, "counted")
    /\ UNCHANGED <<ctx, buf, target, stack, panics, scope, stat, pools, table, counted, did>>

\* ServeHTTP takes a buffer; lookup writes the parameters of the path into it.
Match(r) ==
    /\ at[r] = "counted"
    /\ \E b \in Buffers, t \in Targets :
          /\ b \in bufPool \/ \A q \in Requests : buf[q] # b
          /\ bufPool' = bufPool \ {b}
          /\ buf' = [buf EXCEPT ![r] = b]
          /\ content' = [content EXCEPT ![b] = r]
          /\ target' = [target EXCEPT ![r] = t]
    /\ Goto(r, "matched")
    /\ UNCHANGED <<ctx, stack, panics, scope, stat, context, ctxPool, metrics, did>>

\* The handler that wrapRequestHandler has made, or runFallback.
Dispatch(r) ==
    /\ at[r] = "matched"
    /\ target[r].kind # "direct"
    /\ context' = [context EXCEPT ![ctx[r]] =
          [Mine(r) EXCEPT !.request = r,
                          !.params = IF target[r].named THEN buf[r] ELSE Mine(r).params,
                          !.handlers = target[r],
                          !.index = 0]]
    /\ Goto(r, "loop")
    /\ UNCHANGED <<ctx, buf, target, stack, panics, scope, stat, content, ctxPool, bufPool,
                   metrics, did>>

AnswerDirectly(r) ==
    /\ at[r] = "matched"
    /\ target[r].kind = "direct"
    /\ Goto(r, "ran")
    /\ UNCHANGED <<ctx, buf, target, stack, panics, scope, stat, pools, metrics, did>>

-----------------------------------------------------------------------------
(* The chain.  The loop of Next runs for whoever called it last, the       *)
(* innermost handler; all the loops share the index of the Context.        *)

Starts(r) == did' = [did EXCEPT ![r].started = Append(@, Mine(r).index)]

\* The loop calls the handler that Start has put in front of a route, which
\* names the route and calls Next.
CallFirst(r) ==
    /\ at[r] = "loop"
    /\ Mine(r).index < Size(Mine(r)) /\ ~Mine(r).aborted
    /\ Mine(r).index = 0 /\ Mine(r).handlers.kind = "route"
    /\ stack' = [stack EXCEPT ![r] = Append(@, 0)]
    /\ context' = [context EXCEPT ![ctx[r]] =
          [Mine(r) EXCEPT !.route = Mine(r).handlers.path,
                          !.group = Mine(r).handlers.group,
                          !.index = Mine(r).index + 1]]
    /\ Starts(r)
    /\ UNCHANGED <<at, ctx, buf, target, panics, scope, stat, content, ctxPool, bufPool, metrics>>

Call(r) ==
    /\ at[r] = "loop"
    /\ Mine(r).index < Size(Mine(r)) /\ ~Mine(r).aborted
    /\ Mine(r).index > 0 \/ Mine(r).handlers.kind = "fallback"
    /\ stack' = [stack EXCEPT ![r] = Append(@, Mine(r).index)]
    /\ Starts(r)
    /\ Goto(r, "handler")
    /\ UNCHANGED <<ctx, buf, target, panics, scope, stat, pools, metrics>>

\* Next returns to the handler that called it, or Run to the router.
LeaveLoop(r) ==
    /\ at[r] = "loop"
    /\ Mine(r).index >= Size(Mine(r)) \/ Mine(r).aborted
    /\ Goto(r, IF stack[r] = <<>> THEN "ran" ELSE "handler")
    /\ UNCHANGED <<ctx, buf, target, stack, panics, scope, stat, pools, metrics, did>>

Innermost(r) == stack[r][Len(stack[r])]

\* What the innermost handler does next is up to the application, except in the
\* handler in front.
Applied(r) ==
    /\ at[r] = "handler"
    /\ Innermost(r) > 0 \/ target[r].kind = "fallback"

Next_(r) ==
    /\ Applied(r) /\ target[r].kind = "route"
    /\ Mine(r).index < MaxIndex
    /\ context' = [context EXCEPT ![ctx[r]].index = @ + 1]
    /\ Goto(r, "loop")
    /\ UNCHANGED <<ctx, buf, target, stack, panics, scope, stat, content, ctxPool, bufPool,
                   metrics, did>>

Abort(r) ==
    /\ Applied(r) /\ ~Mine(r).aborted
    /\ context' = [context EXCEPT ![ctx[r]].aborted = TRUE]
    /\ did' = [did EXCEPT ![r].aborted = Len(did[r].started)]
    /\ UNCHANGED <<local, content, ctxPool, bufPool, metrics>>

Respond(r, status) ==
    /\ Applied(r) /\ Mine(r).status = 0
    /\ context' = [context EXCEPT ![ctx[r]].status = status]
    /\ did' = [did EXCEPT ![r].status = status]
    /\ UNCHANGED <<local, content, ctxPool, bufPool, metrics>>

\* A handler returns to the loop that called it.
Return(r) ==
    /\ at[r] = "handler"
    /\ stack' = [stack EXCEPT ![r] = SubSeq(@, 1, Len(@) - 1)]
    /\ context' = [context EXCEPT ![ctx[r]].index = @ + 1]
    /\ Goto(r, "loop")
    /\ UNCHANGED <<ctx, buf, target, panics, scope, stat, content, ctxPool, bufPool, metrics, did>>

\* Another handler of the application further out recovers; nothing puts the
\* index back.
PanicRecovered(r) ==
    /\ Applied(r)
    /\ \E i \in 1 .. Len(stack[r]) - 1 :
          /\ stack[r][i] > 0
          /\ stack' = [stack EXCEPT ![r] = SubSeq(@, 1, i)]
    /\ UNCHANGED <<at, ctx, buf, target, panics, scope, stat, pools, metrics, did>>

Panic(r) ==
    /\ Applied(r)
    /\ stack' = [stack EXCEPT ![r] = <<>>]
    /\ panics' = [panics EXCEPT ![r] = TRUE]
    /\ Goto(r, "ran")
    /\ UNCHANGED <<ctx, buf, target, scope, stat, pools, metrics, did>>

-----------------------------------------------------------------------------
(* The way out, in deferred functions.                                     *)

\* ServeHTTP gives its buffer back.
PutBuffer(r) ==
    /\ at[r] = "ran"
    /\ bufPool' = bufPool \cup {buf[r]}
    /\ buf' = [buf EXCEPT ![r] = None]
    /\ Goto(r, "returned")
    /\ UNCHANGED <<ctx, target, stack, panics, scope, stat, context, content, ctxPool,
                   metrics, did>>

\* A panic counts as 500, whatever was answered before.
Class(r) == IF panics[r] THEN 5 ELSE StatusCode(Mine(r))

\* MetricsHandler, to the call of recordRoute.  The counters are added to one
\* by one, which only a snapshot could tell from all at once.
CountOut(r) ==
    /\ at[r] = "returned"
    /\ m' = [m EXCEPT !.inFlight = @ - 1,
                      !.samples = @ + 1,
                      !.class[Class(r)] = @ + 1,
                      !.errors = IF Class(r) = 5 THEN @ + 1 ELSE @,
                      !.protocols = IF panics[r] THEN @ ELSE @ + 1]
    /\ scope' = [scope EXCEPT ![r] = "route"]
    /\ Goto(r, "load")
    /\ UNCHANGED <<ctx, buf, target, stack, panics, stat, pools, table, counted, did>>

Key(r) == <<scope[r], IF scope[r] = "route" THEN Mine(r).route ELSE Mine(r).group>>

\* recordRoute goes on from the route to the group, and from there home.
Advance(r) ==
    /\ scope' = [scope EXCEPT ![r] = "group"]
    /\ Goto(r, IF scope[r] = "route" THEN "load" ELSE "recorded")

Unnamed(r) ==
    /\ at[r] = "load" /\ Key(r)[2] = ""
    /\ Advance(r)
    /\ UNCHANGED <<ctx, buf, target, stack, panics, stat, pools, metrics, did>>

\* routeStat and groupStat: Load, and LoadOrStore of new counters on a miss.
LoadHit(r) ==
    /\ at[r] = "load" /\ Key(r)[2] # ""
    /\ Key(r) \in DOMAIN table
    /\ stat' = [stat EXCEPT ![r] = table[Key(r)]]
    /\ Goto(r, "add")
    /\ UNCHANGED <<ctx, buf, target, stack, panics, scope, pools, metrics, did>>

LoadMiss(r) ==
    /\ at[r] = "load" /\ Key(r)[2] # ""
    /\ Key(r) \notin DOMAIN table
    /\ Goto(r, "store")
    /\ UNCHANGED <<ctx, buf, target, stack, panics, scope, stat, pools, metrics, did>>

\* New counters are called after the request that makes them.
LoadOrStore(r) ==
    /\ at[r] = "store"
    /\ table' = IF Key(r) \in DOMAIN table THEN table
                ELSE [k \in DOMAIN table \cup {Key(r)} |->
                        IF k = Key(r) THEN r ELSE table[k]]
    /\ stat' = [stat EXCEPT ![r] = table'[Key(r)]]
    /\ Goto(r, "add")
    /\ UNCHANGED <<ctx, buf, target, stack, panics, scope, pools, m, counted, did>>

Add(r) ==
    /\ at[r] = "add"
    /\ counted' = [counted EXCEPT ![scope[r]][stat[r]] =
          [requests |-> @.requests + 1,
           errors |-> IF Class(r) = 5 THEN @.errors + 1 ELSE @.errors]]
    /\ Advance(r)
    /\ UNCHANGED <<ctx, buf, target, stack, panics, stat, pools, m, table, did>>

\* injectContext gives the Context back as it is.
Release(r) ==
    /\ at[r] = "recorded"
    /\ ctxPool' = ctxPool \cup {ctx[r]}
    /\ ctx' = [ctx EXCEPT ![r] = None]
    /\ Goto(r, "done")
    /\ UNCHANGED <<buf, target, stack, panics, scope, stat, context, content, bufPool, metrics, did>>
-----------------------------------------------------------------------------
Scopes == {"route", "group"}

Init ==
    /\ at = [r \in Requests |-> "away"]
    /\ ctx = [r \in Requests |-> None] /\ buf = [r \in Requests |-> None]
    /\ target = [r \in Requests |-> None]
    /\ stack = [r \in Requests |-> <<>>] /\ panics = [r \in Requests |-> FALSE]
    /\ scope = [r \in Requests |-> "route"] /\ stat = [r \in Requests |-> None]
    /\ context = [c \in Contexts |-> Reset(None)] /\ content = [b \in Buffers |-> None]
    /\ ctxPool = {} /\ bufPool = {}
    /\ m = [requests |-> 0, inFlight |-> 0, samples |-> 0, errors |-> 0, protocols |-> 0,
            class |-> [k \in 1 .. 5 |-> 0]]
    /\ table = [k \in {} |-> None]
    /\ counted = [s \in Scopes |-> [r \in Requests |-> [requests |-> 0, errors |-> 0]]]
    /\ did = [r \in Requests |-> [started |-> <<>>, aborted |-> 0, status |-> 0]]

Chain(r) ==
    \/ CallFirst(r) \/ Call(r) \/ LeaveLoop(r) \/ Next_(r) \/ Abort(r) \/ Return(r)
    \/ PanicRecovered(r) \/ Panic(r)
    \/ \E status \in Statuses : Respond(r, status)

Step(r) ==
    \/ Acquire(r) \/ CountIn(r) \/ Match(r) \/ Dispatch(r) \/ AnswerDirectly(r)
    \/ Chain(r)
    \/ PutBuffer(r) \/ CountOut(r)
    \/ Unnamed(r) \/ LoadHit(r) \/ LoadMiss(r) \/ LoadOrStore(r) \/ Add(r)
    \/ Release(r)

Next == \E r \in Requests : Step(r)

Spec == Init /\ [][Next]_vars

-----------------------------------------------------------------------------
(* Properties.                                                             *)

Places == {"away", "acquired", "counted", "matched", "loop", "handler", "ran", "returned",
           "load", "store", "add", "recorded", "done"}
Holds == Places \ {"away", "done"}
Routed == {"matched", "loop", "handler", "ran"}

Names == {t.path : t \in Targets} \cup {t.group : t \in Targets} \cup {""}

Context == [request : Requests \cup {None}, params : Buffers \cup {None}, route : Names,
            group : Names, handlers : Targets \cup {None}, index : Int, aborted : BOOLEAN,
            status : 0 .. 5]

Metrics == [requests : Int, inFlight : Int, samples : Int, errors : Int, protocols : Int,
            class : [1 .. 5 -> Int]]

\* Whoever is between Acquire and Release has a Context, whoever is in the router
\* a buffer, whoever is past it a target; nobody else has any.
TypeOK ==
    /\ at \in [Requests -> Places]
    /\ \A r \in Requests :
          /\ ctx[r] \in IF at[r] \in Holds THEN Contexts ELSE {None}
          /\ buf[r] \in IF at[r] \in Routed THEN Buffers ELSE {None}
          /\ target[r] \in IF at[r] \in {"away", "acquired", "counted"} THEN {None}
                            ELSE Targets
    /\ stack \in [Requests -> Seq(Nat)] /\ panics \in [Requests -> BOOLEAN]
    /\ \A r \in Requests : at[r] = "handler" => stack[r] # <<>>
    /\ scope \in [Requests -> Scopes] /\ stat \in [Requests -> Requests \cup {None}]
    /\ \A r \in Requests : at[r] = "add" => stat[r] # None
    /\ context \in [Contexts -> Context] /\ content \in [Buffers -> Requests \cup {None}]
    /\ ctxPool \subseteq Contexts /\ bufPool \subseteq Buffers
    /\ m \in Metrics
    /\ DOMAIN table \subseteq Scopes \X (Names \ {""})
    /\ \A k \in DOMAIN table : table[k] \in Requests
    /\ counted \in [Scopes -> [Requests -> [requests : Nat, errors : Nat]]]
    /\ did \in [Requests -> [started : Seq(Nat), aborted : Nat, status : 0 .. 5]]

\* No two requests have the same Context or the same buffer, and none of those in
\* use is in a pool: a request finds its Context as Reset leaves it (Acquire),
\* and its handlers find their own request, chain and route in it, and the
\* parameters of their own path, or none if the route has none (ServeHTTP,
\* wrapRequestHandler); whatever panics on the way out.
ScopesAreApart ==
    /\ \A q, r \in Requests :
          q # r => /\ ctx[q] = ctx[r] => ctx[q] = None
                   /\ buf[q] = buf[r] => buf[q] = None
    /\ \A r \in Requests :
          /\ ctx[r] \notin ctxPool /\ buf[r] \notin bufPool
          /\ at[r] \in {"acquired", "counted", "matched"} => Mine(r) = Reset(r)
          /\ at[r] \in {"loop", "handler"} =>
                /\ Mine(r).request = r /\ Mine(r).handlers = target[r]
                /\ Mine(r).params = IF target[r].named THEN buf[r] ELSE None
                /\ content[buf[r]] = r
          /\ at[r] = "handler" => Mine(r).route = target[r].path
                                 /\ Mine(r).group = target[r].group

\* The handlers of a request start in the order of the chain, each once and none
\* left out, however often they call Next and whoever recovers from whose panic;
\* none starts after an Abort; without one, and without a panic, all have run
\* when the chain is over (Run, Next, Abort).
ChainInOrder ==
    \A r \in Requests :
        LET started == did[r].started
        IN  /\ started = [i \in 1 .. Len(started) |-> i - 1]
            /\ did[r].aborted # 0 => Len(started) = did[r].aborted
            /\ at[r] = "ran" /\ ~panics[r] /\ did[r].aborted = 0 =>
                  Len(started) = target[r].size

\* What a request comes to in the end.
Outcome(r) == IF panics[r] THEN 5 ELSE IF did[r].status = 0 THEN 2 ELSE did[r].status

Counted == {r \in Requests : at[r] \notin {"away", "acquired"}}
Out == {r \in Requests : at[r] \in {"load", "store", "add", "recorded", "done"}}
Recorded(s) == {r \in Out : at[r] \in {"recorded", "done"} \/ (s = "route" /\ scope[r] = "group")}
NameIn(s, r) == IF s = "route" THEN target[r].path ELSE target[r].group

\* Whoever is answered past its Context, whose status the counters do not know.
Direct == {r \in Out : target[r].kind = "direct"}

\* Every request is counted once, while it runs and afterwards: in one class, that
\* of the status its own handlers set, or of an error if it panicked; in one
\* protocol at most; and once for its own route and group, where two first requests end in
\* the same counters (MetricsHandler, recordRoute, routeStat, groupStat).  Nothing
\* is said of the class of what is answered past the Context, whose status metrics
\* take for 200, nor of the protocol of what panics, which the comments of
\* ProtocolStats count and the code does not (README, Findings).
CountsAddUp ==
    /\ m.requests = Cardinality(Counted)
    /\ m.inFlight = Cardinality(Counted \ Out)
    /\ m.samples = Cardinality(Out)
    /\ m.class[1] + m.class[2] + m.class[3] + m.class[4] + m.class[5] = Cardinality(Out)
    /\ \A k \in 1 .. 5 :
          LET known == Cardinality({r \in Out \ Direct : Outcome(r) = k})
          IN  m.class[k] \in known .. known + Cardinality(Direct)
    /\ m.errors = m.class[5]
    /\ m.protocols \in Cardinality({r \in Out : ~panics[r]}) .. Cardinality(Out)
    /\ \A s \in Scopes : \A r \in Recorded(s) :
          NameIn(s, r) # "" => <<s, NameIn(s, r)>> \in DOMAIN table
    /\ \A k \in DOMAIN table :
          LET here == {r \in Recorded(k[1]) : NameIn(k[1], r) = k[2]}
          IN  /\ counted[k[1]][table[k]].requests = Cardinality(here)
              /\ counted[k[1]][table[k]].errors = Cardinality({r \in here : Outcome(r) = 5})
=============================================================================
