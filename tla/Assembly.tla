------------------------------ MODULE Assembly ------------------------------
(***************************************************************************)
(* From the calls an application makes to the handler a server serves:     *)
(* the middleware manager (middleware/manager.go) and what Start makes of  *)
(* it (registerBuiltinMiddleware, Build), the route groups (route.go) and  *)
(* how Start mounts their routes on the router.                            *)
(*                                                                         *)
(* All of it happens in one goroutine at a time: the setters hold the      *)
(* server's mutex and do nothing once Start has set "started", and Start   *)
(* runs on alone.  What is hard is the order of the calls, and that        *)
(* RouteGroup keeps its middleware in Go slices, which may share memory.   *)
(***************************************************************************)
EXTENDS Naturals, Sequences

CONSTANTS
    DefaultOrder,   \* the keys of the built-in middleware, in their order
    UnknownKey,     \* a key that is none of them
    Orders,         \* the orders SetMiddlewareOrder may be given
    Extras,         \* the global middleware of the application
    Handlers,       \* the middleware of routes and groups
    Methods,
    Parts,          \* the parts that prefixes and paths are put together from
    Probes,         \* the paths of the probes, in their order
    MaxCalls,       \* bound: calls before Start
    MaxOps,         \* bound: what the callbacks of the route groups do in all
    Spares          \* bound: how much more than needed append may allocate

Builtin == {DefaultOrder[i] : i \in DOMAIN DefaultOrder}
Keys == Builtin \cup {UnknownKey}

\* The built-in middleware that Start registers: the rate limiter comes with
\* EnableRateLimit.
Standard == Builtin \ {"rate_limit"}

ASSUME OrderAssumption ==
    /\ DefaultOrder \in Seq(STRING) /\ UnknownKey \in STRING \ Builtin
    /\ \A i, j \in DOMAIN DefaultOrder : DefaultOrder[i] = DefaultOrder[j] => i = j
    /\ "rate_limit" \in Builtin /\ Orders \subseteq Seq(Keys)
ASSUME PathsAssumption == Probes \in Seq(Seq(Parts)) /\ "GET" \in Methods
ASSUME BoundsAssumption == MaxCalls \in Nat /\ MaxOps \in Nat /\ Spares \subseteq Nat

VARIABLES
    phase,          \* how far Start has come
    config,         \* the switch that the configuration has for each built-in
    builtins, overrides, disabled, order, extras,   \* the fields of Manager
    mwOrder,        \* Server.mwOrder
    chain,          \* what Build returned
    calls,          \* the calls of the application: for the properties
    direct,         \* Server.routes
    entries,        \* the prefixes of the route groups that are still to come
    groups, routes, \* the groups of the callback that runs, and their routes
    heap,           \* the arrays that the slices of these lie in
    ops,            \* how much the callbacks have done
    toVisit,        \* the groups that flatten has still to visit
    toMount,        \* the routes that Start has still to mount
    mounted,        \* the routes on the router
    registered,     \* the method and path of each route of the application
    probe           \* the next probe

manager == <<builtins, overrides, disabled, order, extras, mwOrder>>
grouping == <<groups, routes, heap, ops, toVisit>>
mounting == <<entries, toMount, mounted, registered, probe>>
vars == <<phase, config, manager, chain, calls, direct, grouping, mounting>>

\* The elements of s at the positions in set, in their order (SelectSeq, as a
\* function that a proof can unfold).
Picked(s, set) ==
    LET f[i \in 0 .. Len(s)] ==
            IF i = 0 THEN <<>>
            ELSE IF i \in set THEN Append(f[i - 1], s[i]) ELSE f[i - 1]
    IN  f[Len(s)]

-----------------------------------------------------------------------------
(* Slices: a part of an array of the heap, whose length is its capacity.   *)

Nothing == "nothing"
NoSlice == [array |-> 0, len |-> 0]

Content(h, s) == IF s.array = 0 THEN <<>> ELSE SubSeq(h[s.array], 1, s.len)
Capacity(h, s) == IF s.array = 0 THEN 0 ELSE Len(h[s.array])

\* append: in place if there is room, into an array of its own otherwise.
Appended(h, s, values, spare) ==
    LET n == s.len + Len(values)
    IN  IF values = <<>> THEN [heap |-> h, slice |-> s]
        ELSE IF n <= Capacity(h, s)
        THEN [heap |-> [h EXCEPT ![s.array] = [i \in DOMAIN @ |->
                           IF i \in s.len + 1 .. n THEN values[i - s.len] ELSE @[i]]],
              slice |-> [s EXCEPT !.len = n]]
        ELSE [heap |-> Append(h, Content(h, s) \o values \o [i \in 1 .. spare |-> Nothing]),
              slice |-> [array |-> Len(h) + 1, len |-> n]]

-----------------------------------------------------------------------------
(* Plausible bugs (not part of the specification; README, Mutants).        *)

\* SetOrder takes the keys as they come.
KnownAll(keys) == keys

\* EnableMiddleware makes no exception for the rate limiter.
EnableAny(k) ==
    /\ phase = "configuring" /\ Len(calls) < MaxCalls
    /\ calls' = Append(calls, [op |-> "enable", arg |-> k])
    /\ disabled' = disabled \ {k}
    /\ UNCHANGED <<phase, config, builtins, overrides, order, extras, mwOrder, chain, direct,
                   grouping, mounting>>

\* register appends to the slice of the group itself.
RouteMiddlewareShared(h, s, values, spare) == Appended(h, s, values, spare)

-----------------------------------------------------------------------------
(* The setters.                                                            *)

MayCall == phase = "configuring" /\ Len(calls) + Len(direct) + Len(entries) < MaxCalls

Called(op, arg) ==
    /\ MayCall
    /\ calls' = Append(calls, [op |-> op, arg |-> arg])
    /\ UNCHANGED <<phase, config, chain, direct, grouping, mounting>>

UseGlobalMiddleware(e) ==
    /\ Called("use", e)
    /\ extras' = Append(extras, e)
    /\ UNCHANGED <<builtins, overrides, disabled, order, mwOrder>>

OverrideMiddleware(k) ==
    /\ Called("override", k)
    /\ overrides' = overrides \cup {k}
    /\ UNCHANGED <<builtins, disabled, order, extras, mwOrder>>

DisableMiddleware(k) ==
    /\ Called("disable", k)
    /\ disabled' = disabled \cup {k}
    /\ UNCHANGED <<builtins, overrides, order, extras, mwOrder>>

EnableMiddleware(k) ==
    /\ Called("enable", k)
    /\ disabled' = IF k = "rate_limit" THEN disabled ELSE disabled \ {k}
    /\ UNCHANGED <<builtins, overrides, order, extras, mwOrder>>

EnableRateLimit ==
    /\ Called("enable_rate_limit", "rate_limit")
    /\ builtins' = builtins \cup {"rate_limit"}
    /\ disabled' = disabled \ {"rate_limit"}
    /\ UNCHANGED <<overrides, order, extras, mwOrder>>

DisableRateLimit ==
    /\ Called("disable_rate_limit", "rate_limit")
    /\ builtins' = builtins \ {"rate_limit"}
    /\ disabled' = disabled \cup {"rate_limit"}
    /\ UNCHANGED <<overrides, order, extras, mwOrder>>

SetMiddlewareOrder(keys) ==
    /\ Called("order", keys)
    /\ mwOrder' = keys
    /\ UNCHANGED <<builtins, overrides, disabled, order, extras>>

\* RegisterRoute; a route of the application has no group.
RegisterRoute(method, path) ==
    /\ MayCall
    /\ direct' = Append(direct, [method |-> method, path |-> path, group |-> <<>>,
                                 middleware |-> <<>>, owed |-> <<>>])
    /\ registered' = registered \cup {<<method, path>>}
    /\ UNCHANGED <<phase, config, manager, chain, calls, grouping, entries, toMount, mounted,
                   probe>>

RegisterRouteGroup(prefix) ==
    /\ MayCall
    /\ entries' = Append(entries, prefix)
    /\ UNCHANGED <<phase, config, manager, chain, calls, direct, grouping, toMount, mounted,
                   registered, probe>>

-----------------------------------------------------------------------------
(* Start, up to the chain: registerBuiltinMiddleware, SetOrder, Build.     *)

Known(keys) == Picked(keys, {i \in DOMAIN keys : keys[i] \in Builtin})

OrderAfter(keys) == IF Known(keys) = <<>> THEN order ELSE Known(keys)

Entry(k) == [key |-> k, from |-> IF k \in overrides THEN "override" ELSE "builtin"]

BuildChain ==
    /\ phase = "configuring"
    /\ builtins' = builtins \cup Standard
    /\ disabled' = disabled \cup {k \in Standard : ~config[k]}
    /\ order' = OrderAfter(mwOrder)
    /\ LET runs(k) == k \notin disabled' /\ (k \in overrides \/ k \in builtins')
           kept == Picked(order', {i \in DOMAIN order' : runs(order'[i])})
       IN  chain' = [i \in DOMAIN kept |-> Entry(kept[i])]
                    \o [i \in DOMAIN extras |-> [key |-> extras[i], from |-> "extra"]]
    /\ toMount' = direct
    /\ phase' = "mounting"
    /\ UNCHANGED <<config, overrides, extras, mwOrder, calls, direct, grouping, entries,
                   mounted, registered, probe>>

-----------------------------------------------------------------------------
(* Start, the route groups: the callback of each, then flatten.            *)

StartGroup ==
    /\ phase = "mounting" /\ toMount = <<>> /\ entries # <<>>
    /\ groups' = <<[prefix |-> Head(entries), middleware |-> NoSlice, parent |-> 0,
                    owed |-> <<>>]>>
    /\ routes' = <<>> /\ heap' = <<>>
    /\ entries' = Tail(entries)
    /\ phase' = "callback"
    /\ UNCHANGED <<config, manager, chain, calls, direct, ops, toVisit, toMount, mounted,
                   registered, probe>>

Op ==
    /\ phase = "callback" /\ ops < MaxOps
    /\ ops' = ops + 1
    /\ UNCHANGED <<phase, config, manager, chain, calls, direct, toVisit, entries, toMount,
                   mounted, probe>>

\* RouteGroup.Use.
Use(g, values) ==
    /\ Op
    /\ \E spare \in Spares :
          LET a == Appended(heap, groups[g].middleware, values, spare)
          IN  /\ heap' = a.heap
              /\ groups' = [groups EXCEPT ![g].middleware = a.slice, ![g].owed = @ \o values]
    /\ UNCHANGED <<routes, registered>>

\* What register and Group start from: a copy of the middleware of the group.
RouteMiddleware(h, s, values, spare) ==
    LET copy == Appended(h, NoSlice, Content(h, s), spare)
    IN  Appended(copy.heap, copy.slice, values, spare)

\* RouteGroup.register.
Register(g, method, part, values) ==
    /\ Op
    /\ \E spare \in Spares :
          LET a == RouteMiddleware(heap, groups[g].middleware, values, spare)
          IN  /\ heap' = a.heap
              /\ routes' = Append(routes,
                    [method |-> method, path |-> Append(groups[g].prefix, part), group |-> g,
                     middleware |-> a.slice, owed |-> groups[g].owed \o values])
    /\ registered' = registered \cup {<<method, Append(groups[g].prefix, part)>>}
    /\ UNCHANGED groups

\* RouteGroup.Group.
Group(g, part) ==
    /\ Op
    /\ \E spare \in Spares :
          LET a == RouteMiddleware(heap, groups[g].middleware, <<>>, spare)
          IN  /\ heap' = a.heap
              /\ groups' = Append(groups,
                    [prefix |-> Append(groups[g].prefix, part), middleware |-> a.slice,
                     parent |-> g, owed |-> groups[g].owed])
    /\ UNCHANGED <<routes, registered>>

CallbackReturns ==
    /\ phase = "callback"
    /\ toVisit' = <<1>>
    /\ phase' = "visiting"
    /\ UNCHANGED <<config, manager, chain, calls, direct, groups, routes, heap, ops, mounting>>

Fail ==
    /\ phase' = "failed"
    /\ UNCHANGED <<config, manager, chain, calls, direct, grouping, mounting>>

\* callRouteGroupFn makes an error of a panic.
CallbackPanics == phase = "callback" /\ Fail

Children(g) == Picked([i \in DOMAIN groups |-> i],
                      {i \in DOMAIN groups : groups[i].parent = g})

\* flatten: the routes of a group, then those of each group below it.  Start
\* copies their middleware into a chain of their own.
Visit ==
    /\ phase = "visiting" /\ toVisit # <<>>
    /\ LET g == Head(toVisit)
           mine == Picked(routes, {i \in DOMAIN routes : routes[i].group = g})
       IN  /\ toMount' = toMount \o [i \in DOMAIN mine |->
                 [mine[i] EXCEPT !.group = groups[g].prefix,
                                 !.middleware = Content(heap, @)]]
           /\ toVisit' = Children(g) \o Tail(toVisit)
    /\ UNCHANGED <<phase, config, manager, chain, calls, direct, groups, routes, heap, ops,
                   entries, mounted, registered, probe>>

\* The groups go out of scope.
Flattened ==
    /\ phase = "visiting" /\ toVisit = <<>>
    /\ groups' = <<>> /\ routes' = <<>> /\ heap' = <<>>
    /\ phase' = "mounting"
    /\ UNCHANGED <<config, manager, chain, calls, direct, ops, toVisit, mounting>>

-----------------------------------------------------------------------------
(* Start, the router.  Handle refuses a second route of the same method    *)
(* and path; it may refuse any other for reasons of its own (Router).      *)

Taken(method, path) == \E r \in mounted : r.method = method /\ r.path = path

Mount ==
    /\ phase = "mounting" /\ toMount # <<>>
    /\ ~Taken(Head(toMount).method, Head(toMount).path)
    /\ mounted' = mounted \cup {Head(toMount)}
    /\ toMount' = Tail(toMount)
    /\ UNCHANGED <<phase, config, manager, chain, calls, direct, grouping, entries, registered,
                   probe>>

MountFails == phase = "mounting" /\ toMount # <<>> /\ Fail

Mounted ==
    /\ phase = "mounting" /\ toMount = <<>> /\ entries = <<>>
    /\ phase' = "probing"
    /\ UNCHANGED <<config, manager, chain, calls, direct, grouping, mounting>>

\* hasRoute looks for the path of the probe among the routes of the application,
\* whatever their method; it runs the callbacks once more, which are taken to
\* register the same.
MountProbe ==
    /\ phase = "probing" /\ probe <= Len(Probes)
    /\ probe' = probe + 1
    /\ IF \E r \in registered : r[2] = Probes[probe] THEN UNCHANGED mounted
       ELSE /\ ~Taken("GET", Probes[probe])
            /\ mounted' = mounted \cup
                  {[method |-> "GET", path |-> Probes[probe], group |-> <<>>,
                    middleware |-> <<>>, owed |-> <<>>]}
    /\ UNCHANGED <<phase, config, manager, chain, calls, direct, grouping, entries, toMount,
                   registered>>

ProbeFails == phase = "probing" /\ probe <= Len(Probes) /\ Fail

Serve ==
    /\ phase = "probing" /\ probe > Len(Probes)
    /\ phase' = "serving"
    /\ UNCHANGED <<config, manager, chain, calls, direct, grouping, mounting>>

-----------------------------------------------------------------------------
\* NewManager; the switches are those of the configuration.
Init ==
    /\ phase = "configuring"
    /\ config \in [Standard -> BOOLEAN]
    /\ builtins = {} /\ overrides = {} /\ disabled = {"rate_limit"}
    /\ order = DefaultOrder /\ extras = <<>> /\ mwOrder = <<>>
    /\ chain = <<>> /\ calls = <<>>
    /\ direct = <<>> /\ entries = <<>>
    /\ groups = <<>> /\ routes = <<>> /\ heap = <<>> /\ ops = 0
    /\ toVisit = <<>> /\ toMount = <<>>
    /\ mounted = {} /\ registered = {} /\ probe = 1

Configure ==
    \/ \E e \in Extras : UseGlobalMiddleware(e)
    \/ \E k \in Keys : OverrideMiddleware(k) \/ DisableMiddleware(k) \/ EnableMiddleware(k)
    \/ EnableRateLimit \/ DisableRateLimit
    \/ \E keys \in Orders : SetMiddlewareOrder(keys)
    \/ \E method \in Methods, part \in Parts : RegisterRoute(method, <<part>>)
    \/ \E part \in Parts : RegisterRouteGroup(<<part>>)

Values == {<<>>} \cup {<<h>> : h \in Handlers}

Callback ==
    \/ \E g \in DOMAIN groups :
          \/ \E h \in Handlers : Use(g, <<h>>)
          \/ \E method \in Methods, part \in Parts, values \in Values :
                Register(g, method, part, values)
          \/ \E part \in Parts : Group(g, part)
    \/ CallbackReturns \/ CallbackPanics

Next ==
    \/ Configure
    \/ BuildChain
    \/ StartGroup \/ Callback \/ Visit \/ Flattened
    \/ Mount \/ MountFails \/ Mounted \/ MountProbe \/ ProbeFails \/ Serve

Spec == Init /\ [][Next]_vars

-----------------------------------------------------------------------------
(* Properties.                                                             *)

Array == Seq(Handlers \cup {Nothing})
Path == Seq(Parts)
SomeSlice == [array : Nat, len : Nat]
SomeGroup == [prefix : Path, middleware : SomeSlice, parent : Nat, owed : Seq(Handlers)]
GroupRoute == [method : Methods, path : Path, group : Nat, middleware : SomeSlice,
               owed : Seq(Handlers)]
Route == [method : Methods, path : Path, group : Path, middleware : Seq(Handlers),
          owed : Seq(Handlers)]

\* A slice lies within an array that Start knows.
Lies(h, s) == s.array \in 0 .. Len(h) /\ s.len <= Capacity(h, s)

\* Every slice lies within an array, every group but the first below an earlier
\* one, and the order of the middleware holds keys of built-in ones only.
TypeOK ==
    /\ phase \in {"configuring", "callback", "visiting", "mounting", "probing", "serving",
                  "failed"}
    /\ config \in [Standard -> BOOLEAN]
    /\ builtins \subseteq Builtin /\ overrides \subseteq Keys /\ disabled \subseteq Keys
    /\ order \in Seq(Builtin) /\ extras \in Seq(Extras) /\ mwOrder \in Seq(Keys)
    /\ direct \in Seq(Route) /\ toMount \in Seq(Route) /\ mounted \subseteq Route
    /\ entries \in Seq(Path) /\ registered \subseteq Methods \X Path
    /\ heap \in Seq(Array) /\ groups \in Seq(SomeGroup) /\ routes \in Seq(GroupRoute)
    /\ \A i \in DOMAIN groups :
          groups[i].parent \in 0 .. i - 1 /\ Lies(heap, groups[i].middleware)
    /\ \A i \in DOMAIN routes :
          routes[i].group \in DOMAIN groups /\ Lies(heap, routes[i].middleware)
    /\ toVisit \in Seq(DOMAIN groups) /\ ops \in 0 .. MaxOps
    /\ probe \in 1 .. Len(Probes) + 1

\* The last call among those that have an operation of the set on k, if any.
LastCall(k, set) ==
    LET on == Picked(calls, {i \in DOMAIN calls : calls[i].op \in set /\ calls[i].arg = k})
    IN  IF on = <<>> THEN "none" ELSE on[Len(on)].op

Asked(k) ==
    IF k = "rate_limit"
    THEN LastCall(k, {"enable_rate_limit", "disable_rate_limit", "disable"}) = "enable_rate_limit"
    ELSE config[k] /\ LastCall(k, {"enable", "disable"}) # "disable"

AskedOrder ==
    LET set == Picked(calls, {i \in DOMAIN calls : calls[i].op = "order"})
        last == IF set = <<>> THEN <<>> ELSE Known(set[Len(set)].arg)
    IN  IF last = <<>> THEN DefaultOrder ELSE last

\* Once built, the chain holds just the middleware that the configuration and
\* the last call about each ask for, in the order of the last
\* SetMiddlewareOrder or else the default, a replacement where there was one,
\* then the application's own as they were added; the rate limiter only if
\* EnableRateLimit was called and nobody disabled it since, whatever was
\* enabled, overridden or ordered before or after.  The order is also a
\* selection: middleware that is asked for but that SetMiddlewareOrder does not
\* list is dropped, and what it lists twice is installed twice (Manager,
\* registerBuiltinMiddleware, Build).
ChainIsAsked ==
    phase # "configuring" =>
        LET keys == Picked(AskedOrder, {i \in DOMAIN AskedOrder : Asked(AskedOrder[i])})
            added == Picked(calls, {i \in DOMAIN calls : calls[i].op = "use"})
            from(k) == IF LastCall(k, {"override"}) = "none" THEN "builtin" ELSE "override"
        IN  chain = [i \in DOMAIN keys |-> [key |-> keys[i], from |-> from(keys[i])]]
                    \o [i \in DOMAIN added |-> [key |-> added[i].arg, from |-> "extra"]]

\* Each route is mounted with the middleware its group had when the route was
\* registered, then its own, whatever other routes, groups and later calls of Use
\* did to memory they may share; and a server that serves has every route of every
\* group mounted, however deep (register, Use, Group, flatten).  So the test at
\* route_test.go:52-56 wants it, which calls Use after a route and says that it
\* must not affect it; the comment of Use (route.go:77) says that it does, see
\* UseReachesRegistered.
RoutesKeepTheirMiddleware ==
    /\ \A r \in mounted : r.middleware = r.owed
    /\ phase = "serving" =>
          \A r \in registered : \E x \in mounted : x.method = r[1] /\ x.path = r[2]

\* What Use adds to a group reaches all routes of the group, those registered
\* before it as well: when flatten sets out, each route has all the middleware
\* that its group was given (the comment of Use, route.go:77).  The code has it
\* otherwise: the run on AssemblyUse.cfg.
UseReachesRegistered ==
    phase = "visiting" =>
        \A i \in DOMAIN routes :
            LET mine == Content(heap, routes[i].middleware)
                given == groups[routes[i].group].owed
            IN  \A j \in DOMAIN given : \E n \in DOMAIN mine : mine[n] = given[j]
=============================================================================
