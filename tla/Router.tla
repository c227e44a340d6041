------------------------------- MODULE Router -------------------------------
(***************************************************************************)
(* The matching tree of router.go: what Handle and HandleStatic accept,    *)
(* how lookup walks the tree for the path of a request, and what ServeHTTP *)
(* answers.                                                                *)
(*                                                                         *)
(* A node of the tree is the sequence of keys that leads to it: literal    *)
(* segments, "param" and "wild".  A path is its segments and the slashes   *)
(* after the last one, where two stand for any larger number: nextSegment  *)
(* skips the slashes before a segment, so nothing else of the text counts. *)
(* The value of a parameter is the slice of the path's segments it is.     *)
(***************************************************************************)
EXTENDS Integers, Sequences

CONSTANTS
    Segs,           \* the segments of paths, and the literals of patterns
    Names,          \* the names of parameters
    Patterns,       \* the patterns given to Handle, as sequences of parts
    Prefixes,       \* the prefixes given to HandleStatic
    Paths,          \* the paths of requests: [segs, tail]
    Methods,        \* the methods of requests and routes
    MaxRoutes       \* bound: how many registrations are accepted

\* A part is what stands between two slashes of a pattern: a literal, a literal
\* with ":n" in it, ":n", "*n", "{n}", "{n...}", or a ':' or '*' before no name.
\* HandleStatic does not translate: to it a ':' or '*' is a part of a literal.
Text == [kind : {"literal", "mixed"}, name : Segs]
Braces == [kind : {"braces", "dots"}, name : Names]
Part == Text \cup Braces \cup [kind : {"colon", "star", "illegal"}, name : Names]

ASSUME SegsAssumption == {"", "param", "wild", "none"} \cap Segs = {}
ASSUME NamesAssumption == "" \notin Names
ASSUME PatternsAssumption == Patterns \subseteq Seq(Part)
ASSUME PrefixesAssumption == Prefixes \subseteq Seq(Text \cup Braces)
ASSUME PathsAssumption == \A p \in Paths : p \in [segs : Seq(Segs), tail : 0 .. 2]
ASSUME MethodsAssumption == {"GET", "HEAD", "OPTIONS"} \subseteq Methods /\ "" \notin Methods
ASSUME MaxRoutesAssumption == MaxRoutes \in Nat

VARIABLES
    tree,           \* the nodes: [name, handlers, subtree] at each sequence of keys
    accepted,       \* how many registrations were accepted
    verdict,        \* what the last registration returned
    at,             \* where the request is
    path,           \* the path that is walked
    again,          \* whether this is the second walk, with a slash added
    cur, idx,       \* the node and the place in the path that lookup has reached
    best,           \* the static subtree that lookup would fall back on
    params,         \* the parameters it has collected
    answer          \* what ServeHTTP did

registry == <<tree, accepted, verdict>>
request == <<at, path, again, cur, idx, best, params, answer>>
vars == <<registry, request>>

-----------------------------------------------------------------------------
(* Registration.                                                           *)

\* translateGinPattern: a name must be one, and a "*n" must be the last part.
Translates(pattern) ==
    \A i \in DOMAIN pattern :
        /\ pattern[i].kind # "illegal"
        /\ pattern[i].kind = "star" => i = Len(pattern)

\* The parameters that translateGinPattern finds are written with ':' or '*'.
Named(pattern) == \E i \in DOMAIN pattern : pattern[i].kind \in {"mixed", "colon", "star"}

\* A plausible bug (README, Mutants): the error of parsePattern is ignored.
ParsesAnyway(pattern) == TRUE

\* parsePattern: a wildcard must be the last segment.
Parses(pattern) ==
    \A i \in DOMAIN pattern : pattern[i].kind \in {"star", "dots"} => i = Len(pattern)

Key(part) ==
    CASE part.kind \in {"colon", "braces"} -> "param"
      [] part.kind \in {"star", "dots"} -> "wild"
      [] OTHER -> part.name

Place(segments) == [i \in DOMAIN segments |-> Key(segments[i])]

Up(node, i) == SubSeq(node, 1, i)

Nobody == [method |-> "", pattern |-> <<>>, subtree |-> FALSE]
NoHandlers == [m \in Methods |-> Nobody]

\* The segments whose node bears another name: insert stops at the first one.
Clashes(t, segments) ==
    {i \in DOMAIN segments :
        /\ Key(segments[i]) \in {"param", "wild"}
        /\ Up(Place(segments), i) \in DOMAIN t
        /\ t[Up(Place(segments), i)].name # segments[i].name}

\* The tree with the nodes that insert makes before it stops.
Grown(t, segments) ==
    LET reached == {i \in 0 .. Len(segments) : \A c \in Clashes(t, segments) : i < c}
    IN  [node \in DOMAIN t \cup {Up(Place(segments), i) : i \in reached} |->
            IF node \in DOMAIN t THEN t[node]
            ELSE [name |-> segments[Len(node)].name,
                  handlers |-> NoHandlers, subtree |-> FALSE]]

\* A plausible bug: the kinds of routes clash in one order only.
FitsOneWay(t, segments, method, subtree) ==
    /\ Clashes(t, segments) = {}
    /\ LET node == Grown(t, segments)[Place(segments)]
       IN  /\ node.handlers[method] = Nobody
           /\ node.handlers # NoHandlers => (node.subtree => subtree)

Fits(t, segments, method, subtree) ==
    /\ Clashes(t, segments) = {}
    /\ LET node == Grown(t, segments)[Place(segments)]
       IN  /\ node.handlers[method] = Nobody
           /\ node.handlers # NoHandlers => node.subtree = subtree

Having(node, handler) ==
    [node EXCEPT !.handlers[handler.method] = handler,
                 !.subtree = node.subtree \/ handler.subtree]

\* insert returns an error, or nil after adding the handler; the nodes it has
\* made on the way stay.
Inserted(t, segments, handler) ==
    LET grown == Grown(t, segments)
        place == Place(segments)
    IN  IF Fits(t, segments, handler.method, handler.subtree)
        THEN [grown EXCEPT ![place] = Having(grown[place], handler)]
        ELSE grown

Record(ok) ==
    /\ accepted' = IF ok THEN accepted + 1 ELSE accepted
    /\ verdict' = IF ok THEN "accepted" ELSE "refused"

\* Handle drops the error of parsePattern: a pattern that does not parse has no
\* segments.
Handle(method, pattern) ==
    LET segments == IF Parses(pattern) THEN pattern ELSE <<>>
        handler == [method |-> method, pattern |-> pattern, subtree |-> FALSE]
    IN  /\ at = "idle" /\ accepted < MaxRoutes
        /\ IF Translates(pattern) /\ method # ""
           THEN /\ tree' = Inserted(tree, segments, handler)
                /\ Record(Fits(tree, segments, method, FALSE))
           ELSE tree' = tree /\ Record(FALSE)
        /\ UNCHANGED request

\* HandleStatic inserts its handler twice, and stops at an error.
HandleStatic(prefix) ==
    LET handler(m) == [method |-> m, pattern |-> prefix, subtree |-> TRUE]
        fits == Fits(tree, prefix, "GET", TRUE)
        first == Inserted(tree, prefix, handler("GET"))
    IN  /\ at = "idle" /\ accepted < MaxRoutes
        /\ IF ~Parses(prefix)
           THEN tree' = tree /\ Record(FALSE)
           ELSE IF ~fits
           THEN tree' = first /\ Record(FALSE)
           ELSE /\ tree' = Inserted(first, prefix, handler("HEAD"))
                /\ Record(Fits(first, prefix, "HEAD", TRUE))
        /\ UNCHANGED request

-----------------------------------------------------------------------------
(* lookup, one action for each way an iteration of its loop can end.       *)

None == <<"none">>      \* no node: no key is called so
Unanswered == [kind |-> "none", method |-> "", handler |-> Nobody, params |-> <<>>,
               allow |-> {}]

NoPath == [segs |-> <<>>, tail |-> 0]

Slashed(p) == p.tail > 0
Size == Len(path.segs)
AtEnd == idx = Size + 1

\* A path without a character left to read is at its end, a slash or more that
\* nextSegment will skip is not.
Beyond(p, i) == IF i < Len(p.segs) \/ (i = Len(p.segs) /\ p.tail = 2) THEN i
                ELSE Len(p.segs) + 1
Start(p) == IF p.segs = <<>> /\ p.tail = 0 THEN 1 ELSE 0

Seg == IF idx < Size THEN path.segs[idx + 1] ELSE ""

Child(key) == Append(cur, key)
Has(key) == Child(key) \in DOMAIN tree

\* Plausible bugs: the subtree is forgotten where the path goes on; the end of
\* the path is the end of any route.
BestAtEnd == IF tree[cur].subtree /\ Slashed(path) THEN cur ELSE best
ExactAnyway == tree[cur].handlers # NoHandlers

Best == IF tree[cur].subtree /\ (~AtEnd \/ Slashed(path)) THEN cur ELSE best

\* The end of the path is the end of a route with or without a slash.
Exact == tree[cur].handlers # NoHandlers /\ tree[cur].subtree = Slashed(path)

Leave(where, node) ==
    /\ at' = where /\ cur' = node
    /\ best' = Best
    /\ UNCHANGED <<registry, path, again, idx, answer>>

FallBack ==
    /\ IF Best = None THEN Leave("missed", cur) ELSE Leave("found", Best)
    /\ UNCHANGED params

EndExact == AtEnd /\ Exact /\ Leave("found", cur) /\ UNCHANGED params

EndWild ==
    /\ AtEnd /\ ~Exact /\ Has("wild") /\ Slashed(path)
    /\ params' = Append(params, [name |-> tree[Child("wild")].name,
                                 from |-> Len(cur) + 1, to |-> Size])
    /\ Leave("found", Child("wild"))

EndNothing == AtEnd /\ ~Exact /\ ~(Has("wild") /\ Slashed(path)) /\ FallBack

Descend(key) ==
    /\ cur' = Child(key) /\ idx' = Beyond(path, idx + 1)
    /\ best' = Best
    /\ UNCHANGED <<registry, at, path, again, answer>>

ToLiteral == ~AtEnd /\ Has(Seg) /\ Descend(Seg) /\ UNCHANGED params

ToParam ==
    /\ ~AtEnd /\ ~Has(Seg) /\ Has("param")
    /\ params' = Append(params, [name |-> tree[Child("param")].name, from |-> idx + 1,
                                 to |-> IF idx < Size THEN idx + 1 ELSE idx])
    /\ Descend("param")

ToWild ==
    /\ ~AtEnd /\ ~Has(Seg) /\ ~Has("param") /\ Has("wild")
    /\ params' = Append(params, [name |-> tree[Child("wild")].name,
                                 from |-> idx + 1, to |-> Size])
    /\ Leave("found", Child("wild"))

Stuck == ~AtEnd /\ ~Has(Seg) /\ ~Has("param") /\ ~Has("wild") /\ FallBack

Lookup ==
    /\ at = "walk"
    /\ \/ EndExact \/ EndWild \/ EndNothing
       \/ ToLiteral \/ ToParam \/ ToWild \/ Stuck

-----------------------------------------------------------------------------
(* ServeHTTP.                                                              *)

Walk(p, second) ==
    /\ at' = "walk" /\ path' = p /\ again' = second
    /\ cur' = <<>> /\ idx' = Start(p) /\ best' = None

Request(p) ==
    /\ at \in {"idle", "ready"}
    /\ Walk(p, FALSE)
    /\ UNCHANGED <<registry, params, answer>>

Answer(a) ==
    /\ at' = "answered" /\ answer' = a
    /\ UNCHANGED <<registry, path, again, cur, idx, best, params>>

Retry ==
    /\ at = "missed" /\ ~again /\ ~Slashed(path)
    /\ Walk([path EXCEPT !.tail = 1], TRUE)
    /\ UNCHANGED <<registry, params, answer>>

Return ==
    /\ at = "answered"
    /\ at' = "ready" /\ path' = NoPath /\ again' = FALSE /\ cur' = <<>> /\ idx' = 0
    /\ best' = None /\ params' = <<>> /\ answer' = Unanswered
    /\ UNCHANGED registry

Redirect ==
    /\ at = "found" /\ again /\ tree[cur].subtree
    /\ Answer([Unanswered EXCEPT !.kind = "moved"])

NoRoute ==
    /\ \/ at = "missed" /\ (again \/ Slashed(path))
       \/ at = "found" /\ again /\ ~tree[cur].subtree
    /\ Answer([Unanswered EXCEPT !.kind = "not_found"])

\* The handler of the method, or that of GET for HEAD.
HandlerOf(node, method) ==
    LET own == tree[node].handlers[method]
    IN  IF own = Nobody /\ method = "HEAD" THEN tree[node].handlers["GET"] ELSE own

\* allowHeader.
Allow(node) ==
    LET own == {m \in Methods : tree[node].handlers[m] # Nobody}
    IN  IF "GET" \in own THEN own \cup {"HEAD"} ELSE own

\* wrapRequestHandler hands the parameters on if translateGinPattern has found
\* some; the handler of a static subtree gets none.
Serve(method) ==
    LET handler == HandlerOf(cur, method)
    IN  /\ at = "found" /\ ~again /\ handler # Nobody
        /\ Answer([kind |-> "served", method |-> method, handler |-> handler,
                   params |-> IF Named(handler.pattern) /\ ~handler.subtree
                              THEN params ELSE <<>>,
                   allow |-> {}])

Refuse(method) ==
    /\ at = "found" /\ ~again /\ HandlerOf(cur, method) = Nobody
    /\ Answer([kind |-> IF method = "OPTIONS" THEN "options" ELSE "not_allowed",
               method |-> method, handler |-> Nobody, params |-> <<>>,
               allow |-> Allow(cur)])

-----------------------------------------------------------------------------
Init ==
    /\ tree = [node \in {<<>>} |-> [name |-> "", handlers |-> NoHandlers, subtree |-> FALSE]]
    /\ accepted = 0 /\ verdict = "none"
    /\ at = "idle" /\ path = NoPath /\ again = FALSE
    /\ cur = <<>> /\ idx = 0 /\ best = None /\ params = <<>> /\ answer = Unanswered

Next ==
    \/ \E pattern \in Patterns, method \in Methods \cup {""} : Handle(method, pattern)
    \/ \E prefix \in Prefixes : HandleStatic(prefix)
    \/ \E p \in Paths : Request(p)
    \/ Lookup
    \/ Retry \/ Redirect \/ NoRoute \/ Return
    \/ \E method \in Methods : Serve(method) \/ Refuse(method)

Spec == Init /\ [][Next]_vars

-----------------------------------------------------------------------------
(* Properties.                                                             *)

Handler == {Nobody} \cup
    [method : Methods, pattern : Patterns \cup Prefixes, subtree : BOOLEAN]
Node == [name : Segs \cup Names \cup {""}, handlers : [Methods -> Handler], subtree : BOOLEAN]

\* The tree is closed under prefixes, nothing hangs below a wildcard, and the
\* request is somewhere in the tree and in its path.
TypeOK ==
    /\ \A node \in DOMAIN tree :
          /\ node \in Seq(Segs \cup {"param", "wild"})
          /\ tree[node] \in Node
          /\ \A i \in 0 .. Len(node) : Up(node, i) \in DOMAIN tree
          /\ \A i \in 1 .. Len(node) - 1 : node[i] # "wild"
    /\ accepted \in 0 .. MaxRoutes /\ verdict \in {"none", "accepted", "refused"}
    /\ at \in {"idle", "ready", "walk", "found", "missed", "answered"}
    /\ path \in [segs : Seq(Segs), tail : 0 .. 2] /\ again \in BOOLEAN
    /\ cur \in DOMAIN tree /\ idx \in 0 .. Size + 1 /\ best \in DOMAIN tree \cup {None}
    /\ params \in Seq([name : Segs \cup Names, from : Nat, to : Nat])
    /\ answer.kind \in {"none", "served", "options", "not_allowed", "moved", "not_found"}
    /\ answer.handler \in Handler /\ answer.allow \subseteq Methods

IsParameter(part) == Key(part) \in {"param", "wild"}

\* What a pattern means: its literals stand where it has them, a wildcard takes
\* what is left, which may be nothing after a slash, and anything else ends with
\* the path, without a slash.
Follows(pattern, p) ==
    \A i \in DOMAIN pattern :
        IsParameter(pattern[i]) \/ (i <= Len(p.segs) /\ p.segs[i] = Key(pattern[i]))
EndsWild(pattern) == pattern # <<>> /\ Key(pattern[Len(pattern)]) = "wild"
Reads(pattern, p) ==
    /\ Follows(pattern, p)
    /\ IF EndsWild(pattern) THEN Len(pattern) <= Len(p.segs) \/ Slashed(p)
       ELSE Len(pattern) = Len(p.segs) /\ ~Slashed(p)

\* A static subtree has everything below its prefix, and the prefix with a slash.
Under(prefix, p) ==
    /\ Follows(prefix, p)
    /\ Len(prefix) < Len(p.segs) \/ Slashed(p) \/ (EndsWild(prefix) /\ Reads(prefix, p))

LastOf(S) == CHOOSE i \in S : \A j \in S : j <= i

\* Context.Param: the last parameter of that name.
Param(ps, name) == ps[LastOf({j \in DOMAIN ps : ps[j].name = name})]

\* Every parameter of a pattern is handed on, with the part of the path that
\* stands in its place.
Given(pattern, p, ps) ==
    \A name \in {pattern[i].name : i \in {j \in DOMAIN pattern : IsParameter(pattern[j])}} :
        LET i == LastOf({j \in DOMAIN pattern :
                            IsParameter(pattern[j]) /\ pattern[j].name = name})
        IN  /\ \E j \in DOMAIN ps : ps[j].name = name
            /\ Param(ps, name).from = i
            /\ Param(ps, name).to = IF Key(pattern[i]) = "param" /\ i <= Len(p.segs) THEN i
                                    ELSE Len(p.segs)

\* The handler that runs was registered for the method of the request, or for
\* GET if that is HEAD, under a pattern that reads its path, and is given the
\* parameters of that pattern; a static handler serves what is under its prefix.
\* The walk shares its nodes among routes and leaves a branch for the subtree
\* it has passed (insert, lookup, ServeHTTP).  Left out are the patterns that
\* parsePattern refuses and Handle takes all the same.
ServedByItsPattern ==
    answer.kind = "served" =>
        LET handler == answer.handler
        IN  /\ handler.method \in
                   IF answer.method = "HEAD" THEN {"HEAD", "GET"} ELSE {answer.method}
            /\ IF handler.subtree THEN Under(handler.pattern, path)
               ELSE Parses(handler.pattern) =>
                      /\ Reads(handler.pattern, path)
                      /\ Named(handler.pattern) => Given(handler.pattern, path, answer.params)

Literal(pattern) == \A i \in DOMAIN pattern : ~IsParameter(pattern[i])

\* A request for the path of a route without parameters, with no slash at its
\* end, gets to that route, and one for a path below a static prefix is never
\* answered with 404 or 301, whatever else is registered: the walk does not back
\* out of a branch, so this rests on literals being tried first and on the subtree
\* it keeps (lookup).  Left out are paths with a slash at their end: parsePattern
\* drops that of a pattern, and lookup gives such a path to no exact route, so that
\* "/" is not found under a route "/", which examples/order registers, nor "/a/"
\* under a route "/a/" (README, Findings).
LiteralRoutesAreFound ==
    at = "answered" =>
        \A node \in DOMAIN tree, method \in Methods :
            LET handler == tree[node].handlers[method]
                asked == IF again THEN [path EXCEPT !.tail = 0] ELSE path
            IN  handler # Nobody /\ Literal(handler.pattern) =>
                  /\ ~handler.subtree /\ Reads(handler.pattern, asked) =>
                         /\ answer.kind \in {"served", "options", "not_allowed"}
                         /\ answer.kind = "served" /\ Parses(answer.handler.pattern) =>
                               Place(answer.handler.pattern) = node
                  /\ handler.subtree /\ Under(handler.pattern, asked) =>
                         answer.kind \notin {"moved", "not_found"}

\* A registration that is refused leaves the tree as it was: no node and, for
\* HandleStatic, which inserts for GET and then for HEAD, no half of a route
\* (insert makes nodes before it has looked at all of the pattern).
RefusalIsClean == [][verdict' = "refused" => tree' = tree]_vars
=============================================================================
