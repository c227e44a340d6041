--------------------------- MODULE Router_proofs ---------------------------
(***************************************************************************)
(* Proofs about Router for every set of segments, patterns, prefixes,      *)
(* paths and methods, and any number of registrations.                     *)
(***************************************************************************)
EXTENDS Router, SequenceTheorems, WellFoundedInduction, TLAPS

-----------------------------------------------------------------------------
(* The inductive invariant.                                                *)

Keys == Segs \cup {"param", "wild"}
Wildcards == {"param", "wild"}

\* The segments that a pattern is inserted under.
Segments(pattern) == IF Parses(pattern) THEN pattern ELSE <<>>

\* What the nodes of a tree are.
Nodes(t) ==
    /\ t = [node \in DOMAIN t |-> t[node]] /\ <<>> \in DOMAIN t
    /\ \A node \in DOMAIN t :
          /\ node \in Seq(Keys)
          /\ t[node] \in Node
          /\ node # <<>> => t[node].name # ""
          /\ \A i \in 0 .. Len(node) : Up(node, i) \in DOMAIN t
          /\ \A i \in 1 .. Len(node) - 1 : node[i] # "wild"

\* A handler stands at the place of its pattern, and the nodes that lead there
\* bear the names of its parameters.
Settled(t, node, m, handler) ==
    /\ handler.method = m /\ handler.subtree = t[node].subtree
    /\ handler.subtree => Parses(handler.pattern)
    /\ node = Place(Segments(handler.pattern))
    /\ \A i \in 1 .. Len(node) :
          node[i] \in Wildcards => t[Up(node, i)].name = handler.pattern[i].name

Handlers(t) ==
    \A node \in DOMAIN t, m \in Methods :
        t[node].handlers[m] # Nobody => Settled(t, node, m, t[node].handlers[m])

\* HandleStatic finds that GET is taken before it comes to HEAD.
Subtrees(t) ==
    \A node \in DOMAIN t : t[node].subtree => t[node].handlers["GET"] # Nobody

TreeInv(t) == Nodes(t) /\ Handlers(t) /\ Subtrees(t)

\* The keys that lead to a node are those of the path, as far as they go.
Fit(node) ==
    \A i \in 1 .. Len(node) :
        node[i] \in Wildcards \/ (i <= Size /\ node[i] = path.segs[i])

ToWildcard(node) == node # <<>> /\ node[Len(node)] = "wild"

\* The node reads the path, or has it below it.
Takes(node) ==
    /\ Fit(node)
    /\ IF ToWildcard(node) THEN Len(node) <= Size \/ Slashed(path)
       ELSE Len(node) = Size /\ ~Slashed(path)

Covers(node) ==
    /\ Fit(node)
    /\ Len(node) < Size \/ Slashed(path) \/ (ToWildcard(node) /\ Takes(node))

\* The parameters are those of the way to the node, in the order of the way.
Value(node, i) ==
    [name |-> tree[Up(node, i)].name, from |-> i,
     to |-> IF node[i] = "param" /\ i <= Size THEN i ELSE Size]

Collected(ps, node) ==
    /\ \A i \in 1 .. Len(node) :
          node[i] \in Wildcards => \E j \in DOMAIN ps : ps[j] = Value(node, i)
    /\ \A j \in DOMAIN ps :
          /\ ps[j].from \in 1 .. Len(node)
          /\ node[ps[j].from] \in Wildcards
          /\ ps[j].name = tree[Up(node, ps[j].from)].name
    /\ \A j, k \in DOMAIN ps : j < k => ps[j].from < ps[k].from

\* cur and idx say the same: how far the walk has come.
Abreast ==
    /\ idx <= Size => Len(cur) = idx /\ (idx = Size => Slashed(path))
    /\ AtEnd => Len(cur) = Size \/ (Len(cur) = Size + 1 /\ Slashed(path))

WalkInv ==
    /\ at = "idle" => ~again /\ params = <<>> /\ cur = <<>> /\ best = None
    /\ at = "ready" => ~again /\ params = <<>>
    /\ at # "answered" => answer = Unanswered
    /\ at = "walk" =>
          /\ Abreast /\ Fit(cur)
          /\ \A i \in 1 .. Len(cur) : cur[i] # "wild"
          /\ ~again => Collected(params, cur)
          /\ best # None => tree[best].subtree /\ Covers(best)
    /\ at = "found" =>
          IF tree[cur].subtree THEN Covers(cur)
          ELSE Takes(cur) /\ (~again => Collected(params, cur))
    /\ again => path.tail = 1

\* What the request has asked for, without the slash that Retry adds.
Asked == IF again THEN [path EXCEPT !.tail = 0] ELSE path

\* Where the walk must end: a node the path leads to literal by literal, with
\* the handlers of a route, or the one of a subtree that it passes.
IsExact(node) ==
    /\ node \in DOMAIN tree /\ node = path.segs /\ ~Slashed(Asked)
    /\ tree[node].handlers # NoHandlers /\ ~tree[node].subtree

IsPassed(node) ==
    /\ node \in DOMAIN tree /\ tree[node].subtree
    /\ \A i \in 1 .. Len(node) : i <= Size /\ node[i] = path.segs[i]
    /\ Len(node) < Size \/ Slashed(Asked)

Along(node) == Len(cur) <= Len(node) /\ cur = Up(node, Len(cur))

LiteralInv ==
    \A node \in DOMAIN tree :
        /\ IsExact(node) =>
              /\ at \in {"walk", "found"} => ~again
              /\ at = "walk" => Along(node)
              /\ at = "found" => cur = node
              /\ at # "missed"
              /\ at = "answered" =>
                    /\ answer.kind \in {"served", "options", "not_allowed"}
                    /\ answer.kind = "served" =>
                          Place(Segments(answer.handler.pattern)) = node
        /\ IsPassed(node) =>
              /\ at \in {"walk", "found"} => ~again
              /\ at = "walk" => best # None \/ Along(node)
              /\ at # "missed"
              /\ at = "answered" => answer.kind \notin {"moved", "not_found"}

\* What TypeOK says of all but the tree.
Parameter == [name : Segs \cup Names, from : Nat, to : Nat]

RequestType ==
    /\ accepted \in 0 .. MaxRoutes /\ verdict \in {"none", "accepted", "refused"}
    /\ at \in {"idle", "ready", "walk", "found", "missed", "answered"}
    /\ path \in [segs : Seq(Segs), tail : 0 .. 2] /\ again \in BOOLEAN
    /\ cur \in DOMAIN tree /\ idx \in 0 .. Size + 1 /\ best \in DOMAIN tree \cup {None}
    /\ params \in Seq(Parameter)
    /\ answer.kind \in {"none", "served", "options", "not_allowed", "moved", "not_found"}
    /\ answer.handler \in Handler /\ answer.allow \subseteq Methods

IInv == RequestType /\ TreeInv(tree) /\ WalkInv /\ ServedByItsPattern /\ LiteralInv

-----------------------------------------------------------------------------
(* Sequences of keys.                                                      *)

LEMMA UpProperties ==
    ASSUME NEW S, NEW s \in Seq(S), NEW i \in 0 .. Len(s)
    PROVE  /\ Up(s, i) \in Seq(S) /\ Len(Up(s, i)) = i
           /\ \A j \in 1 .. i : Up(s, i)[j] = s[j]
<1>1. Len(s) \in Nat /\ i \in Int /\ 1 \in Int
  OBVIOUS
<1>2. \A j \in 1 .. i : s[j] \in S
  BY ElementOfSeq, <1>1
<1>3. /\ SubSeq(s, 1, i) \in Seq(S)
      /\ Len(SubSeq(s, 1, i)) = IF 1 <= i THEN i - 1 + 1 ELSE 0
      /\ \A j \in 1 .. i - 1 + 1 : SubSeq(s, 1, i)[j] = s[1 + j - 1]
  BY <1>1, <1>2, SubSeqProperties
<1>4. QED
  BY <1>1, <1>3 DEF Up

LEMMA UpOfUp ==
    ASSUME NEW S, NEW s \in Seq(S), NEW i \in 0 .. Len(s), NEW j \in 0 .. i
    PROVE  Up(Up(s, i), j) = Up(s, j)
<1>1. Len(s) \in Nat /\ j \in 0 .. Len(s)
  OBVIOUS
<1>2. /\ Up(s, i) \in Seq(S) /\ Len(Up(s, i)) = i
      /\ \A k \in 1 .. i : Up(s, i)[k] = s[k]
  BY UpProperties
<1>3. /\ Up(s, j) \in Seq(S) /\ Len(Up(s, j)) = j
      /\ \A k \in 1 .. j : Up(s, j)[k] = s[k]
  BY <1>1, UpProperties
<1>4. j \in 0 .. Len(Up(s, i))
  BY <1>2
<1>5. /\ Up(Up(s, i), j) \in Seq(S) /\ Len(Up(Up(s, i), j)) = j
      /\ \A k \in 1 .. j : Up(Up(s, i), j)[k] = Up(s, i)[k]
  BY <1>2, <1>4, UpProperties
<1>6. \A k \in 1 .. j : Up(Up(s, i), j)[k] = Up(s, j)[k]
  BY <1>1, <1>2, <1>3, <1>5
<1>7. QED
  BY <1>3, <1>5, <1>6, SeqEqual

LEMMA UpAll ==
    ASSUME NEW S, NEW s \in Seq(S)
    PROVE  Up(s, Len(s)) = s
BY SubSeqFull DEF Up

LEMMA UpNone ==
    ASSUME NEW S, NEW s \in Seq(S)
    PROVE  Up(s, 0) = <<>>
BY SubSeqEmpty DEF Up

LEMMA UpOfAppend ==
    ASSUME NEW S, NEW s \in Seq(S), NEW e \in S, NEW j \in 0 .. Len(s)
    PROVE  Up(Append(s, e), j) = Up(s, j)
<1>1. /\ Append(s, e) \in Seq(S) /\ Len(Append(s, e)) = Len(s) + 1
      /\ \A i \in 1 .. Len(s) : Append(s, e)[i] = s[i]
  BY AppendProperties
<1>2. Len(s) \in Nat /\ j \in 0 .. Len(Append(s, e))
  BY <1>1
<1>3. /\ Up(s, j) \in Seq(S) /\ Len(Up(s, j)) = j
      /\ \A k \in 1 .. j : Up(s, j)[k] = s[k]
  BY UpProperties
<1>4. /\ Up(Append(s, e), j) \in Seq(S) /\ Len(Up(Append(s, e), j)) = j
      /\ \A k \in 1 .. j : Up(Append(s, e), j)[k] = Append(s, e)[k]
  BY <1>1, <1>2, UpProperties
<1>5. \A k \in 1 .. j : Up(Append(s, e), j)[k] = Up(s, j)[k]
  BY <1>1, <1>2, <1>3, <1>4
<1>6. QED
  BY <1>3, <1>4, <1>5, SeqEqual

LEMMA UpNext ==
    ASSUME NEW S, NEW s \in Seq(S), NEW i \in 0 .. Len(s) - 1
    PROVE  Append(Up(s, i), s[i + 1]) = Up(s, i + 1)
<1>1. Len(s) \in Nat /\ i \in 0 .. Len(s) /\ i + 1 \in 0 .. Len(s)
      /\ i + 1 \in 1 .. Len(s)
  OBVIOUS
<1>2. s[i + 1] \in S
  BY <1>1, ElementOfSeq
<1>3. /\ Up(s, i) \in Seq(S) /\ Len(Up(s, i)) = i
      /\ \A k \in 1 .. i : Up(s, i)[k] = s[k]
  BY <1>1, UpProperties
<1>4. /\ Up(s, i + 1) \in Seq(S) /\ Len(Up(s, i + 1)) = i + 1
      /\ \A k \in 1 .. i + 1 : Up(s, i + 1)[k] = s[k]
  BY <1>1, UpProperties
<1>5. /\ Append(Up(s, i), s[i + 1]) \in Seq(S)
      /\ Len(Append(Up(s, i), s[i + 1])) = i + 1
      /\ \A k \in 1 .. i : Append(Up(s, i), s[i + 1])[k] = Up(s, i)[k]
      /\ Append(Up(s, i), s[i + 1])[i + 1] = s[i + 1]
  BY <1>2, <1>3, AppendProperties
<1>6. \A k \in 1 .. i + 1 : Append(Up(s, i), s[i + 1])[k] = Up(s, i + 1)[k]
  <2>1. ASSUME NEW k \in 1 .. i + 1
        PROVE  Append(Up(s, i), s[i + 1])[k] = Up(s, i + 1)[k]
    <3>1. CASE k = i + 1
      BY <1>4, <1>5, <3>1
    <3>2. CASE k # i + 1
      <4>1. k \in 1 .. i
        BY <1>1, <2>1, <3>2
      <4>2. QED
        BY <1>3, <1>4, <1>5, <2>1, <4>1
    <3>3. QED
      BY <3>1, <3>2
  <2>2. QED
    BY <2>1
<1>7. QED
  BY <1>4, <1>5, <1>6, SeqEqual

-----------------------------------------------------------------------------
(* Patterns.                                                               *)

\* The parts of a pattern that is inserted.
Routable == Text \cup Braces \cup [kind : {"colon", "star"}, name : Names]

LEMMA KeyType ==
    ASSUME NEW part \in Routable
    PROVE  /\ Key(part) \in Keys /\ part.name \in Segs \cup Names
           /\ Key(part) \in Wildcards => part.name \in Names
           /\ Key(part) = "wild" <=> part.kind \in {"star", "dots"}
BY SegsAssumption DEF Routable, Text, Braces, Key, Keys, Wildcards

LEMMA PlaceType ==
    ASSUME NEW segments \in Seq(Routable)
    PROVE  /\ Place(segments) \in Seq(Keys) /\ Len(Place(segments)) = Len(segments)
           /\ \A i \in 1 .. Len(segments) :
                 /\ segments[i] \in Routable
                 /\ Place(segments)[i] = Key(segments[i])
                 /\ Place(segments)[i] \in Keys
<1>1. DOMAIN segments = 1 .. Len(segments) /\ Len(segments) \in Nat
  BY LenProperties
<1>2. \A i \in 1 .. Len(segments) : segments[i] \in Routable
  BY ElementOfSeq
<1>3. \A i \in 1 .. Len(segments) : Key(segments[i]) \in Keys
  BY <1>2, KeyType
<1>4. Place(segments) \in [1 .. Len(segments) -> Keys]
  BY <1>1, <1>3 DEF Place
<1>5. Place(segments) \in Seq(Keys) /\ Len(Place(segments)) = Len(segments)
  BY <1>1, <1>4
<1>6. \A i \in 1 .. Len(segments) : Place(segments)[i] = Key(segments[i])
  BY <1>1 DEF Place
<1>7. QED
  BY <1>2, <1>3, <1>5, <1>6

LEMMA NoSegments == Place(<<>>) = <<>>
BY DEF Place

\* What Handle and HandleStatic hand to insert.
LEMMA PatternsAreRoutable ==
    /\ \A pattern \in Patterns : Translates(pattern) => pattern \in Seq(Routable)
    /\ Prefixes \subseteq Seq(Routable)
<1>1. ASSUME NEW pattern \in Patterns, Translates(pattern)
      PROVE  pattern \in Seq(Routable)
  <2>1. pattern \in Seq(Part)
    BY PatternsAssumption
  <2>2. DOMAIN pattern = 1 .. Len(pattern) /\ Len(pattern) \in Nat
    BY <2>1, LenProperties
  <2>3. \A i \in 1 .. Len(pattern) : pattern[i] \in Part /\ pattern[i].kind # "illegal"
    BY <1>1, <2>1, <2>2, ElementOfSeq DEF Translates
  <2>4. \A part \in Part : part.kind # "illegal" => part \in Routable
    BY DEF Part, Routable
  <2>5. pattern \in [1 .. Len(pattern) -> Routable]
    BY <2>1, <2>2, <2>3, <2>4
  <2>6. QED
    BY <2>2, <2>5
<1>2. ASSUME NEW prefix \in Prefixes
      PROVE  prefix \in Seq(Routable)
  <2>1. prefix \in Seq(Text \cup Braces)
    BY PrefixesAssumption
  <2>2. Text \cup Braces \subseteq Routable
    BY DEF Routable
  <2>3. QED
    BY <2>1, <2>2, SeqMonotonic
<1>3. QED
  BY <1>1, <1>2

LEMMA SegmentsType ==
    ASSUME NEW pattern \in Seq(Routable)
    PROVE  /\ Segments(pattern) \in Seq(Routable)
           /\ \A i \in 1 .. Len(Segments(pattern)) :
                 /\ Segments(pattern)[i] = pattern[i]
                 /\ Key(Segments(pattern)[i]) = "wild" => i = Len(Segments(pattern))
<1>1. CASE Parses(pattern)
  <2>1. Segments(pattern) = pattern
    BY <1>1 DEF Segments
  <2>2. DOMAIN pattern = 1 .. Len(pattern)
    BY LenProperties
  <2>3. \A i \in 1 .. Len(pattern) : pattern[i] \in Routable
    BY ElementOfSeq
  <2>4. \A i \in 1 .. Len(pattern) : Key(pattern[i]) = "wild" => i = Len(pattern)
    BY <1>1, <2>2, <2>3, KeyType DEF Parses
  <2>5. QED
    BY <2>1, <2>4
<1>2. CASE ~Parses(pattern)
  <2>1. Segments(pattern) = <<>>
    BY <1>2 DEF Segments
  <2>2. QED
    BY <2>1
<1>3. QED
  BY <1>1, <1>2

-----------------------------------------------------------------------------
(* insert.                                                                 *)

\* What insert makes on its way: a node it adds is on the way to the place of
\* the pattern, bears the name of its segment and has no handlers.
Fresh(segments, i) ==
    [name |-> segments[i].name, handlers |-> NoHandlers, subtree |-> FALSE]

LEMMA GrownIs ==
    ASSUME NEW t, Nodes(t), NEW segments \in Seq(Routable)
    PROVE  /\ DOMAIN t \subseteq DOMAIN Grown(t, segments)
           /\ \A node \in DOMAIN t : Grown(t, segments)[node] = t[node]
           /\ \A node \in DOMAIN Grown(t, segments) :
                 node \notin DOMAIN t =>
                    \E i \in 1 .. Len(segments) :
                       /\ node = Up(Place(segments), i) /\ Len(node) = i
                       /\ Grown(t, segments)[node] = Fresh(segments, i)
                       /\ \A j \in 0 .. i :
                             Up(Place(segments), j) \in DOMAIN Grown(t, segments)
           /\ Clashes(t, segments) = {} =>
                 \A i \in 0 .. Len(segments) :
                    Up(Place(segments), i) \in DOMAIN Grown(t, segments)
<1> DEFINE place == Place(segments)
           reached == {i \in 0 .. Len(segments) : \A c \in Clashes(t, segments) : i < c}
           new == {Up(place, i) : i \in reached}
           g == Grown(t, segments)
<1>1. g = [node \in DOMAIN t \cup new |->
             IF node \in DOMAIN t THEN t[node]
             ELSE [name |-> segments[Len(node)].name,
                   handlers |-> NoHandlers, subtree |-> FALSE]]
  BY DEF Grown
<1>2. DOMAIN g = DOMAIN t \cup new
  BY <1>1
<1>3. \A node \in DOMAIN t : g[node] = t[node]
  BY <1>1
<1>4. Len(segments) \in Nat /\ place \in Seq(Keys) /\ Len(place) = Len(segments)
  BY PlaceType
<1>5. \A i \in 0 .. Len(segments) : Len(Up(place, i)) = i
  BY <1>4, UpProperties
<1>6. ASSUME NEW node \in DOMAIN g, node \notin DOMAIN t
      PROVE  \E i \in 1 .. Len(segments) :
                /\ node = Up(place, i) /\ Len(node) = i
                /\ g[node] = Fresh(segments, i)
                /\ \A j \in 0 .. i : Up(place, j) \in DOMAIN g
  <2>1. PICK i \in reached : node = Up(place, i)
    BY <1>2, <1>6
  <2>2. i \in 0 .. Len(segments) /\ Len(node) = i
    BY <1>5, <2>1
  <2>3. i # 0
    BY <1>4, <1>6, <2>1, UpNone DEF Nodes
  <2>4. i \in 1 .. Len(segments)
    BY <1>4, <2>2, <2>3
  <2>5. g[node] = Fresh(segments, i)
    BY <1>1, <1>2, <1>6, <2>2 DEF Fresh
  <2>6. \A j \in 0 .. i : j \in reached
    <3>1. Clashes(t, segments) \subseteq Int
      BY <1>4, LenProperties DEF Clashes
    <3>2. QED
      BY <1>4, <2>1, <2>2, <3>1
  <2>7. \A j \in 0 .. i : Up(place, j) \in DOMAIN g
    BY <1>2, <2>6
  <2>8. QED
    BY <2>1, <2>2, <2>4, <2>5, <2>7
<1>7. ASSUME Clashes(t, segments) = {}, NEW i \in 0 .. Len(segments)
      PROVE  Up(place, i) \in DOMAIN g
  BY <1>2, <1>7
<1>8. QED
  BY <1>2, <1>3, <1>6, <1>7

LEMMA NoHandlersType ==
    /\ NoHandlers \in [Methods -> Handler]
    /\ \A m \in Methods : NoHandlers[m] = Nobody
BY DEF NoHandlers, Handler

LEMMA GrownNodes ==
    ASSUME NEW t, Nodes(t), NEW segments \in Seq(Routable),
           \A i \in 1 .. Len(segments) :
              Key(segments[i]) = "wild" => i = Len(segments)
    PROVE  Nodes(Grown(t, segments))
<1> DEFINE place == Place(segments)
           g == Grown(t, segments)
<1>1. /\ place \in Seq(Keys) /\ Len(place) = Len(segments) /\ Len(segments) \in Nat
      /\ \A i \in 1 .. Len(segments) :
            segments[i] \in Routable /\ place[i] = Key(segments[i])
  BY PlaceType
<1>2. /\ DOMAIN t \subseteq DOMAIN g
      /\ \A node \in DOMAIN t : g[node] = t[node]
      /\ \A node \in DOMAIN g :
            node \notin DOMAIN t =>
               \E i \in 1 .. Len(segments) :
                  /\ node = Up(place, i) /\ Len(node) = i
                  /\ g[node] = Fresh(segments, i)
                  /\ \A j \in 0 .. i : Up(place, j) \in DOMAIN g
  BY GrownIs
<1>3. <<>> \in DOMAIN g
  BY <1>2 DEF Nodes
<1>4. ASSUME NEW node \in DOMAIN g
      PROVE  /\ node \in Seq(Keys)
             /\ g[node] \in Node
             /\ node # <<>> => g[node].name # ""
             /\ \A i \in 0 .. Len(node) : Up(node, i) \in DOMAIN g
             /\ \A i \in 1 .. Len(node) - 1 : node[i] # "wild"
  <2>1. CASE node \in DOMAIN t
    BY <1>2, <2>1 DEF Nodes
  <2>2. CASE node \notin DOMAIN t
    <3>1. PICK i \in 1 .. Len(segments) :
             /\ node = Up(place, i) /\ Len(node) = i
             /\ g[node] = Fresh(segments, i)
             /\ \A j \in 0 .. i : Up(place, j) \in DOMAIN g
      BY <1>2, <2>2
    <3>2. i \in 0 .. Len(place) /\ segments[i] \in Routable
      BY <1>1, <3>1
    <3>3. node \in Seq(Keys) /\ \A j \in 1 .. i : node[j] = place[j]
      BY <1>1, <3>1, <3>2, UpProperties
    <3>4. segments[i].name \in Segs \cup Names /\ segments[i].name # ""
      BY <3>2, KeyType, SegsAssumption, NamesAssumption
    <3>5. Fresh(segments, i) \in Node /\ Fresh(segments, i).name = segments[i].name
      BY <3>4, NoHandlersType DEF Fresh, Node
    <3>6. \A j \in 0 .. i : Up(node, j) = Up(place, j)
      BY <1>1, <3>1, <3>2, UpOfUp
    <3>7. \A j \in 1 .. i - 1 : node[j] # "wild"
      BY <1>1, <3>3
    <3>8. QED
      BY <3>1, <3>3, <3>4, <3>5, <3>6, <3>7
  <2>3. QED
    BY <2>1, <2>2
<1>5. g = [node \in DOMAIN g |-> g[node]]
  BY DEF Grown
<1>6. QED
  BY <1>3, <1>4, <1>5 DEF Nodes

LEMMA GrownHandlers ==
    ASSUME NEW t, TreeInv(t), NEW segments \in Seq(Routable)
    PROVE  Handlers(Grown(t, segments)) /\ Subtrees(Grown(t, segments))
<1> DEFINE g == Grown(t, segments)
<1>1. Nodes(t) /\ Handlers(t) /\ Subtrees(t)
  BY DEF TreeInv
<1>2. /\ DOMAIN t \subseteq DOMAIN g
      /\ \A node \in DOMAIN t : g[node] = t[node]
      /\ \A node \in DOMAIN g :
            node \notin DOMAIN t =>
               \E i \in 1 .. Len(segments) : g[node] = Fresh(segments, i)
  BY <1>1, GrownIs
<1>3. \A node \in DOMAIN g : node \notin DOMAIN t =>
         g[node].handlers = NoHandlers /\ ~g[node].subtree
  BY <1>2 DEF Fresh
<1>4. ASSUME NEW node \in DOMAIN g, NEW m \in Methods, g[node].handlers[m] # Nobody
      PROVE  Settled(g, node, m, g[node].handlers[m])
  <2>1. node \in DOMAIN t
    BY <1>3, <1>4, NoHandlersType
  <2>2. g[node] = t[node] /\ Settled(t, node, m, t[node].handlers[m])
    BY <1>1, <1>2, <1>4, <2>1 DEF Handlers
  <2>3. \A i \in 1 .. Len(node) : g[Up(node, i)] = t[Up(node, i)]
    <3>1. node \in Seq(Keys) /\ \A i \in 0 .. Len(node) : Up(node, i) \in DOMAIN t
      BY <1>1, <2>1 DEF Nodes
    <3>2. Len(node) \in Nat
      BY <3>1, LenProperties
    <3>3. QED
      BY <1>2, <3>1, <3>2
  <2>4. QED
    BY <2>2, <2>3 DEF Settled
<1>5. \A node \in DOMAIN g : g[node].subtree => g[node].handlers["GET"] # Nobody
  BY <1>1, <1>2, <1>3 DEF Subtrees
<1>6. QED
  BY <1>4, <1>5 DEF Handlers, Subtrees

\* The node that the handler is added to.
LEMMA HavingIs ==
    ASSUME NEW n \in Node, NEW handler \in Handler, handler # Nobody
    PROVE  /\ Having(n, handler) \in Node /\ Having(n, handler).name = n.name
           /\ Having(n, handler).handlers =
                 [n.handlers EXCEPT ![handler.method] = handler]
           /\ Having(n, handler).subtree = (n.subtree \/ handler.subtree)
<1>1. handler.method \in Methods /\ handler.subtree \in BOOLEAN
  BY DEF Handler
<1> DEFINE hs == [n.handlers EXCEPT ![handler.method] = handler]
           b == n.subtree \/ handler.subtree
<1>2. n.handlers \in [Methods -> Handler] /\ n.subtree \in BOOLEAN
  BY DEF Node
<1>3. hs \in [Methods -> Handler] /\ b \in BOOLEAN
  BY <1>1, <1>2
<1>4. Having(n, handler) = [n EXCEPT !.handlers = hs, !.subtree = b]
  BY Zenon DEF Having
<1> HIDE DEF hs, b
<1> DEFINE n1 == [n EXCEPT !.handlers = hs]
           n2 == [n1 EXCEPT !.subtree = b]
<1>5. n1 \in Node /\ n1.name = n.name /\ n1.handlers = hs
  BY <1>3 DEF Node
<1>6. Having(n, handler) = n2
  BY <1>4, Zenon
<1> HIDE DEF n1
<1>7. n2 \in Node /\ n2.name = n1.name /\ n2.handlers = n1.handlers /\ n2.subtree = b
  BY <1>3, <1>5 DEF Node
<1>8. QED
  BY <1>5, <1>6, <1>7 DEF hs, b

\* The names on the way to a place where nothing clashes are the segments'.
LEMMA NamesAgree ==
    ASSUME NEW t, Nodes(t), NEW segments \in Seq(Routable), Clashes(t, segments) = {},
           NEW i \in 1 .. Len(segments), Place(segments)[i] \in Wildcards
    PROVE  Grown(t, segments)[Up(Place(segments), i)].name = segments[i].name
<1> DEFINE node == Up(Place(segments), i)
<1>1. /\ Len(segments) \in Nat /\ Place(segments) \in Seq(Keys)
      /\ Len(Place(segments)) = Len(segments) /\ i \in DOMAIN segments
      /\ Place(segments)[i] = Key(segments[i])
  BY PlaceType, LenProperties
<1>2. i \in 0 .. Len(Place(segments))
  BY <1>1
<1>3. Len(node) = i
  BY <1>1, <1>2, UpProperties
<1>4. CASE node \in DOMAIN t
  <2>1. Grown(t, segments)[node] = t[node]
    BY <1>4, GrownIs
  <2>2. t[node].name = segments[i].name
    BY <1>1, <1>4 DEF Clashes, Wildcards
  <2>3. QED
    BY <2>1, <2>2
<1>5. CASE node \notin DOMAIN t
  <2>1. node \in DOMAIN Grown(t, segments)
    BY <1>1, <1>2, GrownIs
  <2>2. PICK j \in 1 .. Len(segments) :
           Len(node) = j /\ Grown(t, segments)[node] = Fresh(segments, j)
    BY <1>5, <2>1, GrownIs
  <2>3. QED
    BY <1>3, <2>2 DEF Fresh
<1>6. QED
  BY <1>4, <1>5

LEMMA InsertedKeeps ==
    ASSUME NEW t, TreeInv(t),
           NEW method \in Methods, NEW pattern \in Patterns \cup Prefixes,
           pattern \in Seq(Routable), NEW subtree \in BOOLEAN,
           subtree => Parses(pattern),
           subtree =>
              \/ method = "GET"
              \/ /\ Place(Segments(pattern)) \in DOMAIN t
                 /\ t[Place(Segments(pattern))].handlers["GET"] # Nobody
    PROVE  TreeInv(Inserted(t, Segments(pattern),
                       [method |-> method, pattern |-> pattern, subtree |-> subtree]))
<1> DEFINE segments == Segments(pattern)
           handler == [method |-> method, pattern |-> pattern, subtree |-> subtree]
           place == Place(segments)
           g == Grown(t, segments)
           f == Inserted(t, segments, handler)
<1>1. /\ segments \in Seq(Routable)
      /\ \A i \in 1 .. Len(segments) : Key(segments[i]) = "wild" => i = Len(segments)
      /\ \A i \in 1 .. Len(segments) : segments[i] = pattern[i]
  BY SegmentsType
<1>2. Nodes(t) /\ Subtrees(t)
  BY DEF TreeInv
<1>3. Nodes(g)
  BY <1>1, <1>2, GrownNodes
<1>4. Handlers(g) /\ Subtrees(g)
  BY <1>1, GrownHandlers
<1>5. CASE ~Fits(t, segments, method, subtree)
  <2>1. f = g
    BY <1>5 DEF Inserted
  <2>2. QED
    BY <1>3, <1>4, <2>1 DEF TreeInv
<1>6. CASE Fits(t, segments, method, subtree)
  <2>1. /\ place \in Seq(Keys) /\ Len(place) = Len(segments) /\ Len(segments) \in Nat
        /\ \A i \in 1 .. Len(segments) : place[i] = Key(segments[i])
    BY <1>1, PlaceType
  <2>2. Clashes(t, segments) = {}
    BY <1>6 DEF Fits
  <2>3. place \in DOMAIN g
    <3>1. Len(segments) \in 0 .. Len(segments)
      BY <2>1
    <3>2. Up(place, Len(segments)) \in DOMAIN g
      BY <1>1, <1>2, <2>2, <3>1, GrownIs
    <3>3. QED
      BY <2>1, <3>2, UpAll
  <2>4. /\ g[place].handlers[method] = Nobody
        /\ g[place].handlers # NoHandlers => g[place].subtree = subtree
    BY <1>6 DEF Fits
  <2>5. g[place] \in Node
    BY <1>3, <2>3 DEF Nodes
  <2>6. handler \in Handler /\ handler # Nobody
    BY MethodsAssumption DEF Handler, Nobody
  <2>7. handler.method = method /\ handler.subtree = subtree
    OBVIOUS
  <2> DEFINE d == Having(g[place], handler)
  <2> HIDE DEF g, f, place, segments, handler
  <2>8. /\ d \in Node /\ d.name = g[place].name
        /\ d.handlers = [g[place].handlers EXCEPT ![method] = handler]
        /\ d.subtree = (g[place].subtree \/ subtree)
        /\ f = [g EXCEPT ![place] = d]
    <3>1. /\ d \in Node /\ d.name = g[place].name
          /\ d.handlers = [g[place].handlers EXCEPT ![handler.method] = handler]
          /\ d.subtree = (g[place].subtree \/ handler.subtree)
      BY <2>5, <2>6, HavingIs
    <3>2. f = [g EXCEPT ![place] = d]
      BY <1>6, <2>7 DEF Inserted, f, g, place
    <3>3. QED
      BY <2>7, <3>1, <3>2
  <2> HIDE DEF d
  <2>9. /\ DOMAIN f = DOMAIN g /\ f[place] = d
        /\ \A node \in DOMAIN g : node # place => f[node] = g[node]
    <3>1. \E S : g = [node \in S |-> g[node]]
      BY DEF g, Grown
    <3>2. QED
      BY <2>3, <2>8, <3>1
  <2>10. \A node \in DOMAIN f : f[node].name = g[node].name
    BY <2>8, <2>9
  <2>11. Nodes(f)
    <3>1. \A node \in DOMAIN f : f[node] \in Node
      BY <1>3, <2>8, <2>9 DEF Nodes
    <3>2. f = [node \in DOMAIN f |-> f[node]]
      BY <2>8
    <3>3. QED
      BY <1>3, <2>9, <2>10, <3>1, <3>2 DEF Nodes
  <2>12. "GET" \in Methods
    BY MethodsAssumption
  <2>13. g[place].handlers \in [Methods -> Handler] /\ g[place].subtree \in BOOLEAN
    BY <2>5 DEF Node
  <2>14. g[place].subtree => g[place].handlers["GET"] # Nobody
    BY <1>4, <2>3 DEF Subtrees
  <2>15. d.subtree = subtree
    <3>1. CASE g[place].handlers = NoHandlers
      BY <2>8, <2>12, <2>13, <2>14, <3>1, NoHandlersType
    <3>2. CASE g[place].handlers # NoHandlers
      BY <2>4, <2>8, <2>13, <3>2
    <3>3. QED
      BY <3>1, <3>2
  <2>16. /\ d.handlers[method] = handler
         /\ \A m \in Methods : m # method => d.handlers[m] = g[place].handlers[m]
    BY <2>8, <2>13
  <2>17. ASSUME NEW node \in DOMAIN f, NEW m \in Methods, f[node].handlers[m] # Nobody
         PROVE  Settled(f, node, m, f[node].handlers[m])
    <3>1. /\ node \in Seq(Keys)
          /\ \A i \in 0 .. Len(node) : Up(node, i) \in DOMAIN g
      BY <1>3, <2>9 DEF Nodes
    <3>2. \A i \in 1 .. Len(node) : f[Up(node, i)].name = g[Up(node, i)].name
      BY <2>9, <2>10, <3>1, LenProperties
    <3>3. CASE node # place \/ m # method
      <4>1. f[node].handlers[m] = g[node].handlers[m]
        BY <2>9, <2>16, <3>3
      <4>2. Settled(g, node, m, g[node].handlers[m])
        BY <1>4, <2>9, <2>17, <4>1 DEF Handlers
      <4>3. f[node].subtree = g[node].subtree
        <5>1. CASE node = place
          <6>1. g[place].handlers # NoHandlers
            BY <2>17, <4>1, <5>1, NoHandlersType
          <6>2. QED
            BY <2>4, <2>9, <2>15, <5>1, <6>1
        <5>2. CASE node # place
          BY <2>9, <5>2
        <5>3. QED
          BY <5>1, <5>2
      <4>4. QED
        BY <3>2, <4>1, <4>2, <4>3 DEF Settled
    <3>4. CASE node = place /\ m = method
      <4>1. f[node].handlers[m] = handler /\ f[node].subtree = subtree
        BY <2>9, <2>15, <2>16, <3>4
      <4>2. /\ handler.method = m /\ handler.subtree = subtree
            /\ handler.pattern = pattern
        BY <3>4 DEF handler
      <4>3. node = Place(Segments(handler.pattern))
        BY <3>4, <4>2 DEF place, segments
      <4>4. ASSUME NEW i \in 1 .. Len(node), node[i] \in Wildcards
            PROVE  f[Up(node, i)].name = pattern[i].name
        <5>1. i \in 1 .. Len(segments) /\ place[i] \in Wildcards
          BY <2>1, <3>4, <4>4
        <5>2. g[Up(place, i)].name = segments[i].name
          BY <1>1, <1>2, <2>2, <5>1, NamesAgree DEF g, place
        <5>3. QED
          BY <1>1, <3>2, <3>4, <4>4, <5>1, <5>2
      <4>5. QED
        BY <4>1, <4>2, <4>3, <4>4 DEF Settled
    <3>5. QED
      BY <3>3, <3>4
  <2>18. \A node \in DOMAIN f : f[node].subtree => f[node].handlers["GET"] # Nobody
    <3>1. ASSUME subtree
          PROVE  d.handlers["GET"] # Nobody
      <4>1. CASE method = "GET"
        BY <2>6, <2>16, <4>1
      <4>2. CASE method # "GET"
        <5>1. place \in DOMAIN t /\ t[place].handlers["GET"] # Nobody
          BY <3>1, <4>2 DEF place, segments
        <5>2. g[place] = t[place]
          BY <1>1, <1>2, <5>1, GrownIs DEF g
        <5>3. QED
          BY <2>12, <2>16, <4>2, <5>1, <5>2
      <4>3. QED
        BY <4>1, <4>2
    <3>2. QED
      BY <1>4, <2>9, <2>15, <3>1 DEF Subtrees
  <2>19. QED
    BY <2>11, <2>17, <2>18 DEF TreeInv, Handlers, Subtrees, f, segments, handler
<1>7. QED
  BY <1>5, <1>6

\* What insert refuses was all there before: a name that clashes is that of a
\* node the tree has, and so is a node that has handlers already.
LEMMA RefusedAddsNothing ==
    ASSUME NEW t, TreeInv(t), NEW segments \in Seq(Routable),
           NEW method \in Methods, NEW subtree, ~Fits(t, segments, method, subtree)
    PROVE  Grown(t, segments) = t
<1> DEFINE place == Place(segments)
           g == Grown(t, segments)
<1>1. /\ place \in Seq(Keys) /\ Len(place) = Len(segments) /\ Len(segments) \in Nat
      /\ DOMAIN segments = 1 .. Len(segments)
  BY PlaceType, LenProperties
<1>2. Nodes(t)
  BY DEF TreeInv
<1>3. /\ DOMAIN t \subseteq DOMAIN g
      /\ \A node \in DOMAIN t : g[node] = t[node]
      /\ Clashes(t, segments) = {} =>
            \A i \in 0 .. Len(segments) : Up(place, i) \in DOMAIN g
  BY <1>2, GrownIs
<1>4. ASSUME NEW i \in 0 .. Len(segments), Up(place, i) \in DOMAIN t
      PROVE  \A j \in 0 .. i : Up(place, j) \in DOMAIN t
  <2>1. Up(place, i) \in Seq(Keys) /\ Len(Up(place, i)) = i
    BY <1>1, UpProperties
  <2>2. \A j \in 0 .. i : Up(Up(place, i), j) \in DOMAIN t
    BY <1>2, <1>4, <2>1 DEF Nodes
  <2>3. \A j \in 0 .. i : Up(Up(place, i), j) = Up(place, j)
    BY <1>1, UpOfUp
  <2>4. QED
    BY <2>2, <2>3
<1>5. \A i \in 0 .. Len(segments) :
         (\A c \in Clashes(t, segments) : i < c) => Up(place, i) \in DOMAIN t
  <2>1. CASE Clashes(t, segments) # {}
    <3>1. PICK c \in Clashes(t, segments) : TRUE
      BY <2>1
    <3>2. c \in 1 .. Len(segments) /\ Up(place, c) \in DOMAIN t
      BY <1>1, <3>1 DEF Clashes
    <3>3. \A j \in 0 .. c : Up(place, j) \in DOMAIN t
      BY <1>1, <1>4, <3>2
    <3>4. QED
      BY <1>1, <3>1, <3>2, <3>3
  <2>2. CASE Clashes(t, segments) = {}
    <3>1. ~(/\ g[place].handlers[method] = Nobody
            /\ g[place].handlers # NoHandlers => g[place].subtree = subtree)
      BY <2>2 DEF Fits
    <3>2. g[place].handlers # NoHandlers
      BY <3>1, NoHandlersType
    <3>3. Up(place, Len(segments)) = place /\ Len(segments) \in 0 .. Len(segments)
      BY <1>1, UpAll
    <3>4. place \in DOMAIN g
      BY <1>3, <2>2, <3>3
    <3>5. place \in DOMAIN t
      <4>1. place \notin DOMAIN t => \E i \in 1 .. Len(segments) : g[place] = Fresh(segments, i)
        BY <1>2, <3>4, GrownIs
      <4>2. \A i : Fresh(segments, i).handlers = NoHandlers
        BY DEF Fresh
      <4>3. QED
        BY <3>2, <4>1, <4>2
    <3>6. \A j \in 0 .. Len(segments) : Up(place, j) \in DOMAIN t
      BY <1>4, <3>3, <3>5
    <3>7. QED
      BY <3>6
  <2>3. QED
    BY <2>1, <2>2
<1>6. {Up(place, i) : i \in {i \in 0 .. Len(segments) :
                                \A c \in Clashes(t, segments) : i < c}} \subseteq DOMAIN t
  BY <1>5
<1>7. g = [node \in DOMAIN t |-> t[node]]
  BY <1>6 DEF Grown
<1>8. QED
  BY <1>2, <1>7 DEF Nodes

\* A prefix that fits for GET fits for HEAD as well: no handler was there.
LEMMA HeadFollowsGet ==
    ASSUME NEW t, TreeInv(t), NEW segments \in Seq(Routable),
           NEW handler \in Handler, handler.method = "GET", handler.subtree = TRUE,
           Fits(t, segments, "GET", TRUE)
    PROVE  /\ Fits(Inserted(t, segments, handler), segments, "HEAD", TRUE)
           /\ Place(segments) \in DOMAIN Inserted(t, segments, handler)
           /\ Inserted(t, segments, handler)[Place(segments)].handlers["GET"] # Nobody
<1> DEFINE place == Place(segments)
           g == Grown(t, segments)
           f == Inserted(t, segments, handler)
           d == Having(g[place], handler)
<1>1. /\ place \in Seq(Keys) /\ Len(place) = Len(segments) /\ Len(segments) \in Nat
      /\ DOMAIN segments = 1 .. Len(segments)
      /\ \A i \in 1 .. Len(segments) : place[i] = Key(segments[i])
  BY PlaceType, LenProperties
<1>2. Nodes(t) /\ Subtrees(t) /\ {"GET", "HEAD"} \subseteq Methods /\ handler # Nobody
  <2>1. Nobody.method = ""
    BY DEF Nobody
  <2>2. QED
    BY <2>1, MethodsAssumption DEF TreeInv
<1>3. Clashes(t, segments) = {}
  BY DEF Fits
<1>4. /\ DOMAIN t \subseteq DOMAIN g
      /\ \A node \in DOMAIN t : g[node] = t[node]
      /\ \A i \in 0 .. Len(segments) : Up(place, i) \in DOMAIN g
      /\ \A node \in DOMAIN g :
            node \notin DOMAIN t => \E i \in 1 .. Len(segments) : g[node] = Fresh(segments, i)
  BY <1>2, <1>3, GrownIs
<1>5. place \in DOMAIN g
  <2>1. Up(place, Len(segments)) = place /\ Len(segments) \in 0 .. Len(segments)
    BY <1>1, UpAll
  <2>2. QED
    BY <1>4, <2>1
<1>6. g[place].handlers["GET"] = Nobody
      /\ (g[place].handlers # NoHandlers => g[place].subtree = TRUE)
  BY DEF Fits
<1>7. g[place].handlers = NoHandlers
  <2>1. Subtrees(g)
    BY GrownHandlers
  <2>2. g[place].subtree => g[place].handlers["GET"] # Nobody
    BY <1>5, <2>1 DEF Subtrees
  <2>3. QED
    BY <1>6, <2>2
<1>8. g[place] \in Node
  <2>1. CASE place \in DOMAIN t
    BY <1>2, <1>4, <2>1 DEF Nodes
  <2>2. CASE place \notin DOMAIN t
    <3>1. PICK i \in 1 .. Len(segments) : g[place] = Fresh(segments, i)
      BY <1>4, <1>5, <2>2
    <3>2. segments[i] \in Routable
      BY PlaceType
    <3>3. segments[i].name \in Segs \cup Names
      BY <3>2, KeyType
    <3>4. Fresh(segments, i) \in Node
      BY <3>3, NoHandlersType DEF Fresh, Node
    <3>5. QED
      BY <3>1, <3>4
  <2>3. QED
    BY <2>1, <2>2
<1>9. /\ d \in Node /\ d.name = g[place].name
      /\ d.handlers = [g[place].handlers EXCEPT ![handler.method] = handler]
      /\ d.subtree = (g[place].subtree \/ handler.subtree)
  BY <1>2, <1>8, HavingIs
<1>10. f = [g EXCEPT ![place] = d]
  BY DEF Inserted
<1>11. g = [node \in DOMAIN g |-> g[node]]
  BY DEF Grown
<1> HIDE DEF d, g, f
<1>12. /\ DOMAIN f = DOMAIN g /\ f[place] = d
       /\ \A node \in DOMAIN g : node # place => f[node] = g[node]
  BY <1>5, <1>10, <1>11
<1>13. \A node \in DOMAIN f : f[node].name = g[node].name
  BY <1>9, <1>12
<1>14. Clashes(f, segments) = {}
  <2>1. ASSUME NEW i \in 1 .. Len(segments), Key(segments[i]) \in Wildcards
        PROVE  f[Up(place, i)].name = segments[i].name
    <3>1. g[Up(place, i)].name = segments[i].name
      BY <1>1, <1>2, <1>3, <2>1, NamesAgree DEF g
    <3>2. Up(place, i) \in DOMAIN f
      BY <1>1, <1>4, <1>12
    <3>3. QED
      BY <1>13, <3>1, <3>2
  <2>2. QED
    BY <1>1, <2>1 DEF Clashes, Wildcards
<1>15. \A i \in 0 .. Len(segments) : Up(place, i) \in DOMAIN f
  BY <1>4, <1>12
<1>16. {Up(place, i) : i \in {i \in 0 .. Len(segments) :
                                \A c \in Clashes(f, segments) : i < c}} \subseteq DOMAIN f
  BY <1>15
<1>17. Grown(f, segments)[place] = f[place]
  BY <1>5, <1>12 DEF Grown
<1>18. d.handlers["HEAD"] = Nobody /\ d.handlers["GET"] = handler /\ d.subtree = TRUE
  <2>1. g[place].handlers \in [Methods -> Handler] /\ g[place].subtree \in BOOLEAN
    BY <1>8 DEF Node
  <2>2. QED
    BY <1>2, <1>7, <1>9, <2>1, NoHandlersType
<1>19. Fits(f, segments, "HEAD", TRUE)
  BY <1>12, <1>14, <1>17, <1>18 DEF Fits
<1>20. QED
  BY <1>2, <1>5, <1>12, <1>18, <1>19 DEF f

LEMMA InitialTree ==
    ASSUME Init PROVE TreeInv(tree)
<1> DEFINE root == [name |-> "", handlers |-> NoHandlers, subtree |-> FALSE]
<1>1. tree = [node \in {<<>>} |-> root]
  BY DEF Init
<1>2. DOMAIN tree = {<<>>} /\ tree[<<>>] = root
  BY <1>1
<1>3. root \in Node
  BY NoHandlersType DEF Node
<1>4. <<>> \in Seq(Keys) /\ Len(<<>>) = 0
  OBVIOUS
<1>5. Up(<<>>, 0) = <<>>
  BY <1>4, UpNone
<1>6. root.handlers = NoHandlers /\ root.subtree = FALSE
  OBVIOUS
<1> HIDE DEF root
<1>7. tree = [node \in DOMAIN tree |-> tree[node]]
  BY <1>1
<1>8. Nodes(tree)
  <2>1. \A i \in 0 .. Len(<<>>) : Up(<<>>, i) \in DOMAIN tree
    BY <1>2, <1>4, <1>5
  <2>2. QED
    BY <1>2, <1>3, <1>4, <1>7, <2>1 DEF Nodes
<1>9. Handlers(tree) /\ Subtrees(tree)
  BY <1>2, <1>6, NoHandlersType DEF Handlers, Subtrees
<1>10. QED
  BY <1>8, <1>9 DEF TreeInv

LEMMA HandleKeeps ==
    ASSUME TreeInv(tree), NEW method \in Methods \cup {""}, NEW pattern \in Patterns,
           Handle(method, pattern)
    PROVE  TreeInv(tree') /\ (verdict' = "refused" => tree' = tree)
<1> DEFINE segments == Segments(pattern)
           handler == [method |-> method, pattern |-> pattern, subtree |-> FALSE]
<1>1. CASE Translates(pattern) /\ method # ""
  <2>1. /\ tree' = Inserted(tree, segments, handler)
        /\ verdict' = IF Fits(tree, segments, method, FALSE) THEN "accepted" ELSE "refused"
    BY <1>1 DEF Handle, Record, Segments
  <2>2. pattern \in Seq(Routable) /\ method \in Methods
    BY <1>1, PatternsAreRoutable
  <2>3. TreeInv(tree')
    BY <2>1, <2>2, InsertedKeeps
  <2>4. CASE ~Fits(tree, segments, method, FALSE)
    <3>1. segments \in Seq(Routable)
      BY <2>2, SegmentsType
    <3>2. Grown(tree, segments) = tree
      BY <2>2, <2>4, <3>1, RefusedAddsNothing
    <3>3. handler.method = method /\ handler.subtree = FALSE
      OBVIOUS
    <3>4. Inserted(tree, segments, handler) = tree
      BY <2>4, <3>2, <3>3 DEF Inserted
    <3>5. QED
      BY <2>1, <2>3, <3>4
  <2>5. QED
    BY <2>1, <2>3, <2>4
<1>2. CASE ~(Translates(pattern) /\ method # "")
  BY <1>2 DEF Handle
<1>3. QED
  BY <1>1, <1>2

LEMMA HandleStaticKeeps ==
    ASSUME TreeInv(tree), NEW prefix \in Prefixes, HandleStatic(prefix)
    PROVE  TreeInv(tree') /\ (verdict' = "refused" => tree' = tree)
<1> DEFINE get == [method |-> "GET", pattern |-> prefix, subtree |-> TRUE]
           head == [method |-> "HEAD", pattern |-> prefix, subtree |-> TRUE]
           first == Inserted(tree, prefix, get)
<1>1. prefix \in Seq(Routable) /\ {"GET", "HEAD"} \subseteq Methods
  BY PatternsAreRoutable, MethodsAssumption
<1>2. CASE ~Parses(prefix)
  BY <1>2 DEF HandleStatic
<1>3. CASE Parses(prefix) /\ ~Fits(tree, prefix, "GET", TRUE)
  <2>1. tree' = first
    BY <1>3 DEF HandleStatic
  <2>2. Grown(tree, prefix) = tree
    BY <1>1, <1>3, RefusedAddsNothing
  <2>3. first = tree
    BY <1>3, <2>2 DEF Inserted
  <2>4. QED
    BY <2>1, <2>3
<1>4. CASE Parses(prefix) /\ Fits(tree, prefix, "GET", TRUE)
  <2>1. /\ tree' = Inserted(first, prefix, head)
        /\ verdict' = IF Fits(first, prefix, "HEAD", TRUE) THEN "accepted" ELSE "refused"
    BY <1>4 DEF HandleStatic, Record
  <2>2. Segments(prefix) = prefix
    BY <1>4 DEF Segments
  <2>3. get \in Handler /\ get.method = "GET" /\ get.subtree = TRUE
    BY <1>1 DEF Handler
  <2>4. TreeInv(first)
    <3>1. TreeInv(Inserted(tree, Segments(prefix), get))
      BY <1>1, <1>4, InsertedKeeps
    <3>2. QED
      BY <2>2, <3>1
  <2>5. /\ Fits(first, prefix, "HEAD", TRUE)
        /\ Place(prefix) \in DOMAIN first
        /\ first[Place(prefix)].handlers["GET"] # Nobody
    BY <1>1, <1>4, <2>3, HeadFollowsGet
  <2> HIDE DEF first
  <2>6. TreeInv(Inserted(first, Segments(prefix), head))
    BY <1>1, <1>4, <2>2, <2>4, <2>5, InsertedKeeps
  <2>7. QED
    BY <2>1, <2>2, <2>5, <2>6
<1>5. QED
  BY <1>2, <1>3, <1>4

-----------------------------------------------------------------------------
(* lookup.                                                                 *)

LEMMA PathIs ==
    ASSUME RequestType
    PROVE  /\ path.segs \in Seq(Segs) /\ path.tail \in 0 .. 2 /\ Size \in Nat
           /\ \A i \in 1 .. Size : path.segs[i] \in Segs
<1>1. path.segs \in Seq(Segs) /\ path.tail \in 0 .. 2
  BY DEF RequestType
<1>2. QED
  BY <1>1, LenProperties, ElementOfSeq DEF Size

LEMMA NoneIsNoNode ==
    ASSUME Nodes(tree) PROVE None \notin DOMAIN tree
<1>1. ASSUME None \in Seq(Keys) PROVE FALSE
  <2>1. None[1] = "none" /\ Len(None) = 1
    BY DEF None
  <2>2. 1 \in 1 .. Len(None)
    BY <2>1
  <2>3. None[1] \in Keys
    BY <1>1, <2>2, ElementOfSeq
  <2>4. QED
    BY <2>1, <2>3, SegsAssumption DEF Keys
<1>2. QED
  BY <1>1 DEF Nodes

LEMMA NodeIs ==
    ASSUME Nodes(tree), NEW node \in DOMAIN tree
    PROVE  /\ node \in Seq(Keys) /\ Len(node) \in Nat
           /\ \A i \in 1 .. Len(node) : node[i] \in Keys
           /\ tree[node] \in Node
           /\ tree[node].handlers \in [Methods -> Handler]
           /\ tree[node].subtree \in BOOLEAN
           /\ \A i \in 0 .. Len(node) : Up(node, i) \in DOMAIN tree
           /\ \A i \in 1 .. Len(node) - 1 : node[i] # "wild"
           /\ node # <<>> => tree[node].name \in Segs \cup Names
<1>1. /\ node \in Seq(Keys) /\ tree[node] \in Node
      /\ \A i \in 0 .. Len(node) : Up(node, i) \in DOMAIN tree
      /\ \A i \in 1 .. Len(node) - 1 : node[i] # "wild"
      /\ node # <<>> => tree[node].name # ""
  BY DEF Nodes
<1>2. Len(node) \in Nat /\ \A i \in 1 .. Len(node) : node[i] \in Keys
  BY <1>1, LenProperties, ElementOfSeq
<1>3. /\ tree[node].handlers \in [Methods -> Handler]
      /\ tree[node].subtree \in BOOLEAN
      /\ tree[node].name \in Segs \cup Names \cup {""}
  BY <1>1 DEF Node
<1>4. QED
  BY <1>1, <1>2, <1>3

LEMMA ChildIs ==
    ASSUME Nodes(tree), cur \in DOMAIN tree, NEW key, Has(key)
    PROVE  /\ Child(key) \in DOMAIN tree /\ Child(key) \in Seq(Keys) /\ key \in Keys
           /\ cur \in Seq(Keys) /\ Len(cur) \in Nat
           /\ Len(Child(key)) = Len(cur) + 1 /\ Child(key) # <<>>
           /\ Child(key)[Len(cur) + 1] = key
           /\ \A i \in 1 .. Len(cur) : Child(key)[i] = cur[i] /\ cur[i] # "wild"
           /\ \A i \in 0 .. Len(cur) : Up(Child(key), i) = Up(cur, i)
           /\ Up(Child(key), Len(cur) + 1) = Child(key)
           /\ tree[Child(key)].name \in Segs \cup Names
<1>1. cur \in Seq(Keys) /\ Len(cur) \in Nat /\ Child(key) \in DOMAIN tree
  BY NodeIs DEF Has
<1>2. cur \in Seq(Keys \cup {key})
  BY <1>1, SeqMonotonic
<1>3. /\ Append(cur, key) # <<>>
      /\ Len(Append(cur, key)) = Len(cur) + 1
      /\ \A i \in 1 .. Len(cur) : Append(cur, key)[i] = cur[i]
      /\ Append(cur, key)[Len(cur) + 1] = key
  BY <1>2, AppendProperties
<1>4. \A i \in 0 .. Len(cur) : Up(Append(cur, key), i) = Up(cur, i)
  BY <1>2, UpOfAppend
<1>5. /\ Child(key) \in Seq(Keys)
      /\ \A i \in 1 .. Len(Child(key)) : Child(key)[i] \in Keys
      /\ \A i \in 1 .. Len(Child(key)) - 1 : Child(key)[i] # "wild"
      /\ Child(key) # <<>> => tree[Child(key)].name \in Segs \cup Names
  BY <1>1, NodeIs
<1>6. Up(Child(key), Len(Child(key))) = Child(key)
  BY <1>5, UpAll
<1>7. key \in Keys
  BY <1>1, <1>3, <1>5 DEF Child
<1>8. \A i \in 1 .. Len(cur) : Child(key)[i] = cur[i] /\ cur[i] # "wild"
  BY <1>1, <1>3, <1>5 DEF Child
<1>9. QED
  BY <1>1, <1>3, <1>4, <1>5, <1>6, <1>7, <1>8 DEF Child

\* The subtree that is kept is one that the path is below of.
LEMMA BestCovers ==
    ASSUME RequestType, Nodes(tree), WalkInv, at = "walk"
    PROVE  /\ Best \in DOMAIN tree \cup {None}
           /\ Best # None => tree[Best].subtree /\ Covers(Best)
<1>1. /\ cur \in DOMAIN tree /\ best \in DOMAIN tree \cup {None}
      /\ idx \in 0 .. Size + 1 /\ Size \in Nat
  BY PathIs DEF RequestType
<1>2. Abreast /\ Fit(cur) /\ (best # None => tree[best].subtree /\ Covers(best))
  BY DEF WalkInv
<1>3. CASE tree[cur].subtree /\ (~AtEnd \/ Slashed(path))
  <2>1. ~AtEnd => idx <= Size
    BY <1>1 DEF AtEnd
  <2>2. Len(cur) < Size \/ Slashed(path)
    BY <1>1, <1>2, <1>3, <2>1 DEF Abreast
  <2>3. QED
    BY <1>1, <1>2, <1>3, <2>2 DEF Best, Covers
<1>4. CASE ~(tree[cur].subtree /\ (~AtEnd \/ Slashed(path)))
  BY <1>1, <1>2, <1>4 DEF Best
<1>5. QED
  BY <1>3, <1>4

\* A parameter more on the way.
LEMMA CollectedMore ==
    ASSUME RequestType, Nodes(tree), NEW key \in Wildcards, Has(key),
           Collected(params, cur)
    PROVE  Collected(Append(params, Value(Child(key), Len(cur) + 1)), Child(key))
<1> DEFINE node == Child(key)
           v == Value(node, Len(cur) + 1)
           ps == Append(params, v)
<1>1. cur \in DOMAIN tree /\ params \in Seq(Parameter) /\ Size \in Nat
  BY PathIs DEF RequestType
<1>2. /\ Len(cur) \in Nat /\ Len(node) = Len(cur) + 1
      /\ node[Len(cur) + 1] = key
      /\ \A i \in 1 .. Len(cur) : node[i] = cur[i]
      /\ \A i \in 0 .. Len(cur) : Up(node, i) = Up(cur, i)
      /\ Up(node, Len(cur) + 1) = node
      /\ tree[node].name \in Segs \cup Names
  BY <1>1, ChildIs
<1>3. v \in Parameter /\ v.from = Len(cur) + 1 /\ v.name = tree[node].name
  BY <1>1, <1>2 DEF Value, Parameter
<1>4. /\ Len(params) \in Nat /\ DOMAIN params = 1 .. Len(params)
      /\ DOMAIN ps = 1 .. Len(params) + 1
      /\ \A j \in DOMAIN params : ps[j] = params[j]
      /\ ps[Len(params) + 1] = v
  BY <1>1, <1>3, LenProperties, AppendProperties
<1>5. \A i \in 1 .. Len(cur) : Value(node, i) = Value(cur, i)
  BY <1>2 DEF Value
<1> HIDE DEF node, v, ps
<1>6. ASSUME NEW i \in 1 .. Len(node), node[i] \in Wildcards
      PROVE  \E j \in DOMAIN ps : ps[j] = Value(node, i)
  <2>1. CASE i = Len(cur) + 1
    BY <1>2, <1>4, <2>1 DEF v
  <2>2. CASE i # Len(cur) + 1
    <3>1. i \in 1 .. Len(cur)
      BY <1>2, <1>6, <2>2
    <3>2. PICK j \in DOMAIN params : params[j] = Value(cur, i)
      BY <1>2, <1>6, <3>1 DEF Collected
    <3>3. QED
      BY <1>4, <1>5, <3>1, <3>2
  <2>3. QED
    BY <2>1, <2>2
<1>7. ASSUME NEW j \in DOMAIN ps
      PROVE  /\ ps[j].from \in 1 .. Len(node) /\ node[ps[j].from] \in Wildcards
             /\ ps[j].name = tree[Up(node, ps[j].from)].name
             /\ j \in DOMAIN params =>
                   ps[j] = params[j] /\ ps[j].from \in 1 .. Len(cur)
             /\ j \notin DOMAIN params => ps[j].from = Len(cur) + 1
  <2>1. CASE j = Len(params) + 1
    BY <1>2, <1>3, <1>4, <2>1
  <2>2. CASE j # Len(params) + 1
    <3>1. j \in DOMAIN params
      BY <1>4, <1>7, <2>2
    <3>2. ps[j] = params[j]
      BY <1>4, <3>1
    <3>3. /\ params[j].from \in 1 .. Len(cur)
          /\ cur[params[j].from] \in Wildcards
          /\ params[j].name = tree[Up(cur, params[j].from)].name
      BY <3>1 DEF Collected
    <3>4. QED
      BY <1>2, <3>1, <3>2, <3>3
  <2>3. QED
    BY <2>1, <2>2
<1>8. ASSUME NEW j \in DOMAIN ps, NEW k \in DOMAIN ps, j < k
      PROVE  ps[j].from < ps[k].from
  <2>1. j \in DOMAIN params
    BY <1>4, <1>8
  <2>2. CASE k \in DOMAIN params
    BY <1>4, <1>8, <2>1, <2>2 DEF Collected
  <2>3. CASE k \notin DOMAIN params
    BY <1>2, <1>7, <2>1, <2>3
  <2>4. QED
    BY <2>2, <2>3
<1>9. QED
  BY <1>6, <1>7, <1>8 DEF Collected, node, v, ps

\* A literal on the way has no parameter.
LEMMA CollectedSame ==
    ASSUME RequestType, Nodes(tree), NEW key, key \notin Wildcards, Has(key),
           Collected(params, cur)
    PROVE  Collected(params, Child(key))
<1> DEFINE node == Child(key)
<1>1. cur \in DOMAIN tree
  BY DEF RequestType
<1>2. /\ Len(cur) \in Nat /\ Len(node) = Len(cur) + 1
      /\ node[Len(cur) + 1] = key
      /\ \A i \in 1 .. Len(cur) : node[i] = cur[i]
      /\ \A i \in 0 .. Len(cur) : Up(node, i) = Up(cur, i)
  BY <1>1, ChildIs
<1>3. \A i \in 1 .. Len(cur) : Value(node, i) = Value(cur, i)
  BY <1>2 DEF Value
<1> HIDE DEF node
<1>4. ASSUME NEW i \in 1 .. Len(node), node[i] \in Wildcards
      PROVE  \E j \in DOMAIN params : params[j] = Value(node, i)
  <2>1. i \in 1 .. Len(cur)
    BY <1>2, <1>4
  <2>2. QED
    BY <1>2, <1>3, <1>4, <2>1 DEF Collected
<1>5. ASSUME NEW j \in DOMAIN params
      PROVE  /\ params[j].from \in 1 .. Len(node)
             /\ node[params[j].from] \in Wildcards
             /\ params[j].name = tree[Up(node, params[j].from)].name
  <2>1. /\ params[j].from \in 1 .. Len(cur)
        /\ cur[params[j].from] \in Wildcards
        /\ params[j].name = tree[Up(cur, params[j].from)].name
    BY DEF Collected
  <2>2. QED
    BY <1>2, <2>1
<1>6. QED
  BY <1>4, <1>5 DEF Collected, node

\* How an iteration of the loop can end, for the invariant of the walk.
LEMMA FoundKeeps ==
    ASSUME RequestType, Nodes(tree), WalkInv, at = "walk",
           NEW node \in DOMAIN tree, Leave("found", node), params' \in Seq(Parameter),
           IF tree[node].subtree THEN Covers(node)
           ELSE Takes(node) /\ (~again => Collected(params', node))
    PROVE  RequestType' /\ WalkInv'
<1>1. /\ at' = "found" /\ cur' = node /\ best' = Best
      /\ tree' = tree /\ accepted' = accepted /\ verdict' = verdict
      /\ path' = path /\ again' = again /\ idx' = idx /\ answer' = answer
  BY DEF Leave, registry
<1>2. Best \in DOMAIN tree \cup {None}
  BY BestCovers
<1>3. RequestType'
  BY <1>1, <1>2 DEF RequestType, Size
<1>4. answer = Unanswered /\ (again => path.tail = 1)
  BY DEF WalkInv
<1>5. IF tree'[cur'].subtree THEN Covers(cur)'
      ELSE Takes(cur)' /\ (~again' => Collected(params, cur)')
  <2>1. Covers(node) => Covers(cur)'
    BY <1>1 DEF Covers, Takes, Fit, ToWildcard, Size, Slashed
  <2>2. Takes(node) => Takes(cur)'
    BY <1>1 DEF Takes, Fit, ToWildcard, Size, Slashed
  <2>3. Collected(params', node) => Collected(params, cur)'
    BY <1>1 DEF Collected, Value, Size
  <2>4. QED
    BY <1>1, <2>1, <2>2, <2>3
<1>6. WalkInv'
  BY <1>1, <1>4, <1>5 DEF WalkInv
<1>7. QED
  BY <1>3, <1>6

LEMMA MissedKeeps ==
    ASSUME RequestType, Nodes(tree), WalkInv, at = "walk",
           Leave("missed", cur), params' = params
    PROVE  RequestType' /\ WalkInv'
<1>1. /\ at' = "missed" /\ cur' = cur /\ best' = Best
      /\ tree' = tree /\ accepted' = accepted /\ verdict' = verdict
      /\ path' = path /\ again' = again /\ idx' = idx /\ answer' = answer
  BY DEF Leave, registry
<1>2. Best \in DOMAIN tree \cup {None}
  BY BestCovers
<1>3. RequestType'
  BY <1>1, <1>2 DEF RequestType, Size
<1>4. answer = Unanswered /\ (again => path.tail = 1)
  BY DEF WalkInv
<1>5. WalkInv'
  BY <1>1, <1>4 DEF WalkInv
<1>6. QED
  BY <1>3, <1>5

LEMMA DescendKeeps ==
    ASSUME RequestType, Nodes(tree), WalkInv, at = "walk", ~AtEnd,
           NEW key, Has(key), Descend(key),
           key = "param" \/ (idx < Size /\ key = path.segs[idx + 1] /\ key # "wild"),
           params' \in Seq(Parameter), ~again => Collected(params', Child(key))
    PROVE  RequestType' /\ WalkInv'
<1> DEFINE node == Child(key)
<1>1. /\ cur' = node /\ idx' = Beyond(path, idx + 1) /\ best' = Best
      /\ tree' = tree /\ accepted' = accepted /\ verdict' = verdict
      /\ at' = at /\ path' = path /\ again' = again /\ answer' = answer
  BY DEF Descend, registry
<1>2. /\ cur \in DOMAIN tree /\ Size \in Nat /\ idx \in 0 .. Size /\ path.tail \in 0 .. 2
  BY PathIs DEF RequestType, AtEnd
<1>3. /\ Abreast /\ Fit(cur) /\ answer = Unanswered /\ (again => path.tail = 1)
      /\ \A i \in 1 .. Len(cur) : cur[i] # "wild"
  BY DEF WalkInv
<1>4. Len(cur) = idx /\ (idx = Size => Slashed(path))
  BY <1>2, <1>3 DEF Abreast
<1>5. /\ Best \in DOMAIN tree \cup {None}
      /\ Best # None => tree[Best].subtree /\ Covers(Best)
  BY BestCovers
<1>6. /\ node \in DOMAIN tree /\ Len(node) = idx + 1 /\ node[idx + 1] = key
      /\ \A i \in 1 .. idx : node[i] = cur[i] /\ cur[i] # "wild"
  BY <1>2, <1>4, ChildIs
<1>7. /\ idx' \in 0 .. Size + 1
      /\ idx' <= Size => idx' = idx + 1 /\ (idx' = Size => Slashed(path))
      /\ idx' = Size + 1 =>
            idx + 1 = Size \/ (idx + 1 = Size + 1 /\ Slashed(path))
  BY <1>1, <1>2, <1>4 DEF Beyond, Slashed, Size
<1> HIDE DEF node
<1>8. RequestType'
  BY <1>1, <1>2, <1>5, <1>6, <1>7 DEF RequestType, Size
<1>9. Abreast'
  BY <1>1, <1>6, <1>7 DEF Abreast, AtEnd, Size, Slashed
<1>10. Fit(node)
  <2>1. ASSUME NEW i \in 1 .. Len(node)
        PROVE  node[i] \in Wildcards \/ (i <= Size /\ node[i] = path.segs[i])
    <3>1. CASE i = idx + 1
      BY <1>2, <1>6, <3>1 DEF Wildcards
    <3>2. CASE i # idx + 1
      <4>1. i \in 1 .. Len(cur) /\ node[i] = cur[i]
        BY <1>2, <1>4, <1>6, <2>1, <3>2
      <4>2. QED
        BY <1>3, <4>1 DEF Fit
    <3>3. QED
      BY <3>1, <3>2
  <2>2. QED
    BY <2>1 DEF Fit
<1>11. Fit(cur)'
  BY <1>1, <1>10 DEF Fit, Size
<1>12. \A i \in 1 .. Len(node) : node[i] # "wild"
  <2>1. key # "wild"
    OBVIOUS
  <2>2. QED
    BY <1>2, <1>6, <2>1
<1>13. ~again' => Collected(params, cur)'
  BY <1>1 DEF Collected, Value, Size, node
<1>14. best' # None => tree'[best'].subtree /\ Covers(best)'
  BY <1>1, <1>5 DEF Covers, Takes, Fit, ToWildcard, Size, Slashed
<1>15. WalkInv'
  BY <1>1, <1>3, <1>9, <1>11, <1>12, <1>13, <1>14 DEF WalkInv
<1>16. QED
  BY <1>8, <1>15

LEMMA LookupKeeps ==
    ASSUME RequestType, Nodes(tree), WalkInv, Lookup
    PROVE  RequestType' /\ WalkInv'
<1>1. at = "walk"
  BY DEF Lookup
<1>2. /\ cur \in DOMAIN tree /\ Size \in Nat /\ idx \in 0 .. Size + 1
      /\ params \in Seq(Parameter) /\ path.tail \in 0 .. 2
      /\ \A i \in 1 .. Size : path.segs[i] \in Segs
  BY PathIs DEF RequestType, Parameter
<1>3. /\ Abreast /\ Fit(cur) /\ (~again => Collected(params, cur))
      /\ \A i \in 1 .. Len(cur) : cur[i] # "wild"
  BY <1>1 DEF WalkInv
<1>4. cur \in Seq(Keys) /\ Len(cur) \in Nat
  BY <1>2, NodeIs
<1>5. Best \in DOMAIN tree \cup {None} /\ (Best # None => tree[Best].subtree /\ Covers(Best))
  BY <1>1, BestCovers
<1>6. ASSUME FallBack PROVE RequestType' /\ WalkInv'
  <2>1. CASE Best = None
    BY <1>1, <1>6, <2>1, MissedKeeps DEF FallBack
  <2>2. CASE Best # None
    BY <1>1, <1>2, <1>5, <1>6, <2>2, FoundKeeps DEF FallBack
  <2>3. QED
    BY <2>1, <2>2
<1>7. ASSUME EndExact PROVE RequestType' /\ WalkInv'
  <2>1. AtEnd /\ Leave("found", cur) /\ params' = params /\ tree[cur].subtree = Slashed(path)
    BY <1>7 DEF EndExact, Exact
  <2>2. ~ToWildcard(cur)
    <3>1. cur # <<>> => Len(cur) \in 1 .. Len(cur)
      BY <1>4
    <3>2. QED
      BY <1>3, <3>1 DEF ToWildcard
  <2>3. CASE Slashed(path)
    BY <1>1, <1>2, <1>3, <2>1, <2>3, FoundKeeps DEF Covers
  <2>4. CASE ~Slashed(path)
    <3>1. Takes(cur)
      BY <1>2, <1>3, <2>1, <2>2, <2>4 DEF Takes, Abreast
    <3>2. QED
      BY <1>1, <1>2, <1>3, <2>1, <2>4, <3>1, FoundKeeps
  <2>5. QED
    BY <2>3, <2>4
<1>8. ASSUME Has("wild"), Slashed(path) \/ (~AtEnd /\ idx < Size),
             Leave("found", Child("wild")),
             params' = Append(params, Value(Child("wild"), Len(cur) + 1)),
             AtEnd => Slashed(path)
      PROVE  RequestType' /\ WalkInv'
  <2> DEFINE node == Child("wild")
  <2>1. /\ node \in DOMAIN tree /\ Len(node) = Len(cur) + 1 /\ node # <<>>
        /\ node[Len(cur) + 1] = "wild"
        /\ \A i \in 1 .. Len(cur) : node[i] = cur[i]
        /\ Up(node, Len(cur) + 1) = node
        /\ tree[node].name \in Segs \cup Names
    BY <1>2, <1>8, ChildIs
  <2>2. Value(node, Len(cur) + 1) \in Parameter
    BY <1>2, <1>4, <2>1 DEF Value, Parameter
  <2>3. params' \in Seq(Parameter)
    BY <1>2, <1>8, <2>2, AppendProperties
  <2>4. ~again => Collected(params', node)
    BY <1>3, <1>8, CollectedMore DEF Wildcards
  <2> HIDE DEF node
  <2>5. Fit(node)
    <3>1. ASSUME NEW i \in 1 .. Len(node)
          PROVE  node[i] \in Wildcards \/ (i <= Size /\ node[i] = path.segs[i])
      <4>1. CASE i = Len(cur) + 1
        BY <2>1, <4>1 DEF Wildcards
      <4>2. CASE i # Len(cur) + 1
        <5>1. i \in 1 .. Len(cur) /\ node[i] = cur[i]
          BY <1>4, <2>1, <3>1, <4>2
        <5>2. QED
          BY <1>3, <5>1 DEF Fit
      <4>3. QED
        BY <4>1, <4>2
    <3>2. QED
      BY <3>1 DEF Fit
  <2>6. ToWildcard(node)
    BY <2>1 DEF ToWildcard
  <2>7. Len(node) <= Size \/ Slashed(path)
    BY <1>2, <1>3, <1>4, <1>8, <2>1 DEF Abreast
  <2>8. Takes(node) /\ Covers(node)
    BY <2>5, <2>6, <2>7 DEF Takes, Covers
  <2>9. QED
    BY <1>1, <1>8, <2>1, <2>3, <2>4, <2>8, FoundKeeps DEF node
<1>9. ASSUME EndWild PROVE RequestType' /\ WalkInv'
  <2>1. /\ AtEnd /\ Has("wild") /\ Slashed(path) /\ Leave("found", Child("wild"))
        /\ params' = Append(params, [name |-> tree[Child("wild")].name,
                                     from |-> Len(cur) + 1, to |-> Size])
    BY <1>9 DEF EndWild
  <2>2. /\ Child("wild")[Len(cur) + 1] = "wild"
        /\ Up(Child("wild"), Len(cur) + 1) = Child("wild")
    BY <1>2, <2>1, ChildIs
  <2>3. params' = Append(params, Value(Child("wild"), Len(cur) + 1))
    BY <2>1, <2>2 DEF Value
  <2>4. QED
    BY <1>8, <2>1, <2>3
<1>10. ASSUME ToWild PROVE RequestType' /\ WalkInv'
  <2>1. /\ ~AtEnd /\ Has("wild") /\ Leave("found", Child("wild"))
        /\ params' = Append(params, [name |-> tree[Child("wild")].name,
                                     from |-> idx + 1, to |-> Size])
    BY <1>10 DEF ToWild
  <2>2. /\ Child("wild")[Len(cur) + 1] = "wild"
        /\ Up(Child("wild"), Len(cur) + 1) = Child("wild")
    BY <1>2, <2>1, ChildIs
  <2>3. Len(cur) = idx /\ (idx < Size \/ Slashed(path))
    BY <1>2, <1>3, <2>1 DEF Abreast, AtEnd
  <2>4. params' = Append(params, Value(Child("wild"), Len(cur) + 1))
    BY <2>1, <2>2, <2>3 DEF Value
  <2>5. QED
    BY <1>8, <2>1, <2>3, <2>4
<1>11. ASSUME ToLiteral PROVE RequestType' /\ WalkInv'
  <2>1. ~AtEnd /\ Has(Seg) /\ Descend(Seg) /\ params' = params
    BY <1>11 DEF ToLiteral
  <2>2. Seg \in Keys
    BY <1>2, <2>1, ChildIs
  <2>3. idx < Size
    BY <1>2, <2>1, <2>2, SegsAssumption DEF Seg, Keys
  <2>4. Seg = path.segs[idx + 1] /\ Seg \in Segs
    BY <1>2, <2>3 DEF Seg
  <2>5. Seg \notin Wildcards /\ Seg # "wild"
    BY <2>4, SegsAssumption DEF Wildcards
  <2>6. ~again => Collected(params', Child(Seg))
    BY <1>3, <2>1, <2>5, CollectedSame
  <2>7. QED
    BY <1>1, <1>2, <2>1, <2>3, <2>4, <2>5, <2>6, DescendKeeps
<1>12. ASSUME ToParam PROVE RequestType' /\ WalkInv'
  <2>1. /\ ~AtEnd /\ Has("param") /\ Descend("param")
        /\ params' = Append(params, [name |-> tree[Child("param")].name,
                                     from |-> idx + 1,
                                     to |-> IF idx < Size THEN idx + 1 ELSE idx])
    BY <1>12 DEF ToParam
  <2>2. /\ Child("param")[Len(cur) + 1] = "param"
        /\ Up(Child("param"), Len(cur) + 1) = Child("param")
        /\ tree[Child("param")].name \in Segs \cup Names
    BY <1>2, <2>1, ChildIs
  <2>3. Len(cur) = idx /\ idx \in 0 .. Size
    BY <1>2, <1>3, <2>1 DEF Abreast, AtEnd
  <2>4. (IF idx < Size THEN idx + 1 ELSE idx) = (IF idx + 1 <= Size THEN idx + 1 ELSE Size)
    BY <1>2, <2>3
  <2>5. Value(Child("param"), Len(cur) + 1) =
           [name |-> tree[Child("param")].name, from |-> idx + 1,
            to |-> IF idx < Size THEN idx + 1 ELSE idx]
    BY <2>2, <2>3, <2>4 DEF Value
  <2>6. Value(Child("param"), Len(cur) + 1) \in Parameter
    BY <1>2, <2>2, <2>3, <2>5 DEF Parameter
  <2>7. params' = Append(params, Value(Child("param"), Len(cur) + 1))
    BY <2>1, <2>5
  <2>8. params' \in Seq(Parameter)
    BY <1>2, <2>6, <2>7, AppendProperties
  <2>9. ~again => Collected(params', Child("param"))
    BY <1>3, <2>1, <2>7, CollectedMore DEF Wildcards
  <2>10. QED
    BY <1>1, <2>1, <2>8, <2>9, DescendKeeps
<1>13. QED
  BY <1>6, <1>7, <1>9, <1>10, <1>11, <1>12 DEF Lookup, EndNothing, Stuck

-----------------------------------------------------------------------------
(* ServeHTTP, and the registrations before it.                             *)

LEMMA WalkBegins ==
    ASSUME RequestType, Nodes(tree), NEW p \in [segs : Seq(Segs), tail : 0 .. 2],
           NEW second \in BOOLEAN, Walk(p, second),
           UNCHANGED <<registry, params, answer>>,
           answer = Unanswered, second => p.tail = 1, ~second => params = <<>>
    PROVE  RequestType' /\ WalkInv'
<1>1. /\ at' = "walk" /\ path' = p /\ again' = second
      /\ cur' = <<>> /\ idx' = Start(p) /\ best' = None
      /\ tree' = tree /\ accepted' = accepted /\ verdict' = verdict
      /\ params' = params /\ answer' = answer
  BY DEF Walk, registry
<1>2. p.segs \in Seq(Segs) /\ p.tail \in 0 .. 2 /\ Len(p.segs) \in Nat
  BY LenProperties
<1>3. p.segs # <<>> => Len(p.segs) > 0
  BY <1>2
<1>4. Size' = Len(p.segs)
  BY <1>1 DEF Size
<1>5. /\ idx' \in 0 .. Size' + 1
      /\ idx' <= Size' => idx' = 0 /\ (idx' = Size' => Slashed(p))
      /\ idx' = Size' + 1 => Size' = 0
  BY <1>1, <1>2, <1>3, <1>4 DEF Start, Slashed
<1>6. <<>> \in DOMAIN tree /\ Len(<<>>) = 0
  BY DEF Nodes
<1>7. RequestType'
  BY <1>1, <1>5, <1>6 DEF RequestType
<1>8. Abreast'
  BY <1>1, <1>5, <1>6 DEF Abreast, AtEnd
<1>9. Fit(cur)' /\ \A i \in 1 .. Len(cur') : cur'[i] # "wild"
  BY <1>1, <1>6 DEF Fit
<1>10. ~again' => Collected(params, cur)'
  BY <1>1, <1>6 DEF Collected
<1>11. WalkInv'
  BY <1>1, <1>8, <1>9, <1>10 DEF WalkInv
<1>12. QED
  BY <1>7, <1>11

LEMMA HandlerOfType ==
    ASSUME RequestType, TreeInv(tree), NEW method \in Methods
    PROVE  /\ HandlerOf(cur, method) \in Handler
           /\ HandlerOf(cur, method) # Nobody =>
                 \E m \in Methods :
                    /\ m = method \/ (method = "HEAD" /\ m = "GET")
                    /\ HandlerOf(cur, method) = tree[cur].handlers[m]
                    /\ Settled(tree, cur, m, tree[cur].handlers[m])
<1>1. cur \in DOMAIN tree /\ Nodes(tree) /\ Handlers(tree) /\ "GET" \in Methods
  BY MethodsAssumption DEF RequestType, TreeInv
<1>2. tree[cur].handlers \in [Methods -> Handler]
  BY <1>1, NodeIs
<1>3. CASE tree[cur].handlers[method] = Nobody /\ method = "HEAD"
  <2>1. HandlerOf(cur, method) = tree[cur].handlers["GET"]
    BY <1>3 DEF HandlerOf
  <2>2. QED
    BY <1>1, <1>2, <1>3, <2>1 DEF Handlers
<1>4. CASE ~(tree[cur].handlers[method] = Nobody /\ method = "HEAD")
  <2>1. HandlerOf(cur, method) = tree[cur].handlers[method]
    BY <1>4 DEF HandlerOf
  <2>2. QED
    BY <1>1, <1>2, <2>1 DEF Handlers
<1>5. QED
  BY <1>3, <1>4

LEMMA AnswerKeeps ==
    ASSUME RequestType, WalkInv, NEW a, Answer(a),
           a.kind \in {"served", "options", "not_allowed", "moved", "not_found"},
           a.handler \in Handler, a.allow \subseteq Methods
    PROVE  RequestType' /\ WalkInv'
<1>1. /\ at' = "answered" /\ answer' = a
      /\ tree' = tree /\ accepted' = accepted /\ verdict' = verdict
      /\ path' = path /\ again' = again /\ cur' = cur /\ idx' = idx /\ best' = best
      /\ params' = params
  BY DEF Answer, registry
<1>2. RequestType'
  BY <1>1 DEF RequestType, Size
<1>3. WalkInv'
  BY <1>1 DEF WalkInv
<1>4. QED
  BY <1>2, <1>3

LEMMA UnansweredType ==
    /\ Unanswered.kind = "none" /\ Unanswered.handler \in Handler
    /\ Unanswered.allow \subseteq Methods
BY DEF Unanswered, Handler

LEMMA ShortAnswerType ==
    ASSUME NEW kind
    PROVE  /\ [Unanswered EXCEPT !.kind = kind].kind = kind
           /\ [Unanswered EXCEPT !.kind = kind].handler = Nobody
           /\ [Unanswered EXCEPT !.kind = kind].allow = {}
BY DEF Unanswered

LEMMA ServeHTTPKeeps ==
    ASSUME RequestType, TreeInv(tree), WalkInv,
           \/ \E p \in Paths : Request(p)
           \/ Retry \/ Redirect \/ NoRoute \/ Return
           \/ \E method \in Methods : Serve(method) \/ Refuse(method)
    PROVE  RequestType' /\ WalkInv'
<1>1. Nodes(tree)
  BY DEF TreeInv
<1>2. ASSUME NEW p \in Paths, Request(p) PROVE RequestType' /\ WalkInv'
  <2>1. /\ at \in {"idle", "ready"} /\ Walk(p, FALSE)
        /\ UNCHANGED <<registry, params, answer>>
    BY <1>2 DEF Request
  <2>2. p \in [segs : Seq(Segs), tail : 0 .. 2]
    BY PathsAssumption
  <2>3. answer = Unanswered /\ params = <<>>
    BY <2>1 DEF WalkInv
  <2>4. QED
    BY <1>1, <2>1, <2>2, <2>3, WalkBegins
<1>3. ASSUME Retry PROVE RequestType' /\ WalkInv'
  <2> DEFINE p == [path EXCEPT !.tail = 1]
  <2>1. at = "missed" /\ Walk(p, TRUE) /\ UNCHANGED <<registry, params, answer>>
    BY <1>3 DEF Retry
  <2>2. p \in [segs : Seq(Segs), tail : 0 .. 2] /\ p.tail = 1
    BY DEF RequestType
  <2>3. answer = Unanswered
    BY <2>1 DEF WalkInv
  <2> HIDE DEF p
  <2>4. QED
    BY <1>1, <2>1, <2>2, <2>3, WalkBegins
<1>4. ASSUME Redirect PROVE RequestType' /\ WalkInv'
  <2> DEFINE a == [Unanswered EXCEPT !.kind = "moved"]
  <2>1. Answer(a)
    BY <1>4 DEF Redirect
  <2>2. a.kind = "moved" /\ a.handler = Nobody /\ a.allow = {}
    BY ShortAnswerType
  <2> HIDE DEF a
  <2>3. QED
    BY <2>1, <2>2, AnswerKeeps DEF Handler
<1>5. ASSUME NoRoute PROVE RequestType' /\ WalkInv'
  <2> DEFINE a == [Unanswered EXCEPT !.kind = "not_found"]
  <2>1. Answer(a)
    BY <1>5 DEF NoRoute
  <2>2. a.kind = "not_found" /\ a.handler = Nobody /\ a.allow = {}
    BY ShortAnswerType
  <2> HIDE DEF a
  <2>3. QED
    BY <2>1, <2>2, AnswerKeeps DEF Handler
<1>6. ASSUME Return PROVE RequestType' /\ WalkInv'
  <2>1. /\ at' = "ready" /\ path' = NoPath /\ again' = FALSE /\ cur' = <<>> /\ idx' = 0
        /\ best' = None /\ params' = <<>> /\ answer' = Unanswered
        /\ tree' = tree /\ accepted' = accepted /\ verdict' = verdict
    BY <1>6 DEF Return, registry
  <2>2. NoPath \in [segs : Seq(Segs), tail : 0 .. 2] /\ Len(NoPath.segs) = 0
    BY DEF NoPath
  <2>3. <<>> \in Seq(Parameter) /\ 0 \in 0 .. 0 + 1
    OBVIOUS
  <2>4. <<>> \in DOMAIN tree
    BY <1>1 DEF Nodes
  <2>5. RequestType'
    BY <2>1, <2>2, <2>3, <2>4, UnansweredType DEF RequestType, Size
  <2>6. WalkInv'
    BY <2>1 DEF WalkInv
  <2>7. QED
    BY <2>5, <2>6
<1>7. ASSUME NEW method \in Methods, Serve(method) PROVE RequestType' /\ WalkInv'
  <2> DEFINE handler == HandlerOf(cur, method)
             a == [kind |-> "served", method |-> method, handler |-> handler,
                   params |-> IF Named(handler.pattern) /\ ~handler.subtree
                              THEN params ELSE <<>>,
                   allow |-> {}]
  <2>1. Answer(a)
    BY <1>7 DEF Serve
  <2>2. a.kind = "served" /\ a.handler = handler /\ a.allow = {}
    OBVIOUS
  <2>3. handler \in Handler
    BY HandlerOfType
  <2> HIDE DEF a, handler
  <2>4. QED
    BY <2>1, <2>2, <2>3, AnswerKeeps
<1>8. ASSUME NEW method \in Methods, Refuse(method) PROVE RequestType' /\ WalkInv'
  <2> DEFINE a == [kind |-> IF method = "OPTIONS" THEN "options" ELSE "not_allowed",
                   method |-> method, handler |-> Nobody, params |-> <<>>,
                   allow |-> Allow(cur)]
  <2>1. Answer(a)
    BY <1>8 DEF Refuse
  <2>2. /\ a.kind \in {"options", "not_allowed"} /\ a.handler = Nobody
        /\ a.allow = Allow(cur)
    OBVIOUS
  <2>3. Allow(cur) \subseteq Methods
    BY MethodsAssumption DEF Allow
  <2> HIDE DEF a
  <2>4. QED
    BY <2>1, <2>2, <2>3, AnswerKeeps DEF Handler
<1>9. QED
  BY <1>2, <1>3, <1>4, <1>5, <1>6, <1>7, <1>8

LEMMA OneMoreRoute ==
    \A n \in 0 .. MaxRoutes : n < MaxRoutes => n + 1 \in 0 .. MaxRoutes
BY MaxRoutesAssumption

LEMMA RegistrationKeeps ==
    ASSUME RequestType, TreeInv(tree), WalkInv,
           \/ \E pattern \in Patterns, method \in Methods \cup {""} :
                 Handle(method, pattern)
           \/ \E prefix \in Prefixes : HandleStatic(prefix)
    PROVE  /\ RequestType' /\ TreeInv(tree') /\ WalkInv'
           /\ at' = "idle" /\ answer' = Unanswered
           /\ verdict' = "refused" => tree' = tree
<1>1. TreeInv(tree') /\ (verdict' = "refused" => tree' = tree)
  BY HandleKeeps, HandleStaticKeeps
<1>2. /\ at = "idle" /\ accepted < MaxRoutes /\ UNCHANGED request
      /\ \E ok \in BOOLEAN : Record(ok)
  <2>1. ASSUME NEW pattern \in Patterns, NEW method \in Methods \cup {""},
               Handle(method, pattern)
        PROVE  /\ at = "idle" /\ accepted < MaxRoutes /\ UNCHANGED request
               /\ \E ok \in BOOLEAN : Record(ok)
    BY <2>1 DEF Handle, Fits
  <2>2. ASSUME NEW prefix \in Prefixes, HandleStatic(prefix)
        PROVE  /\ at = "idle" /\ accepted < MaxRoutes /\ UNCHANGED request
               /\ \E ok \in BOOLEAN : Record(ok)
    BY <2>2 DEF HandleStatic, Fits
  <2>3. QED
    BY <2>1, <2>2
<1>3. /\ at' = at /\ path' = path /\ again' = again /\ cur' = cur /\ idx' = idx
      /\ best' = best /\ params' = params /\ answer' = answer
  BY <1>2 DEF request
<1>4. /\ ~again /\ params = <<>> /\ cur = <<>> /\ best = None /\ answer = Unanswered
  BY <1>2 DEF WalkInv
<1>5. accepted' \in 0 .. MaxRoutes /\ verdict' \in {"accepted", "refused"}
  <2>1. accepted \in 0 .. MaxRoutes /\ accepted < MaxRoutes
    BY <1>2 DEF RequestType
  <2>2. PICK ok \in BOOLEAN : Record(ok)
    BY <1>2
  <2>3. /\ accepted' = accepted + 1 \/ accepted' = accepted
        /\ verdict' \in {"accepted", "refused"}
    BY <2>2 DEF Record
  <2>4. QED
    BY <2>1, <2>3, OneMoreRoute
<1>6. <<>> \in DOMAIN tree'
  BY <1>1 DEF TreeInv, Nodes
<1>7. RequestType'
  BY <1>3, <1>4, <1>5, <1>6 DEF RequestType, Size
<1>8. WalkInv'
  BY <1>2, <1>3, <1>4 DEF WalkInv
<1>9. QED
  BY <1>1, <1>2, <1>3, <1>4, <1>7, <1>8

-----------------------------------------------------------------------------
(* The handler that runs.                                                  *)

LEMMA LastOfIs ==
    ASSUME NEW n \in Nat, NEW S, S \subseteq 1 .. n, S # {}
    PROVE  LastOf(S) \in S /\ \A j \in S : j <= LastOf(S)
<1> DEFINE T == {n - j : j \in S}
<1>1. T \subseteq Nat /\ T # {}
  <2>1. \A j \in 1 .. n : n - j \in Nat
    OBVIOUS
  <2>2. \A j \in S : n - j \in Nat
    BY <2>1
  <2>3. QED
    BY <2>2
<1>2. PICK x \in T : \A y \in T : ~(<<y, x>> \in OpToRel(<, Nat))
  BY <1>1, WFMin, NatLessThanWellFounded, Zenon
<1>3. \A y \in T : ~(y < x)
  BY <1>1, <1>2 DEF OpToRel
<1>4. PICK i \in S : x = n - i
  BY <1>2
<1>5. \A j \in S : j <= i
  <2>1. ASSUME NEW j \in S PROVE j <= i
    <3>1. ~(n - j < n - i)
      BY <1>3, <1>4
    <3>2. i \in 1 .. n /\ j \in 1 .. n
      OBVIOUS
    <3>3. QED
      BY <3>1, <3>2
  <2>2. QED
    BY <2>1
<1>6. QED
  BY <1>4, <1>5 DEF LastOf

LEMMA PatternIsSeq ==
    ASSUME NEW handler \in Handler, handler # Nobody
    PROVE  \E S : handler.pattern \in Seq(S)
<1>1. handler.pattern \in Patterns \cup Prefixes
  BY DEF Handler
<1>2. Patterns \subseteq Seq(Part) /\ Prefixes \subseteq Seq(Text \cup Braces)
  BY PatternsAssumption, PrefixesAssumption
<1>3. QED
  BY <1>1, <1>2

\* A node reads the path just as the pattern that leads to it does.
LEMMA NodeReads ==
    ASSUME NEW node, NEW S, NEW pattern \in Seq(S), node = Place(pattern)
    PROVE  /\ Len(node) = Len(pattern)
           /\ \A i \in 1 .. Len(pattern) :
                 node[i] = Key(pattern[i]) /\ (node[i] \in Wildcards <=> IsParameter(pattern[i]))
           /\ Fit(node) <=> Follows(pattern, path)
           /\ Takes(node) <=> Reads(pattern, path)
           /\ Covers(node) <=> Under(pattern, path)
<1>1. DOMAIN pattern = 1 .. Len(pattern) /\ Len(pattern) \in Nat
  BY LenProperties
<1>2. /\ DOMAIN node = 1 .. Len(pattern)
      /\ \A i \in 1 .. Len(pattern) : node[i] = Key(pattern[i])
  BY <1>1 DEF Place
<1>3. node \in Seq({Key(pattern[i]) : i \in 1 .. Len(pattern)}) /\ Len(node) = Len(pattern)
  <2>1. node = [i \in 1 .. Len(pattern) |-> Key(pattern[i])]
    BY <1>1 DEF Place
  <2>2. QED
    BY <2>1
<1>4. \A i \in 1 .. Len(pattern) : node[i] \in Wildcards <=> IsParameter(pattern[i])
  BY <1>2 DEF Wildcards, IsParameter
<1>5. Fit(node) <=> Follows(pattern, path)
  BY <1>1, <1>2, <1>3, <1>4 DEF Fit, Follows, Size
<1>6. ToWildcard(node) <=> EndsWild(pattern)
  <2>1. node = <<>> <=> pattern = <<>>
    BY <1>1, <1>3
  <2>2. node # <<>> => Len(pattern) \in 1 .. Len(pattern)
    BY <1>1, <1>3
  <2>3. QED
    BY <1>2, <1>3, <2>1, <2>2 DEF ToWildcard, EndsWild
<1>7. Takes(node) <=> Reads(pattern, path)
  BY <1>3, <1>5, <1>6 DEF Takes, Reads, Size
<1>8. Covers(node) <=> Under(pattern, path)
  BY <1>3, <1>5, <1>6, <1>7 DEF Covers, Under, Size
<1>9. QED
  BY <1>2, <1>3, <1>4, <1>5, <1>7, <1>8

\* The parameters of the way are those of the pattern.
LEMMA AllAreGiven ==
    ASSUME RequestType, NEW node, NEW S, NEW pattern \in Seq(S), node = Place(pattern),
           Collected(params, node),
           \A i \in 1 .. Len(node) :
              node[i] \in Wildcards => tree[Up(node, i)].name = pattern[i].name
    PROVE  Given(pattern, path, params)
<1>1. /\ DOMAIN pattern = 1 .. Len(pattern) /\ Len(pattern) \in Nat
      /\ DOMAIN params = 1 .. Len(params) /\ Len(params) \in Nat /\ Size \in Nat
  BY PathIs, LenProperties DEF RequestType
<1>2. /\ Len(node) = Len(pattern)
      /\ \A i \in 1 .. Len(pattern) :
            node[i] = Key(pattern[i]) /\ (node[i] \in Wildcards <=> IsParameter(pattern[i]))
  BY NodeReads
<1>3. ASSUME NEW name, NEW k \in 1 .. Len(pattern),
             IsParameter(pattern[k]), pattern[k].name = name,
             NEW i, i = LastOf({j \in DOMAIN pattern :
                                  IsParameter(pattern[j]) /\ pattern[j].name = name})
      PROVE  /\ \E j \in DOMAIN params : params[j].name = name
             /\ Param(params, name).from = i
             /\ Param(params, name).to =
                   IF Key(pattern[i]) = "param" /\ i <= Len(path.segs) THEN i
                   ELSE Len(path.segs)
  <2> DEFINE places == {j \in DOMAIN pattern :
                          IsParameter(pattern[j]) /\ pattern[j].name = name}
             found == {j \in DOMAIN params : params[j].name = name}
             last == LastOf(found)
  <2>1. i \in places /\ \A j \in places : j <= i
    <3>1. places \subseteq 1 .. Len(pattern) /\ k \in places
      BY <1>1, <1>3
    <3> HIDE DEF places
    <3>2. LastOf(places) \in places /\ \A j \in places : j <= LastOf(places)
      BY <1>1, <3>1, LastOfIs
    <3>3. QED
      BY <1>3, <3>2 DEF places
  <2>2. i \in 1 .. Len(node) /\ node[i] \in Wildcards /\ pattern[i].name = name
    BY <1>1, <1>2, <2>1
  <2>3. PICK j \in DOMAIN params : params[j] = Value(node, i)
    BY <2>2 DEF Collected
  <2>4. /\ params[j].from = i /\ params[j].name = name
        /\ params[j].to = IF node[i] = "param" /\ i <= Size THEN i ELSE Size
    BY <2>2, <2>3 DEF Value
  <2>5. j \in found
    BY <2>4
  <2>6. last \in found /\ \A l \in found : l <= last
    <3>1. found \subseteq 1 .. Len(params)
      BY <1>1
    <3> HIDE DEF found
    <3>2. QED
      BY <1>1, <2>5, <3>1, LastOfIs
  <2> HIDE DEF last
  <2>7. last = j
    <3>1. last \in DOMAIN params /\ params[last].name = name /\ j <= last
      BY <2>5, <2>6
    <3>2. /\ params[last].from \in 1 .. Len(node)
          /\ node[params[last].from] \in Wildcards
          /\ tree[Up(node, params[last].from)].name = name
      BY <3>1 DEF Collected
    <3>3. pattern[params[last].from].name = name
      BY <3>2
    <3>4. params[last].from \in places
      BY <1>1, <1>2, <3>2, <3>3
    <3>5. params[last].from <= i
      BY <2>1, <3>4
    <3>6. j < last => params[j].from < params[last].from
      BY <3>1 DEF Collected
    <3>7. i \in Int /\ params[last].from \in Int /\ j \in Int /\ last \in Int
      BY <1>1, <1>2, <2>2, <3>1, <3>2
    <3>8. QED
      BY <2>4, <3>1, <3>5, <3>6, <3>7
  <2>8. Param(params, name) = params[j]
    BY <2>7 DEF Param, last
  <2>9. QED
    BY <1>2, <2>2, <2>4, <2>8 DEF Size
<1>4. QED
  BY <1>1, <1>3 DEF Given

LEMMA ServeIsRight ==
    ASSUME RequestType, TreeInv(tree), WalkInv, NEW method \in Methods, Serve(method)
    PROVE  ServedByItsPattern'
<1> DEFINE handler == HandlerOf(cur, method)
           ps == IF Named(handler.pattern) /\ ~handler.subtree THEN params ELSE <<>>
           a == [kind |-> "served", method |-> method, handler |-> handler,
                 params |-> ps, allow |-> {}]
<1>1. /\ at = "found" /\ ~again /\ handler # Nobody
      /\ answer' = a /\ path' = path
  BY DEF Serve, Answer
<1>2. PICK m \in Methods :
         /\ m = method \/ (method = "HEAD" /\ m = "GET")
         /\ handler = tree[cur].handlers[m]
         /\ Settled(tree, cur, m, tree[cur].handlers[m])
  BY <1>1, HandlerOfType
<1>3. /\ handler.method = m /\ handler.subtree = tree[cur].subtree
      /\ handler.subtree => Parses(handler.pattern)
      /\ cur = Place(Segments(handler.pattern))
      /\ \A i \in 1 .. Len(cur) :
            cur[i] \in Wildcards => tree[Up(cur, i)].name = handler.pattern[i].name
  BY <1>2 DEF Settled
<1>4. a.method = method /\ a.handler = handler /\ a.params = ps
  OBVIOUS
<1>5. handler \in Handler
  BY HandlerOfType
<1>6. PICK S : handler.pattern \in Seq(S)
  BY <1>1, <1>5, PatternIsSeq
<1>7. IF tree[cur].subtree THEN Covers(cur) ELSE Takes(cur) /\ Collected(params, cur)
  BY <1>1 DEF WalkInv
<1>8. ps = IF Named(handler.pattern) /\ ~handler.subtree THEN params ELSE <<>>
  OBVIOUS
<1> HIDE DEF a, handler, ps
<1>9. handler.method \in IF method = "HEAD" THEN {"HEAD", "GET"} ELSE {method}
  BY <1>2, <1>3
<1>10. handler.subtree => Under(handler.pattern, path)
  <2>1. ASSUME handler.subtree PROVE Under(handler.pattern, path)
    <3>1. cur = Place(handler.pattern) /\ Covers(cur)
      BY <1>3, <1>7, <2>1 DEF Segments
    <3>2. QED
      BY <1>6, <3>1, NodeReads
  <2>2. QED
    BY <2>1
<1>11. ASSUME ~handler.subtree, Parses(handler.pattern)
       PROVE  /\ Reads(handler.pattern, path)
              /\ Named(handler.pattern) => Given(handler.pattern, path, ps)
  <2>1. cur = Place(handler.pattern) /\ Takes(cur) /\ Collected(params, cur)
    BY <1>3, <1>7, <1>11 DEF Segments
  <2>2. Reads(handler.pattern, path)
    BY <1>6, <2>1, NodeReads
  <2>3. Given(handler.pattern, path, params)
    BY <1>3, <1>6, <2>1, AllAreGiven
  <2>4. QED
    BY <1>8, <1>11, <2>2, <2>3
<1>12. answer'.method = method /\ answer'.handler = handler /\ answer'.params = ps
  BY <1>1, <1>4
<1>13. QED
  BY <1>1, <1>9, <1>10, <1>11, <1>12 DEF ServedByItsPattern

\* Every other step answers nothing, or something else.
LEMMA ServedKeeps ==
    ASSUME RequestType, TreeInv(tree), WalkInv, ServedByItsPattern, [Next]_vars
    PROVE  ServedByItsPattern'
<1>1. CASE answer'.kind # "served"
  BY <1>1 DEF ServedByItsPattern
<1>2. CASE UNCHANGED <<answer, path>>
  <2>1. answer' = answer /\ path' = path
    BY <1>2
  <2>2. QED
    BY <2>1 DEF ServedByItsPattern
<1>3. CASE \E method \in Methods : Serve(method)
  BY <1>3, ServeIsRight
<1>4. ASSUME Next, ~\E method \in Methods : Serve(method)
      PROVE  answer'.kind # "served" \/ UNCHANGED <<answer, path>>
  <2>1. CASE Lookup
    BY <2>1 DEF Lookup, EndExact, EndWild, EndNothing, ToLiteral, ToParam, ToWild, Stuck,
                FallBack, Leave, Descend
  <2>2. CASE \E p \in Paths : Request(p)
    <3>1. answer = Unanswered /\ answer' = answer
      BY <2>2 DEF Request, WalkInv
    <3>2. QED
      BY <3>1, UnansweredType
  <2>3. CASE Retry
    <3>1. answer = Unanswered /\ answer' = answer
      BY <2>3 DEF Retry, WalkInv
    <3>2. QED
      BY <3>1, UnansweredType
  <2>4. CASE Redirect
    <3>1. answer' = [Unanswered EXCEPT !.kind = "moved"]
      BY <2>4 DEF Redirect, Answer
    <3>2. QED
      BY <3>1, ShortAnswerType
  <2>5. CASE NoRoute
    <3>1. answer' = [Unanswered EXCEPT !.kind = "not_found"]
      BY <2>5 DEF NoRoute, Answer
    <3>2. QED
      BY <3>1, ShortAnswerType
  <2>6. CASE Return
    BY <2>6, UnansweredType DEF Return
  <2>7. CASE \E method \in Methods : Refuse(method)
    BY <2>7 DEF Refuse, Answer
  <2>8. CASE \/ \E pattern \in Patterns, method \in Methods \cup {""} :
                  Handle(method, pattern)
             \/ \E prefix \in Prefixes : HandleStatic(prefix)
    BY <2>8 DEF Handle, HandleStatic, request
  <2>9. QED
    BY <1>4, <2>1, <2>2, <2>3, <2>4, <2>5, <2>6, <2>7, <2>8 DEF Next
<1>5. CASE UNCHANGED vars
  BY <1>2, <1>5 DEF vars, request
<1>6. QED
  BY <1>1, <1>2, <1>3, <1>4, <1>5

-----------------------------------------------------------------------------
(* Literal routes.                                                         *)

LEMMA LookupFrame ==
    ASSUME Lookup
    PROVE  /\ at = "walk" /\ at' \in {"walk", "found", "missed"}
           /\ best' = Best /\ (at' = "missed" => Best = None)
           /\ tree' = tree /\ path' = path /\ again' = again /\ answer' = answer
BY DEF Lookup, EndExact, EndWild, EndNothing, ToLiteral, ToParam, ToWild, Stuck,
       FallBack, Leave, Descend, registry

\* On its way to a literal node the walk takes the next literal.
LEMMA LiteralStep ==
    ASSUME RequestType, Nodes(tree), WalkInv, Lookup,
           NEW node \in DOMAIN tree, Along(node), Len(cur) < Len(node),
           \A i \in 1 .. Len(node) : i <= Size /\ node[i] = path.segs[i]
    PROVE  at' = "walk" /\ Along(node)'
<1>1. at = "walk"
  BY LookupFrame
<1>2. /\ node \in Seq(Keys) /\ Len(node) \in Nat
      /\ \A i \in 0 .. Len(node) : Up(node, i) \in DOMAIN tree
  BY NodeIs
<1>3. /\ cur \in DOMAIN tree /\ Size \in Nat /\ idx \in 0 .. Size + 1 /\ Len(cur) \in Nat
  BY PathIs, NodeIs DEF RequestType
<1>4. Abreast /\ cur = Up(node, Len(cur))
  BY <1>1 DEF WalkInv, Along
<1>5. Len(node) <= Size
  <2>1. Len(node) \in 1 .. Len(node)
    BY <1>2, <1>3
  <2>2. QED
    BY <2>1
<1>6. ~AtEnd /\ idx = Len(cur) /\ idx < Size /\ idx + 1 \in 1 .. Len(node)
  BY <1>2, <1>3, <1>4, <1>5 DEF Abreast, AtEnd
<1>7. Seg = node[idx + 1]
  BY <1>6 DEF Seg
<1>8. Child(Seg) = Up(node, idx + 1)
  <2>1. idx \in 0 .. Len(node) - 1
    BY <1>2, <1>3, <1>6
  <2>2. Append(Up(node, idx), node[idx + 1]) = Up(node, idx + 1)
    BY <1>2, <2>1, UpNext
  <2>3. QED
    BY <1>4, <1>6, <1>7, <2>2 DEF Child
<1>9. idx + 1 \in 0 .. Len(node) /\ Has(Seg)
  BY <1>2, <1>3, <1>6, <1>8 DEF Has
<1>10. ToLiteral
  BY <1>6, <1>9 DEF Lookup, EndExact, EndWild, EndNothing, ToParam, ToWild, Stuck
<1>11. at' = "walk" /\ tree' = tree /\ cur' = Up(node, idx + 1)
  BY <1>1, <1>8, <1>10 DEF ToLiteral, Descend, registry
<1>12. Len(Up(node, idx + 1)) = idx + 1
  BY <1>2, <1>9, UpProperties
<1>13. QED
  BY <1>9, <1>11, <1>12 DEF Along

LEMMA ExactStep ==
    ASSUME RequestType, Nodes(tree), WalkInv, Lookup,
           NEW node \in DOMAIN tree, IsExact(node), ~again, Along(node)
    PROVE  \/ at' = "walk" /\ Along(node)'
           \/ at' = "found" /\ cur' = node
<1>1. /\ at = "walk" /\ node = path.segs /\ ~Slashed(path)
      /\ tree[node].handlers # NoHandlers /\ ~tree[node].subtree
  BY LookupFrame DEF IsExact, Asked
<1>2. /\ node \in Seq(Keys) /\ Len(node) \in Nat /\ Len(node) = Size
  BY <1>1, NodeIs DEF Size
<1>3. /\ cur \in DOMAIN tree /\ idx \in 0 .. Size + 1 /\ Len(cur) \in Nat
  BY NodeIs DEF RequestType
<1>4. Abreast /\ cur = Up(node, Len(cur)) /\ Len(cur) <= Len(node)
  BY <1>1 DEF WalkInv, Along
<1>5. CASE Len(cur) < Len(node)
  BY <1>1, <1>2, <1>5, LiteralStep
<1>6. CASE Len(cur) = Len(node)
  <2>1. cur = node
    BY <1>2, <1>4, <1>6, UpAll
  <2>2. AtEnd
    BY <1>1, <1>2, <1>3, <1>4, <1>6 DEF Abreast, AtEnd
  <2>3. Exact
    <3>1. tree[node].subtree \in BOOLEAN
      BY NodeIs
    <3>2. Slashed(path) \in BOOLEAN
      BY DEF Slashed
    <3>3. QED
      BY <1>1, <2>1, <3>1, <3>2, Zenon DEF Exact
  <2>4. EndExact
    BY <2>2, <2>3 DEF Lookup, EndWild, EndNothing, ToLiteral, ToParam, ToWild, Stuck
  <2>5. QED
    BY <2>1, <2>4 DEF EndExact, Leave
<1>7. QED
  BY <1>2, <1>3, <1>4, <1>5, <1>6

LEMMA PassedStep ==
    ASSUME RequestType, Nodes(tree), WalkInv, Lookup,
           NEW node \in DOMAIN tree, IsPassed(node), ~again, best # None \/ Along(node)
    PROVE  at' # "missed" /\ (at' = "walk" => best' # None \/ Along(node)')
<1>1. /\ at = "walk" /\ best' = Best /\ (at' = "missed" => Best = None)
  BY LookupFrame
<1>2. /\ tree[node].subtree /\ (Len(node) < Size \/ Slashed(path))
      /\ \A i \in 1 .. Len(node) : i <= Size /\ node[i] = path.segs[i]
  BY DEF IsPassed, Asked
<1>3. /\ cur \in DOMAIN tree /\ idx \in 0 .. Size + 1 /\ Size \in Nat
      /\ Len(cur) \in Nat /\ Len(node) \in Nat /\ node \in Seq(Keys)
  BY PathIs, NodeIs DEF RequestType
<1>4. cur # None
  BY <1>3, NoneIsNoNode
<1>5. CASE Best # None
  BY <1>1, <1>5
<1>6. CASE Best = None
  <2>1. best = None
    BY <1>4, <1>6 DEF Best
  <2>2. Along(node) /\ cur = Up(node, Len(cur)) /\ Len(cur) <= Len(node) /\ Abreast
    BY <1>1, <2>1 DEF Along, WalkInv
  <2>3. Len(cur) # Len(node)
    <3>1. ASSUME Len(cur) = Len(node) PROVE FALSE
      <4>1. cur = node
        BY <1>3, <2>2, <3>1, UpAll
      <4>2. ~AtEnd \/ Slashed(path)
        BY <1>2, <1>3, <2>2, <4>1 DEF Abreast, AtEnd
      <4>3. QED
        BY <1>2, <1>4, <1>6, <4>1, <4>2 DEF Best
    <3>2. QED
      BY <3>1
  <2>4. Len(cur) < Len(node)
    BY <1>3, <2>2, <2>3
  <2>5. at' = "walk" /\ Along(node)'
    BY <1>2, <2>2, <2>4, LiteralStep
  <2>6. QED
    BY <2>5
<1>7. QED
  BY <1>5, <1>6

\* What is asked for does not change before the answer.
LEMMA SameAsked ==
    ASSUME tree' = tree, path' = path, again' = again
    PROVE  \A node : (IsExact(node)' <=> IsExact(node)) /\ (IsPassed(node)' <=> IsPassed(node))
BY DEF IsExact, IsPassed, Asked, Slashed, Size

LEMMA LookupFindsLiterals ==
    ASSUME RequestType, Nodes(tree), WalkInv, LiteralInv, Lookup
    PROVE  LiteralInv'
<1>1. /\ at = "walk" /\ at' \in {"walk", "found", "missed"}
      /\ tree' = tree /\ path' = path /\ again' = again
  BY LookupFrame
<1>2. ASSUME NEW node \in DOMAIN tree, IsExact(node)
      PROVE  /\ ~again' /\ at' # "missed"
             /\ at' = "walk" => Along(node)'
             /\ at' = "found" => cur' = node
  <2>1. ~again /\ Along(node)
    BY <1>1, <1>2 DEF LiteralInv
  <2>2. QED
    BY <1>1, <1>2, <2>1, ExactStep
<1>3. ASSUME NEW node \in DOMAIN tree, IsPassed(node)
      PROVE  /\ ~again' /\ at' # "missed"
             /\ at' = "walk" => best' # None \/ Along(node)'
  <2>1. ~again /\ (best # None \/ Along(node))
    BY <1>1, <1>3 DEF LiteralInv
  <2>2. QED
    BY <1>1, <1>3, <2>1, PassedStep
<1>4. QED
  BY <1>1, <1>2, <1>3, SameAsked DEF LiteralInv

LEMMA AnswerFindsLiterals ==
    ASSUME RequestType, TreeInv(tree), WalkInv, LiteralInv,
           \/ Redirect \/ NoRoute
           \/ \E method \in Methods : Serve(method) \/ Refuse(method)
    PROVE  LiteralInv'
<1>1. at' = "answered" /\ tree' = tree /\ path' = path /\ again' = again /\ cur' = cur
  BY DEF Redirect, NoRoute, Serve, Refuse, Answer, registry
<1>2. at \in {"found", "missed"}
  BY DEF Redirect, NoRoute, Serve, Refuse
<1>3. CASE Redirect \/ NoRoute
  <2>1. at = "missed" \/ (at = "found" /\ again)
    BY <1>3 DEF Redirect, NoRoute
  <2>2. \A node \in DOMAIN tree : ~IsExact(node) /\ ~IsPassed(node)
    BY <2>1 DEF LiteralInv
  <2>3. QED
    BY <1>1, <2>2, SameAsked DEF LiteralInv
<1>4. ASSUME NEW method \in Methods, Serve(method) PROVE LiteralInv'
  <2> DEFINE handler == HandlerOf(cur, method)
             a == [kind |-> "served", method |-> method, handler |-> handler,
                   params |-> IF Named(handler.pattern) /\ ~handler.subtree
                              THEN params ELSE <<>>,
                   allow |-> {}]
  <2>1. at = "found" /\ answer' = a /\ handler # Nobody
    BY <1>4 DEF Serve, Answer
  <2>2. a.kind = "served" /\ a.handler = handler
    OBVIOUS
  <2>3. cur = Place(Segments(handler.pattern))
    <3>1. PICK m \in Methods : /\ handler = tree[cur].handlers[m]
                               /\ Settled(tree, cur, m, tree[cur].handlers[m])
      BY <2>1, HandlerOfType
    <3>2. QED
      BY <3>1 DEF Settled
  <2> HIDE DEF a, handler
  <2>4. answer'.kind = "served" /\ Place(Segments(answer'.handler.pattern)) = cur
    BY <2>1, <2>2, <2>3
  <2>5. \A node \in DOMAIN tree : IsExact(node) => node = cur
    BY <2>1 DEF LiteralInv
  <2>6. QED
    BY <1>1, <2>4, <2>5, SameAsked DEF LiteralInv, Segments, Place, Parses, Key
<1>5. ASSUME NEW method \in Methods, Refuse(method) PROVE LiteralInv'
  <2>1. answer' = [kind |-> IF method = "OPTIONS" THEN "options" ELSE "not_allowed",
                   method |-> method, handler |-> Nobody, params |-> <<>>,
                   allow |-> Allow(cur)]
    BY <1>5 DEF Refuse, Answer
  <2>2. answer'.kind \in {"options", "not_allowed"}
    BY <2>1
  <2>3. QED
    BY <1>1, <2>2 DEF LiteralInv
<1>6. QED
  BY <1>3, <1>4, <1>5

LEMMA LiteralKeeps ==
    ASSUME RequestType, TreeInv(tree), WalkInv, LiteralInv, [Next]_vars
    PROVE  LiteralInv'
<1>1. Nodes(tree)
  BY DEF TreeInv
<1>2. CASE Lookup
  BY <1>1, <1>2, LookupFindsLiterals
<1>3. CASE \/ Redirect \/ NoRoute
           \/ \E method \in Methods : Serve(method) \/ Refuse(method)
  BY <1>3, AnswerFindsLiterals
<1>4. CASE \/ \E pattern \in Patterns, method \in Methods \cup {""} :
                Handle(method, pattern)
           \/ \E prefix \in Prefixes : HandleStatic(prefix)
  <2>1. at' = "idle"
    BY <1>4, RegistrationKeeps
  <2>2. QED
    BY <2>1 DEF LiteralInv
<1>5. CASE Return
  BY <1>5 DEF Return, LiteralInv
<1>6. ASSUME NEW p \in Paths, Request(p) PROVE LiteralInv'
  <2>1. at' = "walk" /\ again' = FALSE /\ cur' = <<>> /\ tree' = tree
    BY <1>6 DEF Request, Walk, registry
  <2>2. \A node \in DOMAIN tree : Up(node, 0) = <<>> /\ 0 <= Len(node)
    BY <1>1, NodeIs, UpNone
  <2>3. Len(<<>>) = 0
    OBVIOUS
  <2>4. \A node \in DOMAIN tree : Along(node)'
    BY <2>1, <2>2, <2>3 DEF Along
  <2>5. QED
    BY <2>1, <2>4 DEF LiteralInv
<1>7. CASE Retry
  <2>1. /\ at = "missed" /\ ~again /\ ~Slashed(path)
        /\ path' = [path EXCEPT !.tail = 1] /\ again' = TRUE /\ tree' = tree
    BY <1>7 DEF Retry, Walk, registry
  <2>2. path \in [segs : Seq(Segs), tail : 0 .. 2]
    BY DEF RequestType
  <2>3. path'.segs = path.segs
    BY <2>1, <2>2
  <2>4. [path EXCEPT !.tail = 0].tail = 0 /\ [path' EXCEPT !.tail = 0].tail = 0
    <3>1. path' \in [segs : Seq(Segs), tail : 0 .. 2]
      BY <2>1, <2>2
    <3>2. QED
      BY <2>2, <3>1
  <2>5. ~Slashed(Asked) /\ ~Slashed(Asked)'
    BY <2>1, <2>4 DEF Asked, Slashed
  <2>6. \A node : (IsExact(node)' => IsExact(node)) /\ (IsPassed(node)' => IsPassed(node))
    BY <2>1, <2>3, <2>5 DEF IsExact, IsPassed, Size
  <2>7. \A node \in DOMAIN tree : ~IsExact(node) /\ ~IsPassed(node)
    BY <2>1 DEF LiteralInv
  <2>8. QED
    BY <2>1, <2>6, <2>7 DEF LiteralInv
<1>8. CASE UNCHANGED vars
  <2>1. /\ at' = at /\ tree' = tree /\ path' = path /\ again' = again /\ cur' = cur
        /\ best' = best /\ answer' = answer
    BY <1>8 DEF vars, registry, request
  <2>2. \A node : Along(node)' <=> Along(node)
    BY <2>1 DEF Along
  <2>3. QED
    BY <2>1, <2>2, SameAsked DEF LiteralInv
<1>9. QED
  BY <1>2, <1>3, <1>4, <1>5, <1>6, <1>7, <1>8 DEF Next

-----------------------------------------------------------------------------
(* The theorems.                                                           *)

LEMMA InitialState ==
    ASSUME Init PROVE IInv
<1>1. TreeInv(tree)
  BY InitialTree
<1>2. /\ at = "idle" /\ path = NoPath /\ again = FALSE /\ accepted = 0 /\ verdict = "none"
      /\ cur = <<>> /\ idx = 0 /\ best = None /\ params = <<>> /\ answer = Unanswered
  BY DEF Init
<1>3. NoPath \in [segs : Seq(Segs), tail : 0 .. 2] /\ Len(NoPath.segs) = 0
  BY DEF NoPath
<1>4. <<>> \in DOMAIN tree
  BY <1>1 DEF TreeInv, Nodes
<1>5. <<>> \in Seq(Parameter) /\ 0 \in 0 .. 0 + 1
  OBVIOUS
<1>6. 0 \in 0 .. MaxRoutes
  BY MaxRoutesAssumption
<1>7. RequestType
  BY <1>2, <1>3, <1>4, <1>5, <1>6, UnansweredType DEF RequestType, Size
<1>8. WalkInv
  BY <1>2 DEF WalkInv
<1>9. ServedByItsPattern
  BY <1>2, UnansweredType DEF ServedByItsPattern
<1>10. LiteralInv
  BY <1>2 DEF LiteralInv
<1>11. QED
  BY <1>1, <1>7, <1>8, <1>9, <1>10 DEF IInv

LEMMA EveryStepKeeps ==
    ASSUME IInv, [Next]_vars PROVE IInv'
<1>1. RequestType /\ TreeInv(tree) /\ WalkInv /\ ServedByItsPattern /\ LiteralInv
  BY DEF IInv
<1>2. Nodes(tree)
  BY <1>1 DEF TreeInv
<1>3. RequestType' /\ TreeInv(tree') /\ WalkInv'
  <2>1. CASE \/ \E pattern \in Patterns, method \in Methods \cup {""} :
                  Handle(method, pattern)
             \/ \E prefix \in Prefixes : HandleStatic(prefix)
    BY <1>1, <2>1, RegistrationKeeps
  <2>2. CASE Lookup
    BY <1>1, <1>2, <2>2, LookupKeeps, LookupFrame
  <2>3. CASE \/ \E p \in Paths : Request(p)
             \/ Retry \/ Redirect \/ NoRoute \/ Return
             \/ \E method \in Methods : Serve(method) \/ Refuse(method)
    <3>1. tree' = tree
      BY <2>3 DEF Request, Retry, Redirect, NoRoute, Return, Serve, Refuse, Answer, registry
    <3>2. QED
      BY <1>1, <2>3, <3>1, ServeHTTPKeeps
  <2>4. CASE UNCHANGED vars
    <3>1. /\ tree' = tree /\ accepted' = accepted /\ verdict' = verdict
          /\ at' = at /\ path' = path /\ again' = again /\ cur' = cur /\ idx' = idx
          /\ best' = best /\ params' = params /\ answer' = answer
      BY <2>4 DEF vars, registry, request
    <3>2. RequestType'
      BY <1>1, <3>1 DEF RequestType, Size
    <3>3. WalkInv'
      BY <1>1, <3>1 DEF WalkInv, Abreast, AtEnd, Fit, Collected, Value, Covers, Takes,
                        ToWildcard, Size, Slashed
    <3>4. QED
      BY <1>1, <3>1, <3>2, <3>3
  <2>5. QED
    BY <2>1, <2>2, <2>3, <2>4 DEF Next
<1>4. ServedByItsPattern' /\ LiteralInv'
  BY <1>1, ServedKeeps, LiteralKeeps
<1>5. TreeInv(tree)'
  BY <1>3 DEF TreeInv, Nodes, Handlers, Subtrees, Settled
<1>6. QED
  BY <1>3, <1>4, <1>5 DEF IInv

LEMMA InvariantHolds == Spec => []IInv
<1>1. Init => IInv
  BY InitialState
<1>2. IInv /\ [Next]_vars => IInv'
  BY EveryStepKeeps
<1>3. QED
  BY <1>1, <1>2, PTL DEF Spec

\* The tree is closed under prefixes whatever is registered and refused, and the
\* walk stays in the tree and in the path (insert, lookup).
THEOREM TypeCorrect == Spec => []TypeOK
<1>1. IInv => TypeOK
  <2>1. ASSUME IInv PROVE TypeOK
    <3>1. RequestType /\ Nodes(tree)
      BY <2>1 DEF IInv, TreeInv
    <3>2. QED
      BY <3>1 DEF TypeOK, RequestType, Nodes, Parameter, Keys
  <2>2. QED
    BY <2>1
<1>2. QED
  BY <1>1, InvariantHolds, PTL

\* The handler that runs was registered for the method under a pattern that reads
\* the path, and is given that pattern's parameters (insert, lookup, ServeHTTP).
THEOREM ServedAsRegistered == Spec => []ServedByItsPattern
<1>1. IInv => ServedByItsPattern
  BY DEF IInv
<1>2. QED
  BY <1>1, InvariantHolds, PTL

LEMMA LiteralParses ==
    ASSUME NEW pattern, Literal(pattern)
    PROVE  Parses(pattern)
BY DEF Literal, Parses, IsParameter, Key

\* A request for the path of a route without parameters, with no slash at its
\* end, gets there, and one below a static prefix is not answered with 404 or 301,
\* whatever else is registered (lookup does not back out of a branch).
THEOREM LiteralsAreFound == Spec => []LiteralRoutesAreFound
<1>1. IInv => LiteralRoutesAreFound
  <2>1. SUFFICES ASSUME IInv, at = "answered",
                        NEW node \in DOMAIN tree, NEW method \in Methods,
                        NEW handler, handler = tree[node].handlers[method],
                        handler # Nobody, Literal(handler.pattern)
                 PROVE  /\ ~handler.subtree /\ Reads(handler.pattern, Asked) =>
                              /\ answer.kind \in {"served", "options", "not_allowed"}
                              /\ answer.kind = "served" /\ Parses(answer.handler.pattern) =>
                                    Place(answer.handler.pattern) = node
                        /\ handler.subtree /\ Under(handler.pattern, Asked) =>
                              answer.kind \notin {"moved", "not_found"}
    BY DEF LiteralRoutesAreFound, Asked
  <2>2. RequestType /\ Nodes(tree) /\ Handlers(tree) /\ LiteralInv
    BY <2>1 DEF IInv, TreeInv
  <2>3. handler \in Handler /\ node \in Seq(Keys)
    BY <2>1, <2>2, NodeIs
  <2>4. /\ handler.subtree = tree[node].subtree
        /\ node = Place(Segments(handler.pattern))
    BY <2>1, <2>2 DEF Handlers, Settled
  <2>5. node = Place(handler.pattern)
    BY <2>1, <2>4, LiteralParses DEF Segments
  <2>6. PICK S : handler.pattern \in Seq(S)
    BY <2>1, <2>3, PatternIsSeq
  <2>7. /\ DOMAIN handler.pattern = 1 .. Len(handler.pattern)
        /\ Len(handler.pattern) \in Nat /\ Len(node) = Len(handler.pattern)
        /\ \A i \in 1 .. Len(handler.pattern) :
              node[i] = Key(handler.pattern[i]) /\ ~IsParameter(handler.pattern[i])
    <3>1. DOMAIN handler.pattern = 1 .. Len(handler.pattern) /\ Len(handler.pattern) \in Nat
      BY <2>6, LenProperties
    <3>2. /\ Len(node) = Len(handler.pattern)
          /\ \A i \in 1 .. Len(handler.pattern) : node[i] = Key(handler.pattern[i])
      BY <2>5, <2>6, NodeReads
    <3>3. \A i \in DOMAIN handler.pattern : ~IsParameter(handler.pattern[i])
      BY <2>1, Zenon DEF Literal
    <3>4. QED
      BY <3>1, <3>2, <3>3
  <2>8. ~EndsWild(handler.pattern)
    <3>1. ASSUME EndsWild(handler.pattern) PROVE FALSE
      <4>1. Len(handler.pattern) \in 1 .. Len(handler.pattern)
        BY <2>6, <2>7, <3>1 DEF EndsWild
      <4>2. QED
        BY <2>7, <3>1, <4>1 DEF EndsWild, IsParameter
    <3>2. QED
      BY <3>1
  <2>9. Asked.segs = path.segs /\ path.segs \in Seq(Segs) /\ Size = Len(path.segs)
    <3>1. path \in [segs : Seq(Segs), tail : 0 .. 2]
      BY <2>2 DEF RequestType
    <3>2. QED
      BY <3>1 DEF Asked, Size
  <2>10. ASSUME Follows(handler.pattern, Asked)
         PROVE  \A i \in 1 .. Len(node) : i <= Size /\ node[i] = path.segs[i]
    BY <2>7, <2>9, <2>10 DEF Follows
  <2>11. ASSUME ~handler.subtree, Reads(handler.pattern, Asked)
         PROVE  /\ answer.kind \in {"served", "options", "not_allowed"}
                /\ answer.kind = "served" /\ Parses(answer.handler.pattern) =>
                      Place(answer.handler.pattern) = node
    <3>1. /\ Follows(handler.pattern, Asked) /\ Len(node) = Size /\ ~Slashed(Asked)
      BY <2>7, <2>8, <2>9, <2>11 DEF Reads
    <3>2. node = path.segs
      <4>1. path.segs \in Seq(Keys)
        BY <2>9, SeqMonotonic DEF Keys
      <4>2. QED
        BY <2>3, <2>9, <2>10, <3>1, <4>1, SeqEqual
    <3>3. tree[node].handlers # NoHandlers
      BY <2>1, NoHandlersType
    <3>4. IsExact(node)
      BY <2>4, <2>11, <3>1, <3>2, <3>3 DEF IsExact
    <3>5. QED
      BY <2>1, <2>2, <3>4 DEF LiteralInv, Segments
  <2>12. ASSUME handler.subtree, Under(handler.pattern, Asked)
         PROVE  answer.kind \notin {"moved", "not_found"}
    <3>1. /\ Follows(handler.pattern, Asked) /\ (Len(node) < Size \/ Slashed(Asked))
      BY <2>7, <2>8, <2>9, <2>12 DEF Under
    <3>2. IsPassed(node)
      BY <2>4, <2>10, <2>12, <3>1 DEF IsPassed
    <3>3. QED
      BY <2>1, <2>2, <3>2 DEF LiteralInv
  <2>13. QED
    BY <2>11, <2>12
<1>2. QED
  BY <1>1, InvariantHolds, PTL

\* A refused registration leaves no node and no half of a route behind, though
\* insert makes nodes before it has looked at all of the pattern (insert,
\* HandleStaticWithOptions).
THEOREM RefusalLeavesNoTrace == Spec => RefusalIsClean
<1>1. IInv /\ [Next]_vars => [verdict' = "refused" => tree' = tree]_vars
  <2>1. ASSUME IInv, Next, verdict' = "refused" PROVE tree' = tree
    <3>1. RequestType /\ TreeInv(tree) /\ WalkInv
      BY <2>1 DEF IInv
    <3>2. CASE \/ \E pattern \in Patterns, method \in Methods \cup {""} :
                    Handle(method, pattern)
               \/ \E prefix \in Prefixes : HandleStatic(prefix)
      BY <2>1, <3>1, <3>2, RegistrationKeeps
    <3>3. CASE Lookup
      BY <3>3, LookupFrame
    <3>4. CASE \/ \E p \in Paths : Request(p)
               \/ Retry \/ Redirect \/ NoRoute \/ Return
               \/ \E method \in Methods : Serve(method) \/ Refuse(method)
      BY <3>4 DEF Request, Retry, Redirect, NoRoute, Return, Serve, Refuse, Answer, registry
    <3>5. QED
      BY <2>1, <3>2, <3>3, <3>4 DEF Next
  <2>2. QED
    BY <2>1
<1>2. QED
  BY <1>1, InvariantHolds, PTL DEF Spec, RefusalIsClean

=============================================================================
