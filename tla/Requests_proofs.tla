-------------------------- MODULE Requests_proofs --------------------------
(***************************************************************************)
(* Proofs about Requests for any number of requests, contexts and buffers, *)
(* any set of targets and any behaviour of the handlers.                   *)
(***************************************************************************)
EXTENDS Requests, SequenceTheorems, FiniteSetTheorems, TLAPS

-----------------------------------------------------------------------------
(* The inductive invariant: types, two sets of holders that do not         *)
(* overlap, and what is true of each request by itself.                    *)

Early == {"away", "acquired", "counted", "matched"}
Running == {"loop", "handler"}
Untargeted == {"away", "acquired", "counted"}

Did == [started : Seq(Nat), aborted : Nat, status : 0 .. 5]

Flat ==
    /\ at \in [Requests -> Places]
    /\ ctx \in [Requests -> Contexts \cup {None}]
    /\ buf \in [Requests -> Buffers \cup {None}]
    /\ target \in [Requests -> Targets \cup {None}]
    /\ stack \in [Requests -> Seq(Nat)] /\ panics \in [Requests -> BOOLEAN]
    /\ scope \in [Requests -> Scopes] /\ stat \in [Requests -> Requests \cup {None}]
    /\ context \in [Contexts -> Context] /\ content \in [Buffers -> Requests \cup {None}]
    /\ ctxPool \subseteq Contexts /\ bufPool \subseteq Buffers
    /\ did \in [Requests -> Did]

Figures ==
    /\ m \in Metrics
    /\ DOMAIN table \subseteq Scopes \X (Names \ {""})
    /\ \A k \in DOMAIN table : table[k] \in Requests
    /\ counted \in [Scopes -> [Requests -> [requests : Nat, errors : Nat]]]

\* Whoever holds a context or a buffer holds it alone.
Apart ==
    /\ \A q, r \in Requests :
          q # r => /\ ctx[q] = ctx[r] => ctx[q] = None
                   /\ buf[q] = buf[r] => buf[q] = None
    /\ \A r \in Requests : ctx[r] \notin ctxPool /\ buf[r] \notin bufPool

Held(r) ==
    /\ ctx[r] \in IF at[r] \in Holds THEN Contexts ELSE {None}
    /\ buf[r] \in IF at[r] \in Routed THEN Buffers ELSE {None}
    /\ target[r] \in IF at[r] \in Untargeted THEN {None} ELSE Targets
    /\ at[r] = "handler" => stack[r] # <<>>
    /\ at[r] = "add" => stat[r] # None

\* Before the chain.
Fresh(r) ==
    /\ at[r] \in Early =>
          did[r].started = <<>> /\ did[r].aborted = 0 /\ stack[r] = <<>>
    /\ at[r] \in Early \ {"away"} => Mine(r) = Reset(r)
    /\ at[r] \in Running \cup {"matched"} => content[buf[r]] = r

\* In the chain: the Context is the request's own, and labelled once the handler
\* in front has run.
Labelled(r) ==
    at[r] \in Running =>
        /\ Mine(r).request = r /\ Mine(r).handlers = target[r]
        /\ Mine(r).params = IF target[r].named THEN buf[r] ELSE None
        /\ target[r].kind # "direct"
        /\ Mine(r).index \in Nat
        /\ target[r].kind = "route" /\ stack[r] # <<>> => Mine(r).index >= 1
        /\ IF target[r].kind = "route" /\ Mine(r).index >= 1
           THEN Mine(r).route = target[r].path /\ Mine(r).group = target[r].group
           ELSE Mine(r).route = "" /\ Mine(r).group = ""

\* How far the chain has come when the index is i.
Reached(r, i) ==
    /\ i <= target[r].size => Len(did[r].started) = i
    /\ i >= target[r].size => Len(did[r].started) = target[r].size

Counting(r) == did[r].started = [i \in 1 .. Len(did[r].started) |-> i - 1]

Ordered(r) ==
    /\ Counting(r)
    /\ did[r].aborted # 0 => Len(did[r].started) = did[r].aborted
    /\ at[r] \in Running => (Mine(r).aborted <=> did[r].aborted # 0)
    /\ at[r] = "loop" /\ did[r].aborted = 0 => Reached(r, Mine(r).index)
    /\ at[r] = "handler" /\ did[r].aborted = 0 => Reached(r, Mine(r).index + 1)
    /\ at[r] = "ran" /\ ~panics[r] /\ did[r].aborted = 0 =>
          Len(did[r].started) = target[r].size

\* Only what has a name is filed.
Filed(r) == at[r] \in {"store", "add"} => Key(r)[2] # ""

About(r) == Held(r) /\ Fresh(r) /\ Labelled(r) /\ Ordered(r) /\ Filed(r)

IInv == Flat /\ Figures /\ Apart /\ \A r \in Requests : About(r)

-----------------------------------------------------------------------------
(* Lemmas.                                                                 *)

LEMMA EmptyName == "" \in Names
BY DEF Names

LEMMA ResetIsContext ==
    ASSUME NEW q \in Requests \cup {None}
    PROVE  Reset(q) \in Context
<1>1. -1 \in Int
  OBVIOUS
<1>2. 0 \in 0 .. 5
  OBVIOUS
<1>3. QED
  BY EmptyName, <1>1, <1>2 DEF Context, Reset

LEMMA ContextFields ==
    ASSUME NEW c \in Context
    PROVE  /\ c.request \in Requests \cup {None} /\ c.params \in Buffers \cup {None}
           /\ c.route \in Names /\ c.group \in Names
           /\ c.handlers \in Targets \cup {None}
           /\ c.index \in Int /\ c.aborted \in BOOLEAN /\ c.status \in 0 .. 5
BY DEF Context

LEMMA ContextSet ==
    ASSUME NEW c \in Context
    PROVE  /\ \A q \in Requests : [c EXCEPT !.request = q] \in Context
           /\ \A b \in Buffers \cup {None} : [c EXCEPT !.params = b] \in Context
           /\ \A t \in Targets : [c EXCEPT !.handlers = t] \in Context
           /\ \A i \in Int : [c EXCEPT !.index = i] \in Context
           /\ \A x \in BOOLEAN : [c EXCEPT !.aborted = x] \in Context
           /\ \A s \in Statuses : [c EXCEPT !.status = s] \in Context
           /\ \A n \in Names : [c EXCEPT !.route = n] \in Context
           /\ \A n \in Names : [c EXCEPT !.group = n] \in Context
BY StatusesAssumption DEF Context

LEMMA ResetFields ==
    ASSUME NEW r
    PROVE  /\ Reset(r).request = r /\ Reset(r).params = None /\ Reset(r).aborted = FALSE
           /\ Reset(r).route = "" /\ Reset(r).group = ""
BY DEF Reset

Given(c, q, p, t) == [c EXCEPT !.request = q, !.params = p, !.handlers = t, !.index = 0]

LEMMA Dispatched ==
    ASSUME NEW c \in Context, NEW q \in Requests, NEW p \in Buffers \cup {None},
           NEW t \in Targets
    PROVE  LET d == Given(c, q, p, t)
           IN  /\ d \in Context
               /\ d.request = q /\ d.params = p /\ d.handlers = t /\ d.index = 0
               /\ d.route = c.route /\ d.group = c.group /\ d.aborted = c.aborted
<1> DEFINE d == Given(c, q, p, t)
<1>1. d \in Context
  <2> DEFINE c1 == [c EXCEPT !.request = q]
             c2 == [c1 EXCEPT !.params = p]
             c3 == [c2 EXCEPT !.handlers = t]
  <2>1. c1 \in Context
    BY ContextSet
  <2>2. c2 \in Context
    BY <2>1, ContextSet
  <2>3. c3 \in Context
    BY <2>2, ContextSet
  <2>4. d = [c3 EXCEPT !.index = 0]
    BY Zenon DEF Given
  <2> HIDE DEF c3
  <2>5. [c3 EXCEPT !.index = 0] \in Context
    BY <2>3, ContextSet
  <2>6. QED
    BY <2>4, <2>5
<1>2. d.request = q /\ d.params = p /\ d.handlers = t /\ d.index = 0
  BY DEF Context, Given
<1>3. d.route = c.route /\ d.group = c.group /\ d.aborted = c.aborted
  BY DEF Context, Given
<1>4. QED
  BY <1>1, <1>2, <1>3

LEMMA TargetFields ==
    ASSUME NEW t \in Targets
    PROVE  /\ t # None /\ t.size \in Nat /\ t.kind \in {"route", "fallback", "direct"}
           /\ t.path \in Names /\ t.group \in Names
           /\ t.kind = "route" => t.size >= 2
           /\ t.kind = "fallback" => t.size = 1
           /\ t.kind = "direct" => t.size = 0
           /\ t.kind # "route" => t.path = "" /\ t.group = ""
BY TargetsAssumption, NoneAssumption DEF Target, Names

\* What r does is none of the business of the others.
Others(r) ==
    /\ \A q \in Requests \ {r} :
          /\ at'[q] = at[q] /\ ctx'[q] = ctx[q] /\ buf'[q] = buf[q]
          /\ target'[q] = target[q] /\ stack'[q] = stack[q] /\ panics'[q] = panics[q]
          /\ scope'[q] = scope[q] /\ stat'[q] = stat[q] /\ did'[q] = did[q]
    /\ \A c \in Contexts : c # ctx[r] /\ c # ctx'[r] => context'[c] = context[c]
    /\ \A b \in Buffers : b # buf[r] /\ b # buf'[r] => content'[b] = content[b]

LEMMA OthersKeep ==
    ASSUME IInv, NEW r \in Requests, Others(r), Apart', NEW q \in Requests, q # r
    PROVE  About(q)'
<1>1. /\ at'[q] = at[q] /\ ctx'[q] = ctx[q] /\ buf'[q] = buf[q]
      /\ target'[q] = target[q] /\ stack'[q] = stack[q] /\ panics'[q] = panics[q]
      /\ scope'[q] = scope[q] /\ stat'[q] = stat[q] /\ did'[q] = did[q]
  BY DEF Others
<1>2. About(q)
  BY DEF IInv
<1>3. Held(q)'
  BY <1>1, <1>2 DEF About, Held
<1>4. ASSUME at[q] \in Holds PROVE Mine(q)' = Mine(q)
  <2>1. ctx[q] \in Contexts
    BY <1>2, <1>4 DEF About, Held
  <2>2. ctx[q] # ctx[r]
    BY <2>1, NoneAssumption DEF IInv, Apart
  <2>3. ctx'[q] # ctx'[r]
    BY <1>1, <2>1, NoneAssumption DEF Apart
  <2>4. context'[ctx[q]] = context[ctx[q]]
    BY <1>1, <2>1, <2>2, <2>3 DEF Others
  <2>5. QED
    BY <1>1, <2>4 DEF Mine
<1>5. ASSUME at[q] \in Routed PROVE content'[buf[q]] = content[buf[q]]
  <2>1. buf[q] \in Buffers
    BY <1>2, <1>5 DEF About, Held
  <2>2. buf[q] # buf[r]
    BY <2>1, NoneAssumption DEF IInv, Apart
  <2>3. buf'[q] # buf'[r]
    BY <1>1, <2>1, NoneAssumption DEF Apart
  <2>4. QED
    BY <1>1, <2>1, <2>2, <2>3 DEF Others
<1>6. Fresh(q)'
  BY <1>1, <1>2, <1>4, <1>5 DEF About, Fresh, Early, Running, Holds, Places, Routed
<1>7. Labelled(q)'
  BY <1>1, <1>2, <1>4 DEF About, Labelled, Running, Holds, Places
<1>8. Ordered(q)'
  <2>1. Counting(q)'
    BY <1>1, <1>2 DEF About, Ordered, Counting
  <2>2. at[q] \in Running => Mine(q)' = Mine(q)
    BY <1>4 DEF Running, Holds, Places
  <2>3. \A i : Reached(q, i)' <=> Reached(q, i)
    BY <1>1 DEF Reached
  <2>4. QED
    BY <1>1, <1>2, <2>1, <2>2, <2>3 DEF About, Ordered, Running
<1>9. Filed(q)'
  <2>1. at[q] \in {"store", "add"} => Mine(q)' = Mine(q)
    BY <1>4 DEF Holds, Places
  <2>2. QED
    BY <1>1, <1>2, <2>1 DEF About, Filed, Key
<1>10. QED
  BY <1>3, <1>6, <1>7, <1>8, <1>9 DEF About

Late == {"returned", "load", "store", "add", "recorded", "done"}

\* After the chain only what was counted stays to be remembered.
LEMMA LateIsQuiet ==
    ASSUME IInv, NEW r \in Requests, at'[r] \in Late, did'[r] = did[r]
    PROVE  Fresh(r)' /\ Labelled(r)' /\ Ordered(r)'
<1>1. /\ at'[r] \notin Early /\ at'[r] \notin Running /\ at'[r] # "ran"
      /\ at'[r] # "matched" /\ at'[r] # "loop" /\ at'[r] # "handler"
  BY DEF Late, Early, Running
<1>2. Ordered(r)
  BY DEF IInv, About
<1>3. QED
  BY <1>1, <1>2 DEF Fresh, Labelled, Ordered, Counting, Early, Running

LEMMA OneStep ==
    ASSUME IInv, NEW r \in Requests, Flat', Figures', Apart', Others(r), About(r)'
    PROVE  IInv'
BY OthersKeep DEF IInv

\* What a request that is under way has in its hands.
LEMMA Own ==
    ASSUME IInv, NEW r \in Requests
    PROVE  /\ at[r] \in Holds => ctx[r] \in Contexts /\ Mine(r) \in Context
           /\ at[r] \in Routed => buf[r] \in Buffers
           /\ at[r] \in Holds \ Untargeted => target[r] \in Targets
           /\ at[r] \in Running => Size(Mine(r)) = target[r].size
<1>1. Held(r) /\ Labelled(r)
  BY DEF IInv, About
<1>2. at[r] \in Holds => ctx[r] \in Contexts /\ Mine(r) \in Context
  BY <1>1 DEF Held, IInv, Flat, Mine
<1>3. at[r] \in Routed => buf[r] \in Buffers
  BY <1>1 DEF Held
<1>4. at[r] \in Holds \ Untargeted => target[r] \in Targets
  BY <1>1 DEF Held
<1>5. at[r] \in Running => Size(Mine(r)) = target[r].size
  BY <1>1, <1>4, NoneAssumption DEF Labelled, Size, Running, Holds, Untargeted, Places
<1>6. QED
  BY <1>2, <1>3, <1>4, <1>5

-----------------------------------------------------------------------------
(* The way in.                                                             *)

LEMMA AcquireKeeps ==
    ASSUME IInv, NEW r \in Requests, Acquire(r)
    PROVE  IInv'
<1>1. PICK c \in Contexts :
         /\ c \in ctxPool \/ \A q \in Requests : ctx[q] # c
         /\ ctxPool' = ctxPool \ {c}
         /\ ctx' = [ctx EXCEPT ![r] = c]
         /\ context' = [context EXCEPT ![c] = Reset(r)]
  BY DEF Acquire
<1>2. /\ at[r] = "away" /\ at' = [at EXCEPT ![r] = "acquired"]
      /\ UNCHANGED <<buf, target, stack, panics, scope, stat, content, bufPool, metrics, did>>
  BY DEF Acquire, Goto
<1>3. Flat /\ Figures /\ Apart /\ About(r)
  BY DEF IInv
<1>4. Reset(r) \in Context
  BY ResetIsContext
<1>5. Flat'
  BY <1>1, <1>2, <1>3, <1>4 DEF Flat, Places
<1>6. Figures'
  BY <1>2, <1>3 DEF Figures, metrics
<1>7. \A q \in Requests : ctx[q] # c
  BY <1>1, <1>3 DEF Apart
<1>8. Apart'
  BY <1>1, <1>2, <1>3, <1>7 DEF Apart, Flat
<1>9. Others(r)
  BY <1>1, <1>2, <1>3 DEF Others, Flat
<1>10. at'[r] = "acquired" /\ ctx'[r] = c /\ Mine(r)' = Reset(r)
  BY <1>1, <1>2, <1>3 DEF Flat, Mine
<1>11. About(r)'
  <2>1. Held(r)'
    BY <1>2, <1>3, <1>10 DEF About, Held, Holds, Places, Routed, Untargeted
  <2>2. Fresh(r)' /\ Labelled(r)' /\ Filed(r)'
    BY <1>2, <1>3, <1>10 DEF About, Fresh, Labelled, Filed, Early, Running
  <2>3. Ordered(r)'
    BY <1>2, <1>3, <1>10 DEF About, Ordered, Counting, Running
  <2>4. QED
    BY <2>1, <2>2, <2>3 DEF About
<1>12. QED
  BY <1>5, <1>6, <1>8, <1>9, <1>11, OneStep

LEMMA CountInKeeps ==
    ASSUME IInv, NEW r \in Requests, CountIn(r)
    PROVE  IInv'
<1>1. /\ at[r] = "acquired" /\ at' = [at EXCEPT ![r] = "counted"]
      /\ m' = [m EXCEPT !.requests = @ + 1, !.inFlight = @ + 1]
      /\ UNCHANGED <<ctx, buf, target, stack, panics, scope, stat, pools, table, counted, did>>
  BY DEF CountIn, Goto
<1>2. Flat /\ Figures /\ Apart /\ About(r)
  BY DEF IInv
<1>3. Flat'
  BY <1>1, <1>2 DEF Flat, Places, pools
<1>4. Figures'
  <2>1. m \in Metrics
    BY <1>2 DEF Figures
  <2>2. m.requests + 1 \in Int /\ m.inFlight + 1 \in Int
    BY <2>1 DEF Metrics
  <2>3. \A a, b \in Int : [m EXCEPT !.requests = a, !.inFlight = b] \in Metrics
    BY <2>1 DEF Metrics
  <2>4. m' \in Metrics
    BY <1>1, <2>2, <2>3
  <2>5. QED
    BY <1>1, <1>2, <2>4 DEF Figures
<1>5. Apart' /\ Others(r)
  BY <1>1, <1>2 DEF Apart, Others, Flat, pools
<1>6. at'[r] = "counted" /\ Mine(r)' = Mine(r)
  BY <1>1, <1>2 DEF Flat, Mine, pools
<1>7. About(r)'
  <2>1. Held(r)'
    BY <1>1, <1>2, <1>6 DEF About, Held, Holds, Places, Routed, Untargeted
  <2>2. Fresh(r)' /\ Labelled(r)' /\ Filed(r)'
    BY <1>1, <1>2, <1>6 DEF About, Fresh, Labelled, Filed, Early, Running
  <2>3. Ordered(r)'
    BY <1>1, <1>2, <1>6 DEF About, Ordered, Counting, Running
  <2>4. QED
    BY <2>1, <2>2, <2>3 DEF About
<1>8. QED
  BY <1>3, <1>4, <1>5, <1>7, OneStep

LEMMA MatchKeeps ==
    ASSUME IInv, NEW r \in Requests, Match(r)
    PROVE  IInv'
<1>1. PICK b \in Buffers, t \in Targets :
         /\ b \in bufPool \/ \A q \in Requests : buf[q] # b
         /\ bufPool' = bufPool \ {b}
         /\ buf' = [buf EXCEPT ![r] = b]
         /\ content' = [content EXCEPT ![b] = r]
         /\ target' = [target EXCEPT ![r] = t]
  BY DEF Match
<1>2. /\ at[r] = "counted" /\ at' = [at EXCEPT ![r] = "matched"]
      /\ UNCHANGED <<ctx, stack, panics, scope, stat, context, ctxPool, metrics, did>>
  BY DEF Match, Goto
<1>3. Flat /\ Figures /\ Apart /\ About(r)
  BY DEF IInv
<1>4. Flat'
  BY <1>1, <1>2, <1>3 DEF Flat, Places
<1>5. Figures'
  BY <1>2, <1>3 DEF Figures, metrics
<1>6. \A q \in Requests : buf[q] # b
  BY <1>1, <1>3 DEF Apart
<1>7. Apart'
  BY <1>1, <1>2, <1>3, <1>6 DEF Apart, Flat
<1>8. Others(r)
  BY <1>1, <1>2, <1>3 DEF Others, Flat
<1>9. /\ at'[r] = "matched" /\ buf'[r] = b /\ target'[r] = t /\ content'[b] = r
      /\ Mine(r)' = Mine(r)
  BY <1>1, <1>2, <1>3 DEF Flat, Mine
<1>10. About(r)'
  <2>1. Held(r)'
    BY <1>2, <1>3, <1>9 DEF About, Held, Holds, Places, Routed, Untargeted
  <2>2. Fresh(r)' /\ Labelled(r)' /\ Filed(r)'
    BY <1>2, <1>3, <1>9 DEF About, Fresh, Labelled, Filed, Early, Running
  <2>3. Ordered(r)'
    BY <1>2, <1>3, <1>9 DEF About, Ordered, Counting, Running
  <2>4. QED
    BY <2>1, <2>2, <2>3 DEF About
<1>11. QED
  BY <1>4, <1>5, <1>7, <1>8, <1>10, OneStep

\* A step inside the chain: only the Context of the request and what it has to
\* itself can change.
ChainFrame(r) ==
    /\ UNCHANGED <<ctx, buf, target, scope, stat, content, ctxPool, bufPool, metrics>>
    /\ at' \in [Requests -> Places] /\ stack' \in [Requests -> Seq(Nat)]
    /\ panics' \in [Requests -> BOOLEAN] /\ did' \in [Requests -> Did]
    /\ context' \in [Contexts -> Context]
    /\ \A q \in Requests \ {r} :
          at'[q] = at[q] /\ stack'[q] = stack[q] /\ panics'[q] = panics[q] /\ did'[q] = did[q]
    /\ \A c \in Contexts \ {ctx[r]} : context'[c] = context[c]

LEMMA ChainStep ==
    ASSUME IInv, NEW r \in Requests, ChainFrame(r), About(r)'
    PROVE  IInv'
<1>1. Flat /\ Figures /\ Apart
  BY DEF IInv
<1>2. Flat'
  BY <1>1 DEF Flat, ChainFrame
<1>3. Figures'
  BY <1>1 DEF Figures, ChainFrame, metrics
<1>4. Apart'
  BY <1>1 DEF Apart, ChainFrame
<1>5. Others(r)
  BY DEF Others, ChainFrame
<1>6. QED
  BY <1>2, <1>3, <1>4, <1>5, OneStep

LEMMA DispatchKeeps ==
    ASSUME IInv, NEW r \in Requests, Dispatch(r)
    PROVE  IInv'
<1>1. /\ at[r] = "matched" /\ at' = [at EXCEPT ![r] = "loop"]
      /\ target[r].kind # "direct"
      /\ UNCHANGED <<ctx, buf, target, stack, panics, scope, stat, content, ctxPool, bufPool,
                     metrics, did>>
  BY DEF Dispatch, Goto
<1>2. Flat /\ About(r)
  BY DEF IInv
<1>3. ctx[r] \in Contexts /\ buf[r] \in Buffers /\ target[r] \in Targets
  BY <1>1, Own DEF Holds, Routed, Untargeted, Places
<1>4. Mine(r) = Reset(r)
  BY <1>1, <1>2 DEF About, Fresh, Early
<1>5. /\ Mine(r) \in Context
      /\ Mine(r).params = None /\ Mine(r).route = "" /\ Mine(r).group = ""
      /\ Mine(r).aborted = FALSE
  <2>1. Mine(r) \in Context
    BY <1>1, Own DEF Holds, Places
  <2>2. QED
    BY <1>4, <2>1, ResetFields
<1> DEFINE p == IF target[r].named THEN buf[r] ELSE Mine(r).params
           c == Given(Mine(r), r, p, target[r])
<1>6. /\ context' = [context EXCEPT ![ctx[r]] = c]
      /\ c \in Context
      /\ c.request = r /\ c.params = p /\ c.handlers = target[r] /\ c.index = 0
      /\ c.route = "" /\ c.group = "" /\ c.aborted = FALSE
  <2>1. context' = [context EXCEPT ![ctx[r]] = c]
    BY DEF Dispatch, Given
  <2>2. p \in Buffers \cup {None}
    BY <1>3, <1>5
  <2> HIDE DEF p
  <2>3. /\ Mine(r) \in Context /\ target[r] \in Targets
    BY <1>3, <1>5
  <2>4. /\ c \in Context
        /\ c.request = r /\ c.params = p /\ c.handlers = target[r] /\ c.index = 0
        /\ c.route = Mine(r).route /\ c.group = Mine(r).group /\ c.aborted = Mine(r).aborted
    BY <2>2, <2>3, Dispatched
  <2>5. QED
    BY <1>5, <2>1, <2>4
<1> HIDE DEF c
<1>7. ChainFrame(r)
  BY <1>1, <1>2, <1>3, <1>6 DEF ChainFrame, Flat, Places
<1>8. at'[r] = "loop" /\ Mine(r)' = c
  BY <1>1, <1>2, <1>3, <1>6 DEF Flat, Mine
<1>9. About(r)'
  <2>1. Held(r)'
    BY <1>1, <1>2, <1>8 DEF About, Held, Holds, Places, Routed, Untargeted
  <2>2. Fresh(r)' /\ Filed(r)'
    BY <1>1, <1>2, <1>8 DEF About, Fresh, Filed, Early, Running
  <2>3. /\ stack'[r] = <<>> /\ did'[r] = did[r] /\ target'[r] = target[r] /\ buf'[r] = buf[r]
        /\ did[r].started = <<>> /\ did[r].aborted = 0
    BY <1>1, <1>2 DEF About, Fresh, Early
  <2>4. p = IF target[r].named THEN buf[r] ELSE None
    BY <1>5
  <2> HIDE DEF p
  <2>5. Labelled(r)'
    <3>1. /\ Mine(r)'.request = r /\ Mine(r)'.handlers = target'[r]
          /\ Mine(r)'.params = IF target'[r].named THEN buf'[r] ELSE None
      BY <1>6, <1>8, <2>3, <2>4
    <3>2. Mine(r)'.index = 0 /\ Mine(r)'.route = "" /\ Mine(r)'.group = ""
      BY <1>6, <1>8
    <3>3. Mine(r)'.index \in Nat /\ ~(Mine(r)'.index >= 1)
      <4>1. 0 \in Nat /\ ~(0 >= 1)
        OBVIOUS
      <4>2. QED
        BY <3>2, <4>1, Zenon
    <3>4. target'[r].kind # "direct" /\ ~(stack'[r] # <<>>)
      BY <1>1, <2>3
    <3>5. QED
      BY <3>1, <3>2, <3>3, <3>4, Zenon DEF Labelled
  <2>6. target[r].size \in Nat
    BY <1>3, TargetFields
  <2>7. Reached(r, 0)'
    BY <2>3, <2>6 DEF Reached
  <2>8. Ordered(r)'
    BY <1>2, <1>6, <1>8, <2>3, <2>7 DEF About, Ordered, Counting, Running
  <2>9. QED
    BY <2>1, <2>2, <2>5, <2>8 DEF About
<1>10. QED
  BY <1>7, <1>9, ChainStep

LEMMA AnswerDirectlyKeeps ==
    ASSUME IInv, NEW r \in Requests, AnswerDirectly(r)
    PROVE  IInv'
<1>1. /\ at[r] = "matched" /\ at' = [at EXCEPT ![r] = "ran"]
      /\ target[r].kind = "direct"
      /\ UNCHANGED <<ctx, buf, target, stack, panics, scope, stat, pools, metrics, did>>
  BY DEF AnswerDirectly, Goto
<1>2. Flat /\ About(r)
  BY DEF IInv
<1>3. target[r].size = 0
  BY <1>1, Own, TargetFields DEF Holds, Routed, Untargeted, Places
<1>4. ChainFrame(r)
  BY <1>1, <1>2 DEF ChainFrame, Flat, Places, pools
<1>5. at'[r] = "ran"
  BY <1>1, <1>2 DEF Flat
<1>6. About(r)'
  <2>1. Held(r)'
    BY <1>1, <1>2, <1>5 DEF About, Held, Holds, Places, Routed, Untargeted
  <2>2. Fresh(r)' /\ Filed(r)' /\ Labelled(r)'
    BY <1>5 DEF Fresh, Filed, Labelled, Early, Running
  <2>3. Ordered(r)'
    BY <1>1, <1>2, <1>3, <1>5 DEF About, Fresh, Ordered, Counting, Early, Running
  <2>4. QED
    BY <2>1, <2>2, <2>3 DEF About
<1>7. QED
  BY <1>4, <1>6, ChainStep

-----------------------------------------------------------------------------
(* The chain.                                                              *)

WithIndex(c, i) == [c EXCEPT !.index = i]
WithLabels(c, p, g, i) == [c EXCEPT !.route = p, !.group = g, !.index = i]
WithAborted(c) == [c EXCEPT !.aborted = TRUE]
WithStatus(c, s) == [c EXCEPT !.status = s]

SameRequest(c, d) ==
    d.request = c.request /\ d.params = c.params /\ d.handlers = c.handlers

LEMMA IndexSet ==
    ASSUME NEW c \in Context, NEW i \in Int
    PROVE  LET d == WithIndex(c, i)
           IN  /\ d \in Context /\ SameRequest(c, d) /\ d.index = i
               /\ d.route = c.route /\ d.group = c.group /\ d.aborted = c.aborted
<1>1. WithIndex(c, i) \in Context
  BY ContextSet DEF WithIndex
<1>2. QED
  BY <1>1 DEF WithIndex, Context, SameRequest

LEMMA LabelsSet ==
    ASSUME NEW c \in Context, NEW p \in Names, NEW g \in Names, NEW i \in Int
    PROVE  LET d == WithLabels(c, p, g, i)
           IN  /\ d \in Context /\ SameRequest(c, d) /\ d.index = i
               /\ d.route = p /\ d.group = g /\ d.aborted = c.aborted
<1> DEFINE c1 == [c EXCEPT !.route = p]
           c2 == [c1 EXCEPT !.group = g]
<1>1. c1 \in Context
  BY ContextSet
<1>2. c2 \in Context
  BY <1>1, ContextSet
<1>3. WithLabels(c, p, g, i) = [c2 EXCEPT !.index = i]
  BY Zenon DEF WithLabels
<1>4. WithLabels(c, p, g, i) \in Context
  <2> HIDE DEF c2
  <2>1. QED
    BY <1>2, <1>3, ContextSet
<1>5. QED
  BY <1>4 DEF WithLabels, Context, SameRequest

LEMMA AbortedSet ==
    ASSUME NEW c \in Context
    PROVE  LET d == WithAborted(c)
           IN  /\ d \in Context /\ SameRequest(c, d) /\ d.index = c.index
               /\ d.route = c.route /\ d.group = c.group /\ d.aborted = TRUE
<1>1. WithAborted(c) \in Context
  BY ContextSet DEF WithAborted
<1>2. QED
  BY <1>1 DEF WithAborted, Context, SameRequest

LEMMA StatusSet ==
    ASSUME NEW c \in Context, NEW s \in Statuses
    PROVE  LET d == WithStatus(c, s)
           IN  /\ d \in Context /\ SameRequest(c, d) /\ d.index = c.index
               /\ d.route = c.route /\ d.group = c.group /\ d.aborted = c.aborted
<1>1. WithStatus(c, s) \in Context
  BY ContextSet DEF WithStatus
<1>2. QED
  BY <1>1 DEF WithStatus, Context, SameRequest

LEMMA TargetInChain ==
    ASSUME NEW t \in Targets, t.kind # "direct"
    PROVE  /\ t.size \in Nat /\ t.size >= 1
           /\ t.kind \in {"route", "fallback"}
           /\ t.kind = "route" => t.size >= 2
           /\ t.path \in Names /\ t.group \in Names
<1>1. t.size \in Nat /\ t.kind \in {"route", "fallback"} /\ t.path \in Names /\ t.group \in Names
  BY TargetFields
<1>2. (t.kind = "route" => t.size >= 2) /\ (t.kind = "fallback" => t.size = 1)
  BY TargetFields
<1>3. QED
  BY <1>1, <1>2

LEMMA InChain ==
    ASSUME IInv, NEW r \in Requests, at[r] \in Running
    PROVE  /\ ctx[r] \in Contexts /\ Mine(r) \in Context
           /\ target[r] \in Targets /\ target[r].size \in Nat /\ target[r].size >= 1
           /\ target[r].kind \in {"route", "fallback"}
           /\ target[r].kind = "route" => target[r].size >= 2
           /\ target[r].path \in Names /\ target[r].group \in Names
           /\ Mine(r).handlers = target[r] /\ Size(Mine(r)) = target[r].size
           /\ Mine(r).index \in Nat /\ did[r] \in Did /\ stack[r] \in Seq(Nat)
           /\ Labelled(r) /\ Ordered(r)
<1>1. at[r] \in Holds /\ at[r] \in Routed /\ at[r] \notin Untargeted
  BY DEF Running, Holds, Routed, Untargeted, Places
<1>2. ctx[r] \in Contexts /\ Mine(r) \in Context
  BY <1>1, Own
<1>3. target[r] \in Targets /\ Size(Mine(r)) = target[r].size
  BY <1>1, Own
<1>4. Labelled(r) /\ Ordered(r) /\ did[r] \in Did /\ stack[r] \in Seq(Nat)
  BY DEF IInv, About, Flat
<1>5. target[r].kind # "direct" /\ Mine(r).index \in Nat /\ Mine(r).handlers = target[r]
  BY <1>4 DEF Labelled
<1>6. /\ target[r].size \in Nat /\ target[r].size >= 1
      /\ target[r].kind \in {"route", "fallback"}
      /\ target[r].kind = "route" => target[r].size >= 2
      /\ target[r].path \in Names /\ target[r].group \in Names
  <2>1. \A t \in Targets : t.kind # "direct" =>
           /\ t.size \in Nat /\ t.size >= 1
           /\ t.kind \in {"route", "fallback"}
           /\ t.kind = "route" => t.size >= 2
           /\ t.path \in Names /\ t.group \in Names
    BY TargetInChain
  <2>2. QED
    BY <1>3, <1>5, <2>1, Zenon
<1>7. QED
  BY <1>2, <1>3, <1>4, <1>5, <1>6

\* The labels that go with an index.
Labels(c, t) ==
    IF t.kind = "route" /\ c.index >= 1
    THEN c.route = t.path /\ c.group = t.group
    ELSE c.route = "" /\ c.group = ""

LEMMA InsideStep ==
    ASSUME IInv, NEW r \in Requests, ChainFrame(r), at[r] \in Running, at'[r] \in Running,
           NEW d, Mine(r)' = d, SameRequest(Mine(r), d), d.index \in Nat,
           target[r].kind = "route" /\ stack'[r] # <<>> => d.index >= 1,
           Labels(d, target[r]),
           at'[r] = "handler" => stack'[r] # <<>>,
           Ordered(r)'
    PROVE  IInv'
<1>1. About(r)
  BY DEF IInv
<1>2. /\ target' = target /\ buf' = buf /\ content' = content /\ ctx' = ctx /\ stat' = stat
  BY DEF ChainFrame
<1>3. Held(r)'
  BY <1>1, <1>2 DEF About, Held, Running, Holds, Places, Routed, Untargeted
<1>4. Fresh(r)' /\ Filed(r)'
  BY <1>1, <1>2 DEF About, Fresh, Filed, Early, Running
<1>5. Labelled(r)'
  <2>1. /\ Mine(r).request = r /\ Mine(r).handlers = target[r]
        /\ Mine(r).params = IF target[r].named THEN buf[r] ELSE None
        /\ target[r].kind # "direct"
    BY <1>1 DEF About, Labelled
  <2>2. /\ d.request = r /\ d.handlers = target[r]
        /\ d.params = IF target[r].named THEN buf[r] ELSE None
    BY <2>1 DEF SameRequest
  <2>3. QED
    BY <1>2, <2>1, <2>2, Zenon DEF Labelled, Labels
<1>6. QED
  BY <1>3, <1>4, <1>5, ChainStep DEF About

\* A handler starts when as many have started as the index says.
LEMMA OneMore ==
    ASSUME NEW e \in Did, NEW n \in Nat, Len(e.started) = n,
           e.started = [i \in 1 .. n |-> i - 1]
    PROVE  LET f == [e EXCEPT !.started = Append(e.started, n)]
           IN  /\ f \in Did /\ f.aborted = e.aborted /\ Len(f.started) = n + 1
               /\ f.started = [i \in 1 .. n + 1 |-> i - 1]
<1> DEFINE s == Append(e.started, n)
           f == [e EXCEPT !.started = s]
<1>1. e.started \in Seq(Nat)
  BY DEF Did
<1>2. s \in Seq(Nat) /\ Len(s) = n + 1
  BY <1>1
<1>3. \A i \in 1 .. n + 1 : s[i] = i - 1
  BY <1>1
<1>4. s = [i \in 1 .. n + 1 |-> i - 1]
  BY <1>2, <1>3
<1> HIDE DEF s
<1>5. f \in Did /\ f.aborted = e.aborted /\ f.started = s
  BY <1>2 DEF Did
<1>6. QED
  BY <1>2, <1>4, <1>5 DEF s

LEMMA StartsOne ==
    ASSUME IInv, NEW r \in Requests, Starts(r), Mine(r).index \in Nat, Counting(r),
           Len(did[r].started) = Mine(r).index
    PROVE  /\ did' \in [Requests -> Did]
           /\ \A q \in Requests \ {r} : did'[q] = did[q]
           /\ did'[r].aborted = did[r].aborted
           /\ Len(did'[r].started) = Mine(r).index + 1
           /\ did'[r].started = [i \in 1 .. Len(did'[r].started) |-> i - 1]
<1> DEFINE n == Mine(r).index
           f == [did[r] EXCEPT !.started = Append(did[r].started, n)]
<1>1. did \in [Requests -> Did]
  BY DEF IInv, Flat
<1>2. did' = [did EXCEPT ![r] = f]
  BY DEF Starts
<1>3. did[r].started = [i \in 1 .. n |-> i - 1] /\ n \in Nat /\ did[r] \in Did
  BY <1>1 DEF Counting
<1>4. /\ f \in Did /\ f.aborted = did[r].aborted /\ Len(f.started) = n + 1
      /\ f.started = [i \in 1 .. n + 1 |-> i - 1]
  BY <1>3, OneMore
<1> HIDE DEF f, n
<1>5. did' \in [Requests -> Did] /\ did'[r] = f /\ \A q \in Requests \ {r} : did'[q] = did[q]
  BY <1>1, <1>2, <1>4
<1>6. QED
  BY <1>4, <1>5 DEF n

LEMMA CallFirstKeeps ==
    ASSUME IInv, NEW r \in Requests, CallFirst(r)
    PROVE  IInv'
<1> DEFINE t == target[r]
           d == WithLabels(Mine(r), t.path, t.group, 1)
<1>1. /\ at[r] = "loop" /\ Mine(r).index < Size(Mine(r)) /\ ~Mine(r).aborted
      /\ Mine(r).index = 0 /\ Mine(r).handlers.kind = "route"
      /\ stack' = [stack EXCEPT ![r] = Append(@, 0)]
      /\ did' = [did EXCEPT ![r].started = Append(@, Mine(r).index)]
      /\ UNCHANGED <<at, ctx, buf, target, panics, scope, stat, content, ctxPool, bufPool, metrics>>
  BY DEF CallFirst, Starts
<1>2. at[r] \in Running
  BY <1>1 DEF Running
<1>3. Flat /\ Figures
  BY DEF IInv
<1>4. /\ ctx[r] \in Contexts /\ Mine(r) \in Context /\ t.kind = "route"
      /\ t.path \in Names /\ t.group \in Names /\ t.size \in Nat /\ t.size >= 2
      /\ did[r] \in Did /\ stack[r] \in Seq(Nat) /\ Labelled(r) /\ Ordered(r)
  BY <1>1, <1>2, InChain
<1>5. /\ d \in Context /\ SameRequest(Mine(r), d) /\ d.index = 1
      /\ d.route = t.path /\ d.group = t.group /\ d.aborted = Mine(r).aborted
  <2>1. 1 \in Int
    OBVIOUS
  <2>2. ASSUME NEW p \in Names, NEW g \in Names
        PROVE  LET e == WithLabels(Mine(r), p, g, 1)
               IN  /\ e \in Context /\ SameRequest(Mine(r), e) /\ e.index = 1
                   /\ e.route = p /\ e.group = g /\ e.aborted = Mine(r).aborted
    BY <1>4, <2>1, LabelsSet
  <2>3. QED
    BY <1>4, <2>2
<1>6. context' = [context EXCEPT ![ctx[r]] = d]
  <2>1. Mine(r).handlers = t /\ Mine(r).index + 1 = 1
    BY <1>1, <1>2, InChain
  <2>2. context' = [context EXCEPT ![ctx[r]] =
           WithLabels(Mine(r), Mine(r).handlers.path, Mine(r).handlers.group, Mine(r).index + 1)]
    BY DEF CallFirst, WithLabels
  <2>3. QED
    BY <2>1, <2>2
<1> HIDE DEF d
<1>7. did[r].aborted = 0 /\ Len(did[r].started) = 0 /\ Counting(r)
  BY <1>1, <1>2, <1>4 DEF Ordered, Reached, Did
<1>8. /\ did' \in [Requests -> Did]
      /\ \A q \in Requests \ {r} : did'[q] = did[q]
      /\ did'[r].aborted = 0 /\ Len(did'[r].started) = 1 /\ Counting(r)'
  <2>1. Starts(r)
    BY <1>1 DEF Starts
  <2>2. Mine(r).index = 0 /\ 0 \in Nat /\ 0 + 1 = 1
    BY <1>1
  <2>3. /\ did' \in [Requests -> Did]
        /\ \A q \in Requests \ {r} : did'[q] = did[q]
        /\ did'[r].aborted = did[r].aborted /\ Len(did'[r].started) = Mine(r).index + 1
        /\ did'[r].started = [i \in 1 .. Len(did'[r].started) |-> i - 1]
    BY <1>7, <2>1, <2>2, StartsOne
  <2>4. Counting(r)'
    BY <2>3 DEF Counting
  <2>5. QED
    BY <1>7, <2>2, <2>3, <2>4
<1>9. ChainFrame(r)
  BY <1>1, <1>3, <1>4, <1>5, <1>6, <1>8 DEF ChainFrame, Flat
<1>10. Mine(r)' = d /\ at'[r] = "loop" /\ target'[r] = t
  BY <1>1, <1>3, <1>4, <1>6 DEF Mine, Flat
<1>11. Ordered(r)'
  <2>1. Reached(r, 1)'
    BY <1>4, <1>8, <1>10 DEF Reached
  <2>2. QED
    BY <1>1, <1>5, <1>8, <1>10, <2>1 DEF Ordered, Running
<1>12. Labels(d, t) /\ d.index \in Nat /\ d.index >= 1
  BY <1>4, <1>5 DEF Labels
<1>13. QED
  BY <1>2, <1>5, <1>9, <1>10, <1>11, <1>12, InsideStep DEF Running

LEMMA CallKeeps ==
    ASSUME IInv, NEW r \in Requests, Call(r)
    PROVE  IInv'
<1> DEFINE t == target[r]
           d == Mine(r)
<1>1. /\ at[r] = "loop" /\ at' = [at EXCEPT ![r] = "handler"]
      /\ d.index < Size(d) /\ ~d.aborted
      /\ d.index > 0 \/ d.handlers.kind = "fallback"
      /\ stack' = [stack EXCEPT ![r] = Append(@, d.index)] /\ Starts(r)
      /\ UNCHANGED <<ctx, buf, target, panics, scope, stat, pools, metrics>>
  BY DEF Call, Goto
<1>2. at[r] \in Running
  BY <1>1 DEF Running
<1>3. Flat /\ Figures
  BY DEF IInv
<1>4. /\ t.size \in Nat /\ d.handlers = t /\ d.index < t.size /\ d.index \in Nat
      /\ did[r] \in Did /\ stack[r] \in Seq(Nat) /\ Labelled(r) /\ Ordered(r)
  BY <1>1, <1>2, InChain
<1>5. did[r].aborted = 0 /\ Counting(r)
  BY <1>1, <1>2, <1>4 DEF Ordered
<1>6. Len(did[r].started) = d.index
  BY <1>1, <1>4, <1>5 DEF Ordered, Reached
<1>7. /\ did' \in [Requests -> Did]
      /\ \A q \in Requests \ {r} : did'[q] = did[q]
      /\ did'[r].aborted = 0 /\ Len(did'[r].started) = d.index + 1 /\ Counting(r)'
  <2>1. /\ did' \in [Requests -> Did]
        /\ \A q \in Requests \ {r} : did'[q] = did[q]
        /\ did'[r].aborted = did[r].aborted /\ Len(did'[r].started) = d.index + 1
        /\ did'[r].started = [i \in 1 .. Len(did'[r].started) |-> i - 1]
    BY <1>1, <1>4, <1>5, <1>6, StartsOne
  <2>2. QED
    BY <1>5, <2>1 DEF Counting
<1>8. Append(stack[r], d.index) \in Seq(Nat) /\ Append(stack[r], d.index) # <<>>
  BY <1>4
<1>9. ChainFrame(r)
  BY <1>1, <1>3, <1>7, <1>8 DEF ChainFrame, Flat, Places, pools
<1>10. /\ Mine(r)' = d /\ at'[r] = "handler" /\ target'[r] = t
       /\ stack'[r] = Append(stack[r], d.index)
  BY <1>1, <1>3 DEF Mine, Flat, pools
<1>11. Ordered(r)'
  <2>1. Reached(r, d.index + 1)'
    BY <1>4, <1>7, <1>10 DEF Reached
  <2>2. d.aborted <=> FALSE
    BY <1>1
  <2>3. QED
    BY <1>7, <1>10, <2>1, <2>2 DEF Ordered, Running
<1>12. /\ Labels(d, t)
       /\ t.kind = "route" => d.index >= 1
  <2>1. Labels(d, t)
    BY <1>2, <1>4 DEF Labelled, Labels
  <2>2. t.kind = "route" => d.index > 0
    BY <1>1, <1>4
  <2>3. QED
    BY <1>4, <2>1, <2>2
<1>13. QED
  BY <1>2, <1>4, <1>8, <1>9, <1>10, <1>11, <1>12, InsideStep DEF Running, SameRequest

LEMMA LeaveLoopKeeps ==
    ASSUME IInv, NEW r \in Requests, LeaveLoop(r)
    PROVE  IInv'
<1> DEFINE t == target[r]
           d == Mine(r)
<1>1. /\ at[r] = "loop" /\ at' = [at EXCEPT ![r] = IF stack[r] = <<>> THEN "ran" ELSE "handler"]
      /\ d.index >= Size(d) \/ d.aborted
      /\ UNCHANGED <<ctx, buf, target, stack, panics, scope, stat, pools, metrics, did>>
  BY DEF LeaveLoop, Goto
<1>2. at[r] \in Running
  BY <1>1 DEF Running
<1>3. Flat /\ About(r)
  BY DEF IInv
<1>4. /\ t.size \in Nat /\ d.index \in Nat /\ Labelled(r) /\ Ordered(r)
      /\ d.index >= t.size \/ d.aborted
  BY <1>1, <1>2, InChain
<1>5. ChainFrame(r)
  BY <1>1, <1>3 DEF ChainFrame, Flat, Places, pools
<1>6. /\ Mine(r)' = d /\ target'[r] = t /\ stack'[r] = stack[r] /\ did'[r] = did[r]
      /\ at'[r] = IF stack[r] = <<>> THEN "ran" ELSE "handler"
  BY <1>1, <1>3 DEF Mine, Flat, pools
<1>7. did[r].aborted = 0 => Len(did[r].started) = t.size /\ d.index >= t.size
  BY <1>1, <1>2, <1>4 DEF Ordered, Reached
<1>8. Ordered(r)'
  <2>1. Counting(r)' /\ (did'[r].aborted # 0 => Len(did'[r].started) = did'[r].aborted)
    BY <1>4, <1>6 DEF Ordered, Counting
  <2>2. did[r].aborted = 0 => Reached(r, d.index + 1)'
    BY <1>4, <1>6, <1>7 DEF Reached
  <2>3. d.aborted <=> did'[r].aborted # 0
    BY <1>2, <1>4, <1>6 DEF Ordered
  <2>4. QED
    BY <1>6, <1>7, <2>1, <2>2, <2>3 DEF Ordered, Running
<1>9. CASE stack[r] = <<>>
  <2>1. at'[r] = "ran"
    BY <1>6, <1>9
  <2>2. Held(r)'
    BY <1>1, <1>2, <1>3, <2>1 DEF About, Held, Running, Holds, Places, Routed, Untargeted
  <2>3. Fresh(r)' /\ Labelled(r)' /\ Filed(r)'
    BY <2>1 DEF Fresh, Labelled, Filed, Early, Running
  <2>4. QED
    BY <1>5, <1>8, <2>2, <2>3, ChainStep DEF About
<1>10. CASE stack[r] # <<>>
  <2>1. at'[r] = "handler" /\ at'[r] \in Running
    BY <1>6, <1>10 DEF Running
  <2>2. Labels(d, t) /\ (t.kind = "route" => d.index >= 1)
    BY <1>2, <1>4, <1>10 DEF Labelled, Labels
  <2>3. QED
    BY <1>2, <1>4, <1>5, <1>6, <1>8, <1>10, <2>1, <2>2, InsideStep DEF SameRequest
<1>11. QED
  BY <1>9, <1>10

\* The index moves on when a handler calls Next and when one returns.
LEMMA IndexMoves ==
    ASSUME IInv, NEW r \in Requests, at[r] = "handler",
           context' = [context EXCEPT ![ctx[r]].index = @ + 1],
           at' = [at EXCEPT ![r] = "loop"],
           stack' \in [Requests -> Seq(Nat)],
           \A q \in Requests \ {r} : stack'[q] = stack[q],
           UNCHANGED <<ctx, buf, target, panics, scope, stat, content, ctxPool, bufPool,
                       metrics, did>>
    PROVE  IInv'
<1> DEFINE t == target[r]
           c == Mine(r)
           d == WithIndex(c, c.index + 1)
<1>1. at[r] \in Running
  BY DEF Running
<1>2. Flat
  BY DEF IInv
<1>3. /\ ctx[r] \in Contexts /\ c \in Context /\ t.size \in Nat /\ c.index \in Nat
      /\ Labelled(r) /\ Ordered(r)
  BY <1>1, InChain
<1>4. stack[r] # <<>>
  BY DEF IInv, About, Held
<1>5. context' = [context EXCEPT ![ctx[r]] = d]
  BY DEF Mine, WithIndex
<1>6. c.index + 1 \in Nat /\ c.index + 1 >= 1
  BY <1>3
<1>7. /\ d \in Context /\ SameRequest(c, d) /\ d.index = c.index + 1
      /\ d.route = c.route /\ d.group = c.group /\ d.aborted = c.aborted
  <2>1. ASSUME NEW i \in Int
        PROVE  LET e == WithIndex(c, i)
               IN  /\ e \in Context /\ SameRequest(c, e) /\ e.index = i
                   /\ e.route = c.route /\ e.group = c.group /\ e.aborted = c.aborted
    BY <1>3, IndexSet
  <2>2. c.index + 1 \in Int
    BY <1>6
  <2>3. QED
    BY <2>1, <2>2
<1> HIDE DEF d
<1>8. ChainFrame(r)
  BY <1>2, <1>3, <1>5, <1>7 DEF ChainFrame, Flat, Places
<1>9. Mine(r)' = d /\ at'[r] = "loop" /\ target'[r] = t /\ did'[r] = did[r]
  BY <1>2, <1>3, <1>5 DEF Mine, Flat
<1>10. Labels(d, t) /\ d.index \in Nat /\ d.index >= 1
  <2>1. t.kind = "route" => c.index >= 1
    BY <1>1, <1>3, <1>4 DEF Labelled
  <2>2. IF t.kind = "route" THEN c.route = t.path /\ c.group = t.group
        ELSE c.route = "" /\ c.group = ""
    BY <1>1, <1>3, <2>1 DEF Labelled
  <2>3. d.index \in Nat /\ d.index >= 1
    BY <1>6, <1>7
  <2>4. QED
    BY <1>7, <2>2, <2>3 DEF Labels
<1>11. Ordered(r)'
  <2>1. Counting(r)' /\ (did'[r].aborted # 0 => Len(did'[r].started) = did'[r].aborted)
    BY <1>3, <1>9 DEF Ordered, Counting
  <2>2. did[r].aborted = 0 => Reached(r, c.index + 1)
    BY <1>3 DEF Ordered
  <2>3. did[r].aborted = 0 =>
           /\ d.index <= target'[r].size => Len(did'[r].started) = d.index
           /\ d.index >= target'[r].size => Len(did'[r].started) = target'[r].size
    BY <1>7, <1>9, <2>2 DEF Reached
  <2>4. d.aborted <=> did'[r].aborted # 0
    BY <1>1, <1>3, <1>7, <1>9 DEF Ordered
  <2>5. QED
    BY <1>9, <2>1, <2>3, <2>4 DEF Ordered, Reached, Running
<1>12. QED
  BY <1>1, <1>7, <1>8, <1>9, <1>10, <1>11, InsideStep DEF Running

LEMMA NextKeeps ==
    ASSUME IInv, NEW r \in Requests, Next_(r)
    PROVE  IInv'
<1>1. /\ at[r] = "handler" /\ at' = [at EXCEPT ![r] = "loop"]
      /\ context' = [context EXCEPT ![ctx[r]].index = @ + 1]
      /\ UNCHANGED <<ctx, buf, target, stack, panics, scope, stat, content, ctxPool, bufPool,
                     metrics, did>>
  BY DEF Next_, Applied, Goto
<1>2. stack \in [Requests -> Seq(Nat)]
  BY DEF IInv, Flat
<1>3. QED
  BY <1>1, <1>2, IndexMoves

\* Taking handlers off the stack leaves handlers.
LEMMA Popped ==
    ASSUME NEW s \in Seq(Nat), NEW i \in 0 .. Len(s)
    PROVE  SubSeq(s, 1, i) \in Seq(Nat) /\ Len(SubSeq(s, 1, i)) = i
OBVIOUS

LEMMA ReturnKeeps ==
    ASSUME IInv, NEW r \in Requests, Return(r)
    PROVE  IInv'
<1>1. /\ at[r] = "handler" /\ at' = [at EXCEPT ![r] = "loop"]
      /\ stack' = [stack EXCEPT ![r] = SubSeq(stack[r], 1, Len(stack[r]) - 1)]
      /\ context' = [context EXCEPT ![ctx[r]].index = @ + 1]
      /\ UNCHANGED <<ctx, buf, target, panics, scope, stat, content, ctxPool, bufPool, metrics,
                     did>>
  BY DEF Return, Goto
<1>2. stack \in [Requests -> Seq(Nat)] /\ stack[r] \in Seq(Nat) /\ stack[r] # <<>>
  BY <1>1 DEF IInv, Flat, About, Held
<1>3. Len(stack[r]) - 1 \in 0 .. Len(stack[r])
  BY <1>2
<1>4. SubSeq(stack[r], 1, Len(stack[r]) - 1) \in Seq(Nat)
  BY <1>2, <1>3, Popped
<1>5. stack' \in [Requests -> Seq(Nat)] /\ \A q \in Requests \ {r} : stack'[q] = stack[q]
  BY <1>1, <1>2, <1>4
<1>6. QED
  BY <1>1, <1>5, IndexMoves

\* The handlers in which nothing of the chain moves.
LEMMA StayInHandler ==
    ASSUME IInv, NEW r \in Requests, ChainFrame(r), at[r] = "handler", at'[r] = "handler",
           NEW d, Mine(r)' = d, SameRequest(Mine(r), d), d.index = Mine(r).index,
           d.route = Mine(r).route, d.group = Mine(r).group,
           stack'[r] # <<>>, did'[r].started = did[r].started,
           \/ d.aborted = Mine(r).aborted /\ did'[r].aborted = did[r].aborted
           \/ d.aborted = TRUE /\ did'[r].aborted # 0 /\ did'[r].aborted = Len(did[r].started)
    PROVE  IInv'
<1> DEFINE t == target[r]
           c == Mine(r)
<1>1. at[r] \in Running /\ at'[r] \in Running /\ target' = target
  BY DEF Running, ChainFrame
<1>2. t.size \in Nat /\ c.index \in Nat /\ Labelled(r) /\ Ordered(r)
  BY <1>1, InChain
<1>3. stack[r] # <<>>
  BY DEF IInv, About, Held
<1>4. Labels(d, t) /\ d.index \in Nat /\ (t.kind = "route" => d.index >= 1)
  BY <1>1, <1>2, <1>3 DEF Labelled, Labels
<1>5. Ordered(r)'
  <2>1. Counting(r)'
    BY <1>2 DEF Ordered, Counting
  <2>2. did'[r].aborted # 0 => Len(did'[r].started) = did'[r].aborted
    BY <1>2 DEF Ordered
  <2>3. d.aborted <=> did'[r].aborted # 0
    BY <1>1, <1>2 DEF Ordered
  <2>4. did'[r].aborted = 0 => Reached(r, d.index + 1)
    BY <1>2, <2>3 DEF Ordered
  <2>5. did'[r].aborted = 0 => Reached(r, d.index + 1)'
    BY <1>1, <2>4 DEF Reached
  <2>6. QED
    BY <2>1, <2>2, <2>3, <2>5 DEF Ordered, Running
<1>6. QED
  BY <1>1, <1>4, <1>5, InsideStep

LEMMA AbortKeeps ==
    ASSUME IInv, NEW r \in Requests, Abort(r)
    PROVE  IInv'
<1> DEFINE c == Mine(r)
           d == WithAborted(c)
           n == Len(did[r].started)
           f == [did[r] EXCEPT !.aborted = n]
<1>1. /\ at[r] = "handler"
      /\ context' = [context EXCEPT ![ctx[r]].aborted = TRUE]
      /\ did' = [did EXCEPT ![r].aborted = n]
      /\ UNCHANGED <<local, content, ctxPool, bufPool, metrics>>
  BY DEF Abort, Applied
<1>2. at[r] \in Running
  BY <1>1 DEF Running
<1>3. Flat
  BY DEF IInv
<1>4. /\ ctx[r] \in Contexts /\ c \in Context /\ target[r].size \in Nat /\ target[r].size >= 1
      /\ c.index \in Nat /\ did[r] \in Did /\ Ordered(r)
  BY <1>2, InChain
<1>5. stack[r] # <<>>
  BY <1>1 DEF IInv, About, Held
<1>6. n \in Nat /\ n # 0
  <2>1. n \in Nat
    BY <1>4 DEF Did
  <2>2. did[r].aborted = 0 => n # 0
    BY <1>1, <1>4 DEF Ordered, Reached
  <2>3. did[r].aborted # 0 => n # 0
    BY <1>4 DEF Ordered
  <2>4. QED
    BY <2>1, <2>2, <2>3
<1>7. f \in Did /\ f.started = did[r].started /\ f.aborted = n
  BY <1>4, <1>6 DEF Did
<1>8. context' = [context EXCEPT ![ctx[r]] = d] /\ did' = [did EXCEPT ![r] = f]
  BY <1>1 DEF Mine, WithAborted
<1>9. /\ d \in Context /\ SameRequest(c, d) /\ d.index = c.index
      /\ d.route = c.route /\ d.group = c.group /\ d.aborted = TRUE
  BY <1>4, AbortedSet
<1> HIDE DEF d, f
<1>10. ChainFrame(r)
  <2>1. did' \in [Requests -> Did] /\ \A q \in Requests \ {r} : did'[q] = did[q]
    BY <1>3, <1>7, <1>8 DEF Flat
  <2>2. context' \in [Contexts -> Context] /\ \A b \in Contexts \ {ctx[r]} : context'[b] = context[b]
    BY <1>3, <1>4, <1>8, <1>9 DEF Flat
  <2>3. QED
    BY <1>1, <1>3, <2>1, <2>2 DEF ChainFrame, Flat, local
<1>11. /\ Mine(r)' = d /\ at'[r] = "handler" /\ stack'[r] # <<>>
       /\ did'[r].started = did[r].started /\ did'[r].aborted = n
  BY <1>1, <1>3, <1>4, <1>5, <1>7, <1>8 DEF Mine, Flat, local
<1>12. QED
  BY <1>1, <1>6, <1>9, <1>10, <1>11, StayInHandler

LEMMA RespondKeeps ==
    ASSUME IInv, NEW r \in Requests, NEW s \in Statuses, Respond(r, s)
    PROVE  IInv'
<1> DEFINE c == Mine(r)
           d == WithStatus(c, s)
           f == [did[r] EXCEPT !.status = s]
<1>1. /\ at[r] = "handler"
      /\ context' = [context EXCEPT ![ctx[r]].status = s]
      /\ did' = [did EXCEPT ![r].status = s]
      /\ UNCHANGED <<local, content, ctxPool, bufPool, metrics>>
  BY DEF Respond, Applied
<1>2. at[r] \in Running
  BY <1>1 DEF Running
<1>3. Flat
  BY DEF IInv
<1>4. ctx[r] \in Contexts /\ c \in Context /\ did[r] \in Did
  BY <1>2, InChain
<1>5. stack[r] # <<>>
  BY <1>1 DEF IInv, About, Held
<1>6. s \in 0 .. 5
  BY StatusesAssumption
<1>7. f \in Did /\ f.started = did[r].started /\ f.aborted = did[r].aborted
  BY <1>4, <1>6 DEF Did
<1>8. context' = [context EXCEPT ![ctx[r]] = d] /\ did' = [did EXCEPT ![r] = f]
  BY <1>1 DEF Mine, WithStatus
<1>9. /\ d \in Context /\ SameRequest(c, d) /\ d.index = c.index
      /\ d.route = c.route /\ d.group = c.group /\ d.aborted = c.aborted
  BY <1>4, StatusSet
<1> HIDE DEF d, f
<1>10. ChainFrame(r)
  <2>1. did' \in [Requests -> Did] /\ \A q \in Requests \ {r} : did'[q] = did[q]
    BY <1>3, <1>7, <1>8 DEF Flat
  <2>2. context' \in [Contexts -> Context] /\ \A b \in Contexts \ {ctx[r]} : context'[b] = context[b]
    BY <1>3, <1>4, <1>8, <1>9 DEF Flat
  <2>3. QED
    BY <1>1, <1>3, <2>1, <2>2 DEF ChainFrame, Flat, local
<1>11. /\ Mine(r)' = d /\ at'[r] = "handler" /\ stack'[r] # <<>>
       /\ did'[r].started = did[r].started /\ did'[r].aborted = did[r].aborted
  BY <1>1, <1>3, <1>4, <1>5, <1>7, <1>8 DEF Mine, Flat, local
<1>12. QED
  BY <1>1, <1>9, <1>10, <1>11, StayInHandler

LEMMA PanicRecoveredKeeps ==
    ASSUME IInv, NEW r \in Requests, PanicRecovered(r)
    PROVE  IInv'
<1>1. PICK i \in 1 .. Len(stack[r]) - 1 : stack' = [stack EXCEPT ![r] = SubSeq(stack[r], 1, i)]
  BY DEF PanicRecovered
<1>2. /\ at[r] = "handler"
      /\ UNCHANGED <<at, ctx, buf, target, panics, scope, stat, pools, metrics, did>>
  BY DEF PanicRecovered, Applied
<1>3. Flat /\ stack[r] \in Seq(Nat)
  BY DEF IInv, Flat
<1>4. SubSeq(stack[r], 1, i) \in Seq(Nat) /\ SubSeq(stack[r], 1, i) # <<>>
  <2>1. i \in 0 .. Len(stack[r]) /\ i >= 1
    BY <1>3
  <2>2. SubSeq(stack[r], 1, i) \in Seq(Nat) /\ Len(SubSeq(stack[r], 1, i)) = i
    BY <1>3, <2>1, Popped
  <2>3. QED
    BY <2>1, <2>2
<1>5. ChainFrame(r)
  BY <1>1, <1>2, <1>3, <1>4 DEF ChainFrame, Flat, pools
<1>6. /\ Mine(r)' = Mine(r) /\ at'[r] = "handler" /\ stack'[r] # <<>> /\ did'[r] = did[r]
  BY <1>1, <1>2, <1>3, <1>4 DEF Mine, Flat, pools
<1>7. QED
  BY <1>2, <1>5, <1>6, StayInHandler DEF SameRequest

LEMMA PanicKeeps ==
    ASSUME IInv, NEW r \in Requests, Panic(r)
    PROVE  IInv'
<1>1. /\ at[r] = "handler" /\ at' = [at EXCEPT ![r] = "ran"]
      /\ stack' = [stack EXCEPT ![r] = <<>>] /\ panics' = [panics EXCEPT ![r] = TRUE]
      /\ UNCHANGED <<ctx, buf, target, scope, stat, pools, metrics, did>>
  BY DEF Panic, Applied, Goto
<1>2. Flat /\ About(r)
  BY DEF IInv
<1>3. <<>> \in Seq(Nat)
  OBVIOUS
<1>4. ChainFrame(r)
  BY <1>1, <1>2, <1>3 DEF ChainFrame, Flat, Places, pools
<1>5. at'[r] = "ran" /\ panics'[r]
  BY <1>1, <1>2 DEF Flat
<1>6. Held(r)'
  BY <1>1, <1>2, <1>5 DEF About, Held, Holds, Places, Routed, Untargeted
<1>7. Fresh(r)' /\ Labelled(r)' /\ Filed(r)'
  BY <1>5 DEF Fresh, Labelled, Filed, Early, Running
<1>8. Ordered(r)'
  BY <1>1, <1>2, <1>5 DEF About, Ordered, Counting, Running
<1>9. QED
  BY <1>4, <1>6, <1>7, <1>8, ChainStep DEF About

-----------------------------------------------------------------------------
(* The way out.                                                            *)

LEMMA PutBufferKeeps ==
    ASSUME IInv, NEW r \in Requests, PutBuffer(r)
    PROVE  IInv'
<1>1. /\ at[r] = "ran" /\ at' = [at EXCEPT ![r] = "returned"]
      /\ bufPool' = bufPool \cup {buf[r]} /\ buf' = [buf EXCEPT ![r] = None]
      /\ UNCHANGED <<ctx, target, stack, panics, scope, stat, context, content, ctxPool, metrics,
                     did>>
  BY DEF PutBuffer, Goto
<1>2. Flat /\ Figures /\ Apart /\ About(r)
  BY DEF IInv
<1>3. buf[r] \in Buffers
  BY <1>1, Own DEF Routed
<1>4. Flat'
  BY <1>1, <1>2, <1>3 DEF Flat, Places
<1>5. Figures'
  BY <1>1, <1>2 DEF Figures, metrics
<1>6. \A q \in Requests \ {r} : buf[q] # buf[r]
  BY <1>2, <1>3, NoneAssumption DEF Apart
<1>7. Apart'
  BY <1>1, <1>2, <1>3, <1>6, NoneAssumption DEF Apart, Flat
<1>8. Others(r)
  BY <1>1, <1>2 DEF Others, Flat
<1>9. at'[r] = "returned" /\ buf'[r] = None
  BY <1>1, <1>2 DEF Flat
<1>10. Held(r)'
  BY <1>1, <1>2, <1>9 DEF About, Held, Holds, Places, Routed, Untargeted
<1>11. Fresh(r)' /\ Labelled(r)' /\ Ordered(r)'
  BY <1>1, <1>9, LateIsQuiet DEF Late
<1>12. Filed(r)'
  BY <1>9 DEF Filed
<1>13. QED
  BY <1>4, <1>5, <1>7, <1>8, <1>10, <1>11, <1>12, OneStep DEF About

LEMMA ReleaseKeeps ==
    ASSUME IInv, NEW r \in Requests, Release(r)
    PROVE  IInv'
<1>1. /\ at[r] = "recorded" /\ at' = [at EXCEPT ![r] = "done"]
      /\ ctxPool' = ctxPool \cup {ctx[r]} /\ ctx' = [ctx EXCEPT ![r] = None]
      /\ UNCHANGED <<buf, target, stack, panics, scope, stat, context, content, bufPool, metrics,
                     did>>
  BY DEF Release, Goto
<1>2. Flat /\ Figures /\ Apart /\ About(r)
  BY DEF IInv
<1>3. ctx[r] \in Contexts
  BY <1>1, Own DEF Holds, Places
<1>4. Flat'
  BY <1>1, <1>2, <1>3 DEF Flat, Places
<1>5. Figures'
  BY <1>1, <1>2 DEF Figures, metrics
<1>6. \A q \in Requests \ {r} : ctx[q] # ctx[r]
  BY <1>2, <1>3, NoneAssumption DEF Apart
<1>7. Apart'
  BY <1>1, <1>2, <1>3, <1>6, NoneAssumption DEF Apart, Flat
<1>8. Others(r)
  BY <1>1, <1>2 DEF Others, Flat
<1>9. at'[r] = "done" /\ ctx'[r] = None
  BY <1>1, <1>2 DEF Flat
<1>10. Held(r)'
  BY <1>1, <1>2, <1>9 DEF About, Held, Holds, Places, Routed, Untargeted
<1>11. Fresh(r)' /\ Labelled(r)' /\ Ordered(r)'
  BY <1>1, <1>9, LateIsQuiet DEF Late
<1>12. Filed(r)'
  BY <1>9 DEF Filed
<1>13. QED
  BY <1>4, <1>5, <1>7, <1>8, <1>10, <1>11, <1>12, OneStep DEF About

\* While a request is recorded it keeps what it has.
LEMMA RecordStep ==
    ASSUME IInv, NEW r \in Requests, at[r] \in Late \ {"done"},
           at'[r] \in Late \ {"done"}, at' \in [Requests -> Places],
           scope' \in [Requests -> Scopes], stat' \in [Requests -> Requests \cup {None}],
           \A q \in Requests \ {r} :
              at'[q] = at[q] /\ scope'[q] = scope[q] /\ stat'[q] = stat[q],
           UNCHANGED <<ctx, buf, target, stack, panics, pools, did>>,
           at'[r] = "add" => stat'[r] # None,
           Figures', Filed(r)'
    PROVE  IInv'
<1>1. Flat /\ Apart /\ About(r)
  BY DEF IInv
<1>2. Flat'
  BY <1>1 DEF Flat, pools
<1>3. Apart' /\ Others(r)
  BY <1>1 DEF Apart, Others, pools
<1>4. Held(r)'
  BY <1>1 DEF About, Held, Late, Holds, Places, Routed, Untargeted
<1>5. Fresh(r)' /\ Labelled(r)' /\ Ordered(r)'
  BY LateIsQuiet
<1>6. QED
  BY <1>2, <1>3, <1>4, <1>5, OneStep DEF About

LEMMA KeyIsName ==
    ASSUME IInv, NEW r \in Requests, at[r] \in Late \ {"done"}
    PROVE  /\ Key(r) \in Scopes \X Names /\ Mine(r) \in Context
<1>1. Mine(r) \in Context
  BY Own DEF Late, Holds, Places
<1>2. Mine(r).route \in Names /\ Mine(r).group \in Names
  BY <1>1, ContextFields
<1>3. scope[r] \in Scopes
  BY DEF IInv, Flat
<1>4. Key(r) \in Scopes \X Names
  BY <1>2, <1>3 DEF Key
<1>5. QED
  BY <1>1, <1>4

LEMMA ClassInRange ==
    ASSUME IInv, NEW r \in Requests, at[r] \in Late \ {"done"}
    PROVE  Class(r) \in 1 .. 5
<1>1. Mine(r).status \in 0 .. 5
  BY KeyIsName, ContextFields
<1>2. QED
  BY <1>1 DEF Class, StatusCode

LEMMA CountOutKeeps ==
    ASSUME IInv, NEW r \in Requests, CountOut(r)
    PROVE  IInv'
<1>1. /\ at[r] = "returned" /\ at' = [at EXCEPT ![r] = "load"]
      /\ scope' = [scope EXCEPT ![r] = "route"]
      /\ UNCHANGED <<ctx, buf, target, stack, panics, stat, pools, table, counted, did>>
  BY DEF CountOut, Goto
<1>2. Flat /\ Figures /\ m \in Metrics
  BY DEF IInv, Figures
<1>3. Class(r) \in 1 .. 5
  BY <1>1, ClassInRange DEF Late
<1> DEFINE a == m.inFlight - 1
           b == m.samples + 1
           e == IF Class(r) = 5 THEN m.errors + 1 ELSE m.errors
           p == IF panics[r] THEN m.protocols ELSE m.protocols + 1
           k == [m.class EXCEPT ![Class(r)] = @ + 1]
<1>4. m' = [m EXCEPT !.inFlight = a, !.samples = b, !.class = k, !.errors = e, !.protocols = p]
  BY DEF CountOut
<1>5. a \in Int /\ b \in Int /\ e \in Int /\ p \in Int /\ k \in [1 .. 5 -> Int]
  BY <1>2, <1>3 DEF Metrics
<1> HIDE DEF a, b, e, p, k
<1>6. m' \in Metrics
  BY <1>2, <1>4, <1>5 DEF Metrics
<1>7. Figures'
  BY <1>1, <1>2, <1>6 DEF Figures
<1>8. at'[r] = "load" /\ Filed(r)'
  BY <1>1, <1>2 DEF Flat, Filed
<1>9. /\ at' \in [Requests -> Places] /\ scope' \in [Requests -> Scopes]
      /\ \A q \in Requests \ {r} : at'[q] = at[q] /\ scope'[q] = scope[q]
  BY <1>1, <1>2 DEF Flat, Places, Scopes
<1>10. QED
  BY <1>1, <1>2, <1>7, <1>8, <1>9, RecordStep DEF Late, Flat

LEMMA UnnamedKeeps ==
    ASSUME IInv, NEW r \in Requests, Unnamed(r)
    PROVE  IInv'
<1>1. /\ at[r] = "load"
      /\ at' = [at EXCEPT ![r] = IF scope[r] = "route" THEN "load" ELSE "recorded"]
      /\ scope' = [scope EXCEPT ![r] = "group"]
      /\ UNCHANGED <<ctx, buf, target, stack, panics, stat, pools, metrics, did>>
  BY DEF Unnamed, Advance, Goto
<1>2. Flat /\ Figures
  BY DEF IInv
<1>3. Figures'
  BY <1>1, <1>2 DEF Figures, metrics
<1>4. at'[r] \in {"load", "recorded"} /\ Filed(r)'
  BY <1>1, <1>2 DEF Flat, Filed
<1>5. /\ at' \in [Requests -> Places] /\ scope' \in [Requests -> Scopes]
      /\ \A q \in Requests \ {r} : at'[q] = at[q] /\ scope'[q] = scope[q]
  BY <1>1, <1>2 DEF Flat, Places, Scopes
<1>6. QED
  BY <1>1, <1>2, <1>3, <1>4, <1>5, RecordStep DEF Late, Flat

LEMMA LoadHitKeeps ==
    ASSUME IInv, NEW r \in Requests, LoadHit(r)
    PROVE  IInv'
<1>1. /\ at[r] = "load" /\ at' = [at EXCEPT ![r] = "add"]
      /\ Key(r)[2] # "" /\ Key(r) \in DOMAIN table
      /\ stat' = [stat EXCEPT ![r] = table[Key(r)]]
      /\ UNCHANGED <<ctx, buf, target, stack, panics, scope, pools, metrics, did>>
  BY DEF LoadHit, Goto
<1>2. Flat /\ Figures
  BY DEF IInv
<1>3. Figures'
  BY <1>1, <1>2 DEF Figures, metrics
<1>4. table[Key(r)] \in Requests /\ table[Key(r)] # None
  BY <1>1, <1>2, NoneAssumption DEF Figures
<1>5. at'[r] = "add" /\ stat'[r] # None
  BY <1>1, <1>2, <1>4 DEF Flat
<1>6. Filed(r)'
  <2>1. Key(r)' = Key(r)
    BY <1>1 DEF Key, Mine, pools
  <2>2. QED
    BY <1>1, <2>1 DEF Filed
<1>7. /\ at' \in [Requests -> Places] /\ stat' \in [Requests -> Requests \cup {None}]
      /\ \A q \in Requests \ {r} : at'[q] = at[q] /\ stat'[q] = stat[q]
  BY <1>1, <1>2, <1>4 DEF Flat, Places
<1>8. QED
  BY <1>1, <1>2, <1>3, <1>5, <1>6, <1>7, RecordStep DEF Late, Flat

LEMMA LoadMissKeeps ==
    ASSUME IInv, NEW r \in Requests, LoadMiss(r)
    PROVE  IInv'
<1>1. /\ at[r] = "load" /\ at' = [at EXCEPT ![r] = "store"] /\ Key(r)[2] # ""
      /\ UNCHANGED <<ctx, buf, target, stack, panics, scope, stat, pools, metrics, did>>
  BY DEF LoadMiss, Goto
<1>2. Flat /\ Figures
  BY DEF IInv
<1>3. Figures'
  BY <1>1, <1>2 DEF Figures, metrics
<1>4. at'[r] = "store"
  BY <1>1, <1>2 DEF Flat
<1>5. Filed(r)'
  <2>1. Key(r)' = Key(r)
    BY <1>1 DEF Key, Mine, pools
  <2>2. QED
    BY <1>1, <2>1 DEF Filed
<1>6. at' \in [Requests -> Places] /\ \A q \in Requests \ {r} : at'[q] = at[q]
  BY <1>1, <1>2 DEF Flat, Places
<1>7. QED
  BY <1>1, <1>2, <1>3, <1>4, <1>5, <1>6, RecordStep DEF Late, Flat

LEMMA LoadOrStoreKeeps ==
    ASSUME IInv, NEW r \in Requests, LoadOrStore(r)
    PROVE  IInv'
<1>1. /\ at[r] = "store" /\ at' = [at EXCEPT ![r] = "add"]
      /\ table' = IF Key(r) \in DOMAIN table THEN table
                  ELSE [k \in DOMAIN table \cup {Key(r)} |->
                          IF k = Key(r) THEN r ELSE table[k]]
      /\ stat' = [stat EXCEPT ![r] = table'[Key(r)]]
      /\ UNCHANGED <<ctx, buf, target, stack, panics, scope, pools, m, counted, did>>
  BY DEF LoadOrStore, Goto
<1>2. Flat /\ Figures /\ About(r)
  BY DEF IInv
<1>3. Key(r)[2] # ""
  BY <1>1, <1>2 DEF About, Filed
<1>4. Key(r) \in Scopes \X (Names \ {""})
  <2>1. Key(r) \in Scopes \X Names
    BY <1>1, KeyIsName DEF Late
  <2>2. QED
    BY <1>3, <2>1
<1>5. /\ DOMAIN table' \subseteq Scopes \X (Names \ {""}) /\ Key(r) \in DOMAIN table'
      /\ \A k \in DOMAIN table' : table'[k] \in Requests
  BY <1>1, <1>2, <1>4 DEF Figures
<1>6. Figures'
  BY <1>1, <1>2, <1>5 DEF Figures
<1>7. table'[Key(r)] \in Requests /\ table'[Key(r)] # None
  BY <1>5, NoneAssumption
<1>8. at'[r] = "add" /\ stat'[r] # None
  BY <1>1, <1>2, <1>7 DEF Flat
<1>9. Filed(r)'
  <2>1. Key(r)' = Key(r)
    BY <1>1 DEF Key, Mine, pools
  <2>2. QED
    BY <1>3, <2>1 DEF Filed
<1>10. /\ at' \in [Requests -> Places] /\ stat' \in [Requests -> Requests \cup {None}]
       /\ \A q \in Requests \ {r} : at'[q] = at[q] /\ stat'[q] = stat[q]
  BY <1>1, <1>2, <1>7 DEF Flat, Places
<1>11. QED
  BY <1>1, <1>2, <1>6, <1>8, <1>9, <1>10, RecordStep DEF Late, Flat

LEMMA AddKeeps ==
    ASSUME IInv, NEW r \in Requests, Add(r)
    PROVE  IInv'
<1> DEFINE old == counted[scope[r]][stat[r]]
           new == [requests |-> old.requests + 1,
                   errors |-> IF Class(r) = 5 THEN old.errors + 1 ELSE old.errors]
<1>1. /\ at[r] = "add"
      /\ at' = [at EXCEPT ![r] = IF scope[r] = "route" THEN "load" ELSE "recorded"]
      /\ scope' = [scope EXCEPT ![r] = "group"]
      /\ counted' = [counted EXCEPT ![scope[r]] = [counted[scope[r]] EXCEPT ![stat[r]] = new]]
      /\ UNCHANGED <<ctx, buf, target, stack, panics, stat, pools, m, table, did>>
  BY DEF Add, Advance, Goto
<1>2. Flat /\ Figures /\ Held(r)
  BY DEF IInv, About
<1>3. scope[r] \in Scopes /\ stat[r] \in Requests
  BY <1>1, <1>2 DEF Flat, Held
<1>4. old \in [requests : Nat, errors : Nat]
  BY <1>2, <1>3 DEF Figures
<1> HIDE DEF old
<1>5. new \in [requests : Nat, errors : Nat]
  BY <1>4
<1> HIDE DEF new
<1>6. counted' \in [Scopes -> [Requests -> [requests : Nat, errors : Nat]]]
  BY <1>1, <1>2, <1>3, <1>5 DEF Figures
<1>7. Figures'
  BY <1>1, <1>2, <1>6 DEF Figures
<1>8. at'[r] \in {"load", "recorded"} /\ Filed(r)'
  BY <1>1, <1>2 DEF Flat, Filed
<1>9. /\ at' \in [Requests -> Places] /\ scope' \in [Requests -> Scopes]
      /\ \A q \in Requests \ {r} : at'[q] = at[q] /\ scope'[q] = scope[q]
  BY <1>1, <1>2 DEF Flat, Places, Scopes
<1>10. QED
  BY <1>1, <1>2, <1>7, <1>8, <1>9, RecordStep DEF Late, Flat

-----------------------------------------------------------------------------
(* The invariant, and what follows from it.                                *)

LEMMA InitEstablishes == Init => IInv
<1> SUFFICES ASSUME Init PROVE IInv
  OBVIOUS
<1>1. <<>> \in Seq(Nat) /\ 0 \in Nat /\ 0 \in 0 .. 5 /\ 0 \in Int
  OBVIOUS
<1>2. Reset(None) \in Context
  BY ResetIsContext
<1>3. [started |-> <<>>, aborted |-> 0, status |-> 0] \in Did
  BY <1>1 DEF Did
<1>4. Flat
  BY <1>1, <1>2, <1>3 DEF Init, Flat, Places, Scopes
<1>5. Figures
  <2>1. m \in Metrics
    BY <1>1 DEF Init, Metrics
  <2>2. counted \in [Scopes -> [Requests -> [requests : Nat, errors : Nat]]]
    BY <1>1 DEF Init
  <2>3. DOMAIN table = {}
    BY DEF Init
  <2>4. QED
    BY <2>1, <2>2, <2>3 DEF Figures
<1>6. Apart
  BY DEF Init, Apart
<1>7. ASSUME NEW r \in Requests PROVE About(r)
  <2>1. /\ at[r] = "away" /\ ctx[r] = None /\ buf[r] = None /\ target[r] = None
        /\ stack[r] = <<>> /\ did[r].started = <<>> /\ did[r].aborted = 0
    BY DEF Init
  <2>2. Held(r)
    BY <2>1 DEF Held, Holds, Routed, Untargeted
  <2>3. Fresh(r) /\ Labelled(r) /\ Filed(r)
    BY <2>1 DEF Fresh, Labelled, Filed, Early, Running
  <2>4. Counting(r)
    BY <2>1 DEF Counting
  <2>5. Ordered(r)
    BY <2>1, <2>4 DEF Ordered, Running
  <2>6. QED
    BY <2>2, <2>3, <2>5 DEF About
<1>8. QED
  BY <1>4, <1>5, <1>6, <1>7 DEF IInv

LEMMA StepKeeps ==
    ASSUME IInv, NEW r \in Requests, Step(r)
    PROVE  IInv'
<1>1. CASE Acquire(r)
  BY <1>1, AcquireKeeps
<1>2. CASE CountIn(r)
  BY <1>2, CountInKeeps
<1>3. CASE Match(r)
  BY <1>3, MatchKeeps
<1>4. CASE Dispatch(r)
  BY <1>4, DispatchKeeps
<1>5. CASE AnswerDirectly(r)
  BY <1>5, AnswerDirectlyKeeps
<1>6. CASE Chain(r)
  <2>1. CASE CallFirst(r)
    BY <2>1, CallFirstKeeps
  <2>2. CASE Call(r)
    BY <2>2, CallKeeps
  <2>3. CASE LeaveLoop(r)
    BY <2>3, LeaveLoopKeeps
  <2>4. CASE Next_(r)
    BY <2>4, NextKeeps
  <2>5. CASE Abort(r)
    BY <2>5, AbortKeeps
  <2>6. CASE Return(r)
    BY <2>6, ReturnKeeps
  <2>7. CASE PanicRecovered(r)
    BY <2>7, PanicRecoveredKeeps
  <2>8. CASE Panic(r)
    BY <2>8, PanicKeeps
  <2>9. CASE \E s \in Statuses : Respond(r, s)
    BY <2>9, RespondKeeps
  <2>10. QED
    BY <1>6, <2>1, <2>2, <2>3, <2>4, <2>5, <2>6, <2>7, <2>8, <2>9 DEF Chain
<1>7. CASE PutBuffer(r)
  BY <1>7, PutBufferKeeps
<1>8. CASE CountOut(r)
  BY <1>8, CountOutKeeps
<1>9. CASE Unnamed(r)
  BY <1>9, UnnamedKeeps
<1>10. CASE LoadHit(r)
  BY <1>10, LoadHitKeeps
<1>11. CASE LoadMiss(r)
  BY <1>11, LoadMissKeeps
<1>12. CASE LoadOrStore(r)
  BY <1>12, LoadOrStoreKeeps
<1>13. CASE Add(r)
  BY <1>13, AddKeeps
<1>14. CASE Release(r)
  BY <1>14, ReleaseKeeps
<1>15. QED
  BY <1>1, <1>2, <1>3, <1>4, <1>5, <1>6, <1>7, <1>8, <1>9, <1>10, <1>11, <1>12, <1>13, <1>14
     DEF Step

LEMMA StutterKeeps == IInv /\ UNCHANGED vars => IInv'
<1> SUFFICES ASSUME IInv, UNCHANGED vars PROVE IInv'
  OBVIOUS
<1>1. Flat' /\ Figures' /\ Apart'
  BY DEF IInv, Flat, Figures, Apart, vars, local, pools, metrics
<1>2. ASSUME NEW r \in Requests PROVE About(r)'
  <2>1. About(r)
    BY DEF IInv
  <2>2. Held(r)' /\ Fresh(r)' /\ Labelled(r)'
    BY <2>1 DEF About, Held, Fresh, Labelled, Mine, vars, local, pools
  <2>3. Ordered(r)' /\ Filed(r)'
    BY <2>1 DEF About, Ordered, Counting, Reached, Filed, Key, Mine, vars, local, pools
  <2>4. QED
    BY <2>2, <2>3 DEF About
<1>3. QED
  BY <1>1, <1>2 DEF IInv

LEMMA Invariant == Spec => []IInv
<1>1. IInv /\ [Next]_vars => IInv'
  <2> SUFFICES ASSUME IInv, [Next]_vars PROVE IInv'
    OBVIOUS
  <2>1. CASE Next
    BY <2>1, StepKeeps DEF Next
  <2>2. CASE UNCHANGED vars
    BY <2>2, StutterKeeps
  <2>3. QED
    BY <2>1, <2>2
<1>2. QED
  BY <1>1, InitEstablishes, PTL DEF Spec

\* Contexts, buffers and counters are what their names say, for any number of
\* concurrent requests: whoever is between Acquire and Release has a Context,
\* whoever is in the router a buffer.
THEOREM TypeCorrect == Spec => []TypeOK
<1>1. IInv => TypeOK
  <2> SUFFICES ASSUME IInv PROVE TypeOK
    OBVIOUS
  <2>1. Flat /\ Figures /\ \A r \in Requests : Held(r)
    BY DEF IInv, About
  <2>2. \A r \in Requests :
          /\ ctx[r] \in IF at[r] \in Holds THEN Contexts ELSE {None}
          /\ buf[r] \in IF at[r] \in Routed THEN Buffers ELSE {None}
          /\ target[r] \in IF at[r] \in {"away", "acquired", "counted"} THEN {None}
                            ELSE Targets
          /\ at[r] = "handler" => stack[r] # <<>>
          /\ at[r] = "add" => stat[r] # None
    BY <2>1 DEF Held, Untargeted
  <2>3. QED
    BY <2>1, <2>2 DEF TypeOK, Flat, Figures, Did
<1>2. QED
  BY <1>1, Invariant, PTL

\* Two requests never meet in a Context or in a buffer of parameters, and the
\* handlers of each find their own request, chain, route and parameters
\* (Acquire, Release, ServeHTTP, wrapRequestHandler).
THEOREM ScopesStayApart == Spec => []ScopesAreApart
<1>1. IInv => ScopesAreApart
  <2> SUFFICES ASSUME IInv PROVE ScopesAreApart
    OBVIOUS
  <2>1. Apart
    BY DEF IInv
  <2>2. ASSUME NEW r \in Requests
        PROVE  /\ at[r] \in {"acquired", "counted", "matched"} => Mine(r) = Reset(r)
               /\ at[r] \in {"loop", "handler"} =>
                     /\ Mine(r).request = r /\ Mine(r).handlers = target[r]
                     /\ Mine(r).params = IF target[r].named THEN buf[r] ELSE None
                     /\ content[buf[r]] = r
               /\ at[r] = "handler" => Mine(r).route = target[r].path
                                       /\ Mine(r).group = target[r].group
    <3>1. Held(r) /\ Fresh(r) /\ Labelled(r)
      BY DEF IInv, About
    <3>2. at[r] \in {"acquired", "counted", "matched"} => Mine(r) = Reset(r)
      BY <3>1 DEF Fresh, Early
    <3>3. at[r] \in Running =>
             /\ Mine(r).request = r /\ Mine(r).handlers = target[r]
             /\ Mine(r).params = IF target[r].named THEN buf[r] ELSE None
             /\ content[buf[r]] = r
      BY <3>1 DEF Fresh, Labelled
    <3>4. ASSUME at[r] = "handler"
          PROVE  Mine(r).route = target[r].path /\ Mine(r).group = target[r].group
      <4>1. at[r] \in Running /\ stack[r] # <<>>
        BY <3>1, <3>4 DEF Held, Running
      <4>2. CASE target[r].kind = "route"
        BY <3>1, <4>1, <4>2 DEF Labelled
      <4>3. CASE target[r].kind # "route"
        <5>1. Mine(r).route = "" /\ Mine(r).group = ""
          BY <3>1, <4>1, <4>3 DEF Labelled
        <5>2. target[r] \in Targets
          BY <4>1, InChain
        <5>3. target[r].path = "" /\ target[r].group = ""
          BY <4>3, <5>2, TargetFields
        <5>4. QED
          BY <5>1, <5>3
      <4>4. QED
        BY <4>2, <4>3
    <3>5. QED
      BY <3>2, <3>3, <3>4 DEF Running
  <2>3. QED
    BY <2>1, <2>2 DEF ScopesAreApart, Apart
<1>2. QED
  BY <1>1, Invariant, PTL

\* The handlers of a chain of any length start in order, each once, and none
\* after an Abort, whatever they do with Next and with one another's panics
\* (Run, Next, Abort).
THEOREM ChainRunsInOrder == Spec => []ChainInOrder
<1>1. IInv => ChainInOrder
  BY DEF IInv, About, Ordered, Counting, ChainInOrder
<1>2. QED
  BY <1>1, Invariant, PTL

-----------------------------------------------------------------------------
(* The counters: who has made them, and whom they have counted.            *)

Leaving == {"ran", "returned", "load", "store", "add", "recorded"}

\* The Context says of the request what its handlers did and what it found, as
\* long as it is held.
Agrees(r) ==
    /\ at[r] = "away" => did[r].status = 0
    /\ at[r] \in Holds => Mine(r).status = did[r].status
    /\ at[r] = "loop" /\ Mine(r).aborted /\ target[r].kind = "route" => Mine(r).index >= 1
    /\ at[r] \in Leaving => Mine(r).route = target[r].path /\ Mine(r).group = target[r].group
    /\ at[r] = "add" => Key(r) \in DOMAIN table /\ stat[r] = table[Key(r)]

Answered(k) == {r \in Out : Outcome(r) = k}
Normal == {r \in Out : ~panics[r]}
Known(k) == {r \in Out \ Direct : Outcome(r) = k}
Here(s, n) == {r \in Recorded(s) : NameIn(s, r) = n}
Failed(s, n) == {r \in Here(s, n) : Outcome(r) = 5}

Totals ==
    /\ m.requests = Cardinality(Counted)
    /\ m.inFlight = Cardinality(Counted \ Out)
    /\ m.samples = Cardinality(Out)
    /\ \A k \in 1 .. 5 : m.class[k] = Cardinality(Answered(k))
    /\ m.class[1] + m.class[2] + m.class[3] + m.class[4] + m.class[5] = m.samples
    /\ m.errors = m.class[5]
    /\ m.protocols = Cardinality(Normal)

\* What has been recorded has been filed.
Entered == \A s \in Scopes : \A r \in Recorded(s) :
              NameIn(s, r) # "" => <<s, NameIn(s, r)>> \in DOMAIN table

\* Counters are made by a request under the name it has itself.
Makes(r, s) == r \in Recorded(s) \/ (at[r] = "add" /\ scope[r] = s)
Owned == \A k \in DOMAIN table :
            LET r == table[k]
            IN  r \in Out /\ Makes(r, k[1]) /\ NameIn(k[1], r) = k[2]

\* What is filed nowhere has not counted anything.
Unused == \A s \in Scopes, r \in Requests :
             \/ counted[s][r].requests = 0 /\ counted[s][r].errors = 0
             \/ \E k \in DOMAIN table : k[1] = s /\ table[k] = r

Exact == \A k \in DOMAIN table :
            /\ counted[k[1]][table[k]].requests = Cardinality(Here(k[1], k[2]))
            /\ counted[k[1]][table[k]].errors = Cardinality(Failed(k[1], k[2]))

Filing == Entered /\ Owned /\ Unused /\ Exact

CInv == Totals /\ Filing /\ \A r \in Requests : Agrees(r)

LEMMA StepIsOwn ==
    ASSUME IInv, NEW r \in Requests, Step(r)
    PROVE  Others(r)
<1>1. Flat
  BY DEF IInv
<1>2. CASE Acquire(r)
  BY <1>1, <1>2 DEF Flat, Others, Acquire, Goto
<1>3. CASE CountIn(r)
  BY <1>1, <1>3 DEF Flat, Others, CountIn, Goto, pools
<1>4. CASE Match(r)
  BY <1>1, <1>4 DEF Flat, Others, Match, Goto
<1>5. CASE Dispatch(r)
  BY <1>1, <1>5 DEF Flat, Others, Dispatch, Goto
<1>6. CASE AnswerDirectly(r)
  BY <1>1, <1>6 DEF Flat, Others, AnswerDirectly, Goto, pools
<1>7. CASE Chain(r)
  <2>1. CASE CallFirst(r)
    BY <1>1, <2>1 DEF Flat, Others, CallFirst, Starts
  <2>2. CASE Call(r)
    BY <1>1, <2>2 DEF Flat, Others, Call, Starts, Goto, pools
  <2>3. CASE LeaveLoop(r)
    BY <1>1, <2>3 DEF Flat, Others, LeaveLoop, Goto, pools
  <2>4. CASE Next_(r)
    BY <1>1, <2>4 DEF Flat, Others, Next_, Goto
  <2>5. CASE Abort(r)
    BY <1>1, <2>5 DEF Flat, Others, Abort, local
  <2>6. CASE Return(r)
    BY <1>1, <2>6 DEF Flat, Others, Return, Goto
  <2>7. CASE PanicRecovered(r)
    BY <1>1, <2>7 DEF Flat, Others, PanicRecovered, pools
  <2>8. CASE Panic(r)
    BY <1>1, <2>8 DEF Flat, Others, Panic, Goto, pools
  <2>9. CASE \E s \in Statuses : Respond(r, s)
    BY <1>1, <2>9 DEF Flat, Others, Respond, local
  <2>10. QED
    BY <1>7, <2>1, <2>2, <2>3, <2>4, <2>5, <2>6, <2>7, <2>8, <2>9 DEF Chain
<1>8. CASE PutBuffer(r)
  BY <1>1, <1>8 DEF Flat, Others, PutBuffer, Goto
<1>9. CASE CountOut(r)
  BY <1>1, <1>9 DEF Flat, Others, CountOut, Goto, pools
<1>10. CASE Unnamed(r)
  BY <1>1, <1>10 DEF Flat, Others, Unnamed, Advance, Goto, pools
<1>11. CASE LoadHit(r)
  BY <1>1, <1>11 DEF Flat, Others, LoadHit, Goto, pools
<1>12. CASE LoadMiss(r)
  BY <1>1, <1>12 DEF Flat, Others, LoadMiss, Goto, pools
<1>13. CASE LoadOrStore(r)
  BY <1>1, <1>13 DEF Flat, Others, LoadOrStore, Goto, pools
<1>14. CASE Add(r)
  BY <1>1, <1>14 DEF Flat, Others, Add, Advance, Goto, pools
<1>15. CASE Release(r)
  BY <1>1, <1>15 DEF Flat, Others, Release, Goto
<1>16. QED
  BY <1>2, <1>3, <1>4, <1>5, <1>6, <1>7, <1>8, <1>9, <1>10, <1>11, <1>12, <1>13, <1>14, <1>15
     DEF Step

\* Counters once filed stay where they are.
LEMMA TableGrows ==
    ASSUME NEW r \in Requests, Step(r)
    PROVE  \A k \in DOMAIN table : k \in DOMAIN table' /\ table'[k] = table[k]
<1>1. CASE LoadOrStore(r)
  BY <1>1 DEF LoadOrStore
<1>2. CASE ~LoadOrStore(r)
  <2>1. UNCHANGED table
    BY <1>2 DEF Step, Acquire, CountIn, Match, Dispatch, AnswerDirectly, Chain, CallFirst, Call,
       LeaveLoop, Next_, Abort, Return, PanicRecovered, Panic, Respond, PutBuffer, CountOut,
       Unnamed, LoadHit, LoadMiss, Add, Release, metrics
  <2>2. QED
    BY <2>1
<1>3. QED
  BY <1>1, <1>2

LEMMA OthersAgree ==
    ASSUME IInv, IInv', NEW r \in Requests, Step(r), NEW q \in Requests, q # r, Agrees(q)
    PROVE  Agrees(q)'
<1>1. /\ at'[q] = at[q] /\ ctx'[q] = ctx[q] /\ target'[q] = target[q]
      /\ scope'[q] = scope[q] /\ stat'[q] = stat[q] /\ did'[q] = did[q]
  BY StepIsOwn DEF Others
<1>2. ASSUME at[q] \in Holds PROVE Mine(q)' = Mine(q)
  <2>1. ctx[q] \in Contexts
    BY <1>2, Own
  <2>2. ctx[q] # ctx[r] /\ ctx'[q] # ctx'[r]
    BY <1>1, <2>1, NoneAssumption DEF IInv, Apart
  <2>3. context'[ctx[q]] = context[ctx[q]]
    BY <1>1, <2>1, <2>2, StepIsOwn DEF Others
  <2>4. QED
    BY <1>1, <2>3 DEF Mine
<1>3. at[q] = "add" => Key(q)' = Key(q)
  BY <1>1, <1>2 DEF Key, Holds, Places
<1>4. at[q] = "add" => (Key(q) \in DOMAIN table /\ stat[q] = table[Key(q)])'
  BY <1>1, <1>3, TableGrows DEF Agrees
<1>5. at[q] \in Leaving \cup {"loop"} => at[q] \in Holds
  BY DEF Leaving, Holds, Places
<1>6. QED
  BY <1>1, <1>2, <1>4, <1>5 DEF Agrees

\* What each action of a request leaves in its Context, if it still has one.
LEMMA StatusKept ==
    ASSUME IInv, IInv', NEW r \in Requests, Step(r), Agrees(r)
    PROVE  /\ at'[r] # "away"
           /\ at'[r] \in Holds => Mine(r)'.status = did'[r].status
<1>1. Flat /\ Flat' /\ Held(r)
  BY DEF IInv, About
<1> DEFINE Goal == at'[r] # "away" /\ (at'[r] \in Holds => Mine(r)'.status = did'[r].status)
<1>2. ASSUME at[r] \in Holds, at'[r] # "away", Mine(r)'.status = Mine(r).status,
             did'[r].status = did[r].status
      PROVE  Goal
  BY <1>2 DEF Agrees
<1>3. ASSUME at[r] \in Holds, at'[r] # "away", UNCHANGED <<context, did>>, ctx'[r] = ctx[r]
      PROVE  Goal
  BY <1>3, <1>2 DEF Mine
<1>4. ASSUME at[r] \in Holds
      PROVE  /\ ctx[r] \in Contexts /\ Mine(r) \in Context
             /\ context \in [Contexts -> Context]
  BY <1>1, <1>4, Own DEF Flat
<1>5. {"acquired", "counted", "matched", "loop", "handler", "ran", "returned", "load", "store",
       "add", "recorded"} \subseteq Holds
  BY DEF Holds, Places
<1>6. CASE Acquire(r)
  <2>1. PICK c \in Contexts : ctx' = [ctx EXCEPT ![r] = c] /\ context' = [context EXCEPT ![c] = Reset(r)]
    BY <1>6 DEF Acquire
  <2>2. at[r] = "away" /\ at' = [at EXCEPT ![r] = "acquired"] /\ did' = did
    BY <1>6 DEF Acquire, Goto
  <2>3. Mine(r)' = Reset(r)
    BY <1>1, <2>1 DEF Mine, Flat
  <2>4. Reset(r).status = 0
    BY DEF Reset
  <2>5. QED
    BY <1>1, <2>2, <2>3, <2>4 DEF Agrees, Flat
<1>7. CASE CountIn(r) \/ AnswerDirectly(r) \/ LeaveLoop(r) \/ PanicRecovered(r) \/ Panic(r)
           \/ Call(r) \/ CountOut(r) \/ LoadHit(r) \/ LoadMiss(r) \/ LoadOrStore(r)
           \/ Unnamed(r) \/ Add(r) \/ PutBuffer(r) \/ Match(r)
  <2>1. at[r] \in Holds /\ at'[r] # "away" /\ UNCHANGED <<context, ctx>>
    BY <1>1, <1>5, <1>7 DEF Flat, Goto, CountIn, AnswerDirectly, LeaveLoop, PanicRecovered,
       Panic, Applied, Call, CountOut, LoadHit, LoadMiss, LoadOrStore, Unnamed, Add, Advance,
       PutBuffer, Match, pools
  <2>2. did'[r].status = did[r].status
    <3>1. CASE Call(r)
      <4>1. did' = [did EXCEPT ![r].started = Append(@, Mine(r).index)]
        BY <3>1 DEF Call, Starts
      <4>2. did[r] \in Did
        BY <1>1 DEF Flat
      <4>3. QED
        BY <1>1, <4>1, <4>2 DEF Flat, Did
    <3>2. CASE ~Call(r)
      BY <1>7, <3>2 DEF CountIn, AnswerDirectly, LeaveLoop, PanicRecovered, Panic, CountOut,
         LoadHit, LoadMiss, LoadOrStore, Unnamed, Add, PutBuffer, Match
    <3>3. QED
      BY <3>1, <3>2
  <2>3. Mine(r)' = Mine(r)
    BY <2>1 DEF Mine
  <2>4. QED
    BY <1>2, <2>1, <2>2, <2>3
<1>8. CASE Dispatch(r)
  <2>1. /\ at[r] = "matched" /\ at' = [at EXCEPT ![r] = "loop"] /\ UNCHANGED <<ctx, did>>
        /\ context' = [context EXCEPT ![ctx[r]] = Given(Mine(r), r,
              IF target[r].named THEN buf[r] ELSE Mine(r).params, target[r])]
    BY <1>8 DEF Dispatch, Goto, Given
  <2>2. at[r] \in Holds
    BY <1>5, <2>1
  <2>3. \A p, t : Given(Mine(r), r, p, t).status = Mine(r).status
    BY <1>4, <2>2 DEF Given, Context
  <2>4. Mine(r)' = Given(Mine(r), r, IF target[r].named THEN buf[r] ELSE Mine(r).params, target[r])
    BY <1>1, <1>4, <2>1, <2>2, Zenon DEF Mine, Flat
  <2>5. at'[r] # "away"
    BY <1>1, <2>1 DEF Flat
  <2>6. QED
    BY <1>2, <2>1, <2>2, <2>3, <2>4, <2>5
<1>9. CASE CallFirst(r)
  <2>1. /\ at[r] = "loop" /\ UNCHANGED <<at, ctx>>
        /\ context' = [context EXCEPT ![ctx[r]] = WithLabels(Mine(r), Mine(r).handlers.path,
              Mine(r).handlers.group, Mine(r).index + 1)]
        /\ did' = [did EXCEPT ![r].started = Append(@, Mine(r).index)]
    BY <1>9 DEF CallFirst, WithLabels, Starts
  <2>2. at[r] \in Holds /\ did[r] \in Did
    BY <1>1, <1>5, <2>1 DEF Flat
  <2>3. \A p, g, i : WithLabels(Mine(r), p, g, i).status = Mine(r).status
    BY <1>4, <2>2 DEF WithLabels, Context
  <2>4. Mine(r)' = WithLabels(Mine(r), Mine(r).handlers.path, Mine(r).handlers.group, Mine(r).index + 1)
    BY <1>1, <1>4, <2>1, <2>2, Zenon DEF Mine, Flat
  <2>5. did'[r].status = did[r].status
    BY <1>1, <2>1, <2>2 DEF Flat, Did
  <2>6. QED
    BY <1>2, <2>1, <2>2, <2>3, <2>4, <2>5
<1>10. CASE Next_(r) \/ Return(r)
  <2>1. /\ at[r] = "handler" /\ at' = [at EXCEPT ![r] = "loop"] /\ UNCHANGED <<ctx, did>>
        /\ context' = [context EXCEPT ![ctx[r]].index = @ + 1]
    BY <1>10 DEF Next_, Applied, Return, Goto
  <2>2. at[r] \in Holds
    BY <1>5, <2>1
  <2>3. context'[ctx[r]].status = context[ctx[r]].status
    BY <1>4, <2>1, <2>2 DEF Context
  <2>4. at'[r] # "away"
    BY <1>1, <2>1 DEF Flat
  <2>5. QED
    BY <1>2, <2>1, <2>2, <2>3, <2>4 DEF Mine
<1>11. CASE Abort(r)
  <2>1. /\ at[r] = "handler" /\ UNCHANGED local
        /\ context' = [context EXCEPT ![ctx[r]].aborted = TRUE]
        /\ did' = [did EXCEPT ![r].aborted = Len(did[r].started)]
    BY <1>11 DEF Abort, Applied
  <2>2. at[r] \in Holds /\ did[r] \in Did
    BY <1>1, <1>5, <2>1 DEF Flat
  <2>3. context'[ctx[r]].status = context[ctx[r]].status
    BY <1>4, <2>1, <2>2 DEF Context
  <2>4. did'[r].status = did[r].status
    BY <1>1, <2>1, <2>2 DEF Flat, Did
  <2>5. at'[r] # "away" /\ ctx'[r] = ctx[r]
    BY <2>1 DEF local
  <2>6. QED
    BY <1>2, <2>2, <2>3, <2>4, <2>5 DEF Mine
<1>12. CASE \E s \in Statuses : Respond(r, s)
  <2>1. PICK s \in Statuses :
           /\ at[r] = "handler" /\ UNCHANGED local
           /\ context' = [context EXCEPT ![ctx[r]].status = s]
           /\ did' = [did EXCEPT ![r].status = s]
    BY <1>12 DEF Respond, Applied
  <2>2. at[r] \in Holds /\ did[r] \in Did
    BY <1>1, <1>5, <2>1 DEF Flat
  <2>3. context'[ctx[r]].status = s
    BY <1>4, <2>1, <2>2 DEF Context
  <2>4. did'[r].status = s
    BY <1>1, <2>1, <2>2 DEF Flat, Did
  <2>5. at'[r] # "away" /\ ctx'[r] = ctx[r]
    BY <2>1 DEF local
  <2>6. QED
    BY <2>3, <2>4, <2>5 DEF Mine
<1>13. CASE Release(r)
  BY <1>1, <1>13 DEF Release, Goto, Flat, Holds, Places
<1> HIDE DEF Goal
<1>14. QED
  BY <1>6, <1>7, <1>8, <1>9, <1>10, <1>11, <1>12, <1>13 DEF Step, Chain

\* What the loop needs to know of an aborted chain: a route is named by then.
LEMMA LoopAgrees ==
    ASSUME IInv, NEW r \in Requests, Step(r), at'[r] = "loop", Mine(r)'.aborted,
           target'[r].kind = "route"
    PROVE  Mine(r)'.index >= 1
<1>1. Flat /\ Labelled(r)
  BY DEF IInv, About
<1>2. ASSUME at[r] \in Running
      PROVE  ctx[r] \in Contexts /\ Mine(r) \in Context /\ Mine(r).index \in Nat
  BY <1>1, <1>2, InChain
<1>3. CASE Dispatch(r)
  <2>1. /\ at[r] = "matched" /\ UNCHANGED ctx
        /\ context' = [context EXCEPT ![ctx[r]] = Given(Mine(r), r,
              IF target[r].named THEN buf[r] ELSE Mine(r).params, target[r])]
    BY <1>3 DEF Dispatch, Given
  <2>2. ctx[r] \in Contexts /\ Mine(r) \in Context /\ Mine(r) = Reset(r)
    BY <2>1, Own DEF Holds, Places, IInv, About, Fresh, Early
  <2>3. \A p, t : Given(Mine(r), r, p, t).aborted = Mine(r).aborted
    BY <2>2 DEF Given, Context
  <2>4. Mine(r)' = Given(Mine(r), r, IF target[r].named THEN buf[r] ELSE Mine(r).params, target[r])
    BY <1>1, <2>1, <2>2, Zenon DEF Mine, Flat
  <2>5. Mine(r).aborted = FALSE
    <3>1. Reset(r).aborted = FALSE
      BY DEF Reset
    <3>2. QED
      BY <2>2, <3>1
  <2>6. Mine(r)'.aborted = FALSE
    BY <2>3, <2>4, <2>5
  <2>7. QED
    BY <2>6
<1>4. CASE CallFirst(r)
  <2>1. /\ at[r] = "loop" /\ UNCHANGED ctx
        /\ context' = [context EXCEPT ![ctx[r]] = WithLabels(Mine(r), Mine(r).handlers.path,
              Mine(r).handlers.group, Mine(r).index + 1)]
    BY <1>4 DEF CallFirst, WithLabels
  <2>2. ctx[r] \in Contexts /\ Mine(r) \in Context /\ Mine(r).index \in Nat
    BY <1>2, <2>1 DEF Running
  <2>3. \A p, g, i : WithLabels(Mine(r), p, g, i).index = i
    BY <2>2 DEF WithLabels, Context
  <2>4. Mine(r)' = WithLabels(Mine(r), Mine(r).handlers.path, Mine(r).handlers.group, Mine(r).index + 1)
    BY <1>1, <2>1, <2>2, Zenon DEF Mine, Flat
  <2>5. Mine(r)'.index = Mine(r).index + 1
    BY <2>3, <2>4
  <2>6. QED
    BY <2>2, <2>5
<1>5. CASE Next_(r) \/ Return(r)
  <2>1. /\ at[r] = "handler" /\ UNCHANGED ctx
        /\ context' = [context EXCEPT ![ctx[r]].index = @ + 1]
    BY <1>5 DEF Next_, Applied, Return
  <2>2. ctx[r] \in Contexts /\ Mine(r) \in Context /\ Mine(r).index \in Nat
    BY <1>2, <2>1 DEF Running
  <2>3. Mine(r)'.index = Mine(r).index + 1
    BY <1>1, <2>1, <2>2 DEF Mine, Flat, Context
  <2>4. QED
    BY <2>2, <2>3
<1>6. CASE Acquire(r) \/ CountIn(r) \/ Match(r) \/ AnswerDirectly(r) \/ Call(r) \/ LeaveLoop(r)
           \/ Panic(r) \/ PutBuffer(r) \/ CountOut(r) \/ Unnamed(r) \/ LoadHit(r)
           \/ LoadMiss(r) \/ LoadOrStore(r) \/ Add(r) \/ Release(r)
  BY <1>1, <1>6 DEF Flat, Goto, Acquire, CountIn, Match, AnswerDirectly, LeaveLoop, Panic,
     Call, PutBuffer, CountOut, LoadHit, LoadMiss, LoadOrStore, Unnamed, Add, Advance, Release
<1>7. CASE Abort(r) \/ PanicRecovered(r) \/ \E s \in Statuses : Respond(r, s)
  BY <1>7 DEF Abort, PanicRecovered, Respond, Applied, local
<1>8. QED
  BY <1>3, <1>4, <1>5, <1>6, <1>7 DEF Step, Chain

\* A request leaves the chain with the names of what it has found.
LEMMA NamesKept ==
    ASSUME IInv, NEW r \in Requests, Step(r), Agrees(r), at'[r] \in Leaving
    PROVE  Mine(r)'.route = target'[r].path /\ Mine(r)'.group = target'[r].group
<1>1. Flat /\ Labelled(r) /\ Fresh(r)
  BY DEF IInv, About
<1>2. UNCHANGED <<context, ctx, target>>
  <2>1. CASE Acquire(r) \/ CountIn(r) \/ Match(r) \/ Dispatch(r) \/ CallFirst(r) \/ Next_(r)
             \/ Return(r) \/ Release(r)
    BY <1>1, <2>1 DEF Flat, Goto, Acquire, CountIn, Match, Dispatch, CallFirst, Next_, Return,
       Release, Leaving
  <2>2. CASE Abort(r) \/ \E s \in Statuses : Respond(r, s)
    BY <1>1, <2>2 DEF Abort, Respond, Applied, local, Leaving
  <2>3. CASE AnswerDirectly(r) \/ Call(r) \/ LeaveLoop(r) \/ PanicRecovered(r)
           \/ Panic(r) \/ PutBuffer(r) \/ CountOut(r) \/ Unnamed(r) \/ LoadHit(r)
           \/ LoadMiss(r) \/ LoadOrStore(r) \/ Add(r)
    BY <2>3 DEF AnswerDirectly, LeaveLoop, Panic, PanicRecovered, Call, PutBuffer, CountOut,
       LoadHit, LoadMiss, LoadOrStore, Unnamed, Add, pools
  <2>4. QED
    BY <2>1, <2>2, <2>3 DEF Step, Chain
<1>3. Mine(r)' = Mine(r) /\ target'[r] = target[r]
  BY <1>2 DEF Mine
<1>4. CASE at[r] \in Leaving
  BY <1>3, <1>4 DEF Agrees
<1>5. CASE at[r] \in Running
  <2>1. target[r] \in Targets /\ target[r].kind # "direct" /\ Size(Mine(r)) = target[r].size
        /\ Mine(r).index \in Nat
    BY <1>1, <1>5, InChain, Own DEF Labelled, Running, Holds, Untargeted, Places
  <2>2. CASE target[r].kind # "route"
    <3>1. Mine(r).route = "" /\ Mine(r).group = ""
      BY <1>1, <1>5, <2>2 DEF Labelled
    <3>2. QED
      BY <1>3, <2>1, <2>2, <3>1, TargetFields
  <2>3. CASE target[r].kind = "route"
    <3>1. Mine(r).index >= 1
      <4>1. CASE at[r] = "handler"
        BY <1>1, <1>5, <2>3, <4>1 DEF Labelled, IInv, About, Held
      <4>2. CASE at[r] = "loop"
        <5>1. LeaveLoop(r)
          <6>1. at'[r] = "ran" \/ at'[r] \in Late
            BY DEF Leaving, Late
          <6>2. QED
            BY <1>1, <4>2, <6>1 DEF Step, Chain, Acquire, CountIn, Match, AnswerDirectly, Panic,
               PutBuffer, CountOut, LoadHit, LoadMiss, LoadOrStore, Unnamed, Add, Release,
               Applied, Abort, Respond, PanicRecovered, Return, Next_, Dispatch, Call, CallFirst,
               Goto, Late, Flat
        <5>2. Mine(r).index >= target[r].size \/ Mine(r).aborted
          BY <2>1, <5>1 DEF LeaveLoop
        <5>3. target[r].size >= 2 /\ target[r].size \in Nat
          BY <2>1, <2>3, TargetFields
        <5>4. Mine(r).aborted => Mine(r).index >= 1
          BY <2>3, <4>2 DEF Agrees
        <5>5. QED
          BY <2>1, <5>2, <5>3, <5>4
      <4>3. QED
        BY <1>5, <4>1, <4>2 DEF Running
    <3>2. QED
      BY <1>1, <1>3, <1>5, <2>3, <3>1 DEF Labelled
  <2>4. QED
    BY <2>2, <2>3
<1>6. CASE at[r] \notin Running \cup Leaving
  <2>1. at[r] = "matched" /\ target[r].kind = "direct"
    <3>1. AnswerDirectly(r)
      BY <1>1, <1>6 DEF Step, Chain, Acquire, CountIn, Match, Panic, LeaveLoop,
               PutBuffer, CountOut, LoadHit, LoadMiss, LoadOrStore, Unnamed, Add, Release,
               Applied, Abort, Respond, PanicRecovered, Return, Next_, Dispatch, Call, CallFirst,
               Goto, Leaving, Running, Flat
    <3>2. QED
      BY <3>1 DEF AnswerDirectly
  <2>2. Mine(r) = Reset(r) /\ target[r] \in Targets
    BY <1>1, <2>1, Own DEF Fresh, Early, Holds, Untargeted, Places
  <2>3. Mine(r).route = "" /\ Mine(r).group = ""
    BY <2>2, ResetFields
  <2>4. target[r].path = "" /\ target[r].group = ""
    BY <2>1, <2>2, TargetFields
  <2>5. QED
    BY <1>3, <2>3, <2>4
<1>7. QED
  BY <1>4, <1>5, <1>6

LEMMA OwnAgrees ==
    ASSUME IInv, IInv', NEW r \in Requests, Step(r), Agrees(r)
    PROVE  Agrees(r)'
<1>1. ASSUME at'[r] = "add" PROVE (Key(r) \in DOMAIN table /\ stat[r] = table[Key(r)])'
  <2>1. Flat
    BY DEF IInv
  <2>2. CASE LoadHit(r)
    <3>1. /\ Key(r) \in DOMAIN table /\ stat' = [stat EXCEPT ![r] = table[Key(r)]]
          /\ UNCHANGED <<ctx, scope, context, table>>
      BY <2>2 DEF LoadHit, pools, metrics
    <3>2. Key(r)' = Key(r)
      BY <3>1 DEF Key, Mine
    <3>3. QED
      BY <2>1, <3>1, <3>2 DEF Flat
  <2>3. CASE LoadOrStore(r)
    <3>1. /\ table' = IF Key(r) \in DOMAIN table THEN table
                      ELSE [k \in DOMAIN table \cup {Key(r)} |->
                              IF k = Key(r) THEN r ELSE table[k]]
          /\ stat' = [stat EXCEPT ![r] = table'[Key(r)]]
          /\ UNCHANGED <<ctx, scope, context>>
      BY <2>3 DEF LoadOrStore, pools
    <3>2. Key(r)' = Key(r)
      BY <3>1 DEF Key, Mine
    <3>3. Key(r) \in DOMAIN table'
      BY <3>1
    <3>4. stat'[r] = table'[Key(r)]
      BY <2>1, <3>1 DEF Flat
    <3>5. QED
      BY <3>2, <3>3, <3>4
  <2>4. CASE ~LoadHit(r) /\ ~LoadOrStore(r)
    BY <1>1, <2>1, <2>4 DEF Step, Chain, Acquire, CountIn, Match, AnswerDirectly, Panic,
               PutBuffer, CountOut, LoadMiss, Unnamed, Add, Release, LeaveLoop, Advance,
               Applied, Abort, Respond, PanicRecovered, Return, Next_, Dispatch, Call, CallFirst,
               Goto, Flat, local
  <2>5. QED
    BY <2>2, <2>3, <2>4
<1>2. QED
  BY <1>1, StatusKept, LoopAgrees, NamesKept DEF Agrees

-----------------------------------------------------------------------------
(* The totals.                                                             *)

LEMMA SizeOfPart ==
    ASSUME NEW S \in SUBSET Requests
    PROVE  /\ Cardinality(S) \in Nat
           /\ \A r \in Requests \ S : Cardinality(S \cup {r}) = Cardinality(S) + 1
           /\ \A r \in S : Cardinality(S \ {r}) = Cardinality(S) - 1
<1>1. IsFiniteSet(S)
  BY RequestsAssumption, FS_Subset
<1>2. QED
  BY <1>1, FS_CardinalityType, FS_AddElement, FS_RemoveElement

\* Those who are answered past their Context are the only ones in doubt.
LEMMA DirectAside ==
    ASSUME NEW k
    PROVE  Cardinality(Answered(k)) \in Cardinality(Known(k)) ..
                                           Cardinality(Known(k)) + Cardinality(Direct)
<1>1. /\ Known(k) \in SUBSET Requests /\ Direct \in SUBSET Requests
      /\ Answered(k) \in SUBSET Requests
      /\ Known(k) \subseteq Answered(k) /\ Answered(k) \subseteq Known(k) \cup Direct
      /\ Known(k) \cap Direct = {}
  BY DEF Known, Direct, Answered, Out
<1>2. IsFiniteSet(Known(k)) /\ IsFiniteSet(Direct) /\ IsFiniteSet(Answered(k))
  BY <1>1, RequestsAssumption, FS_Subset
<1>3. Cardinality(Known(k)) <= Cardinality(Answered(k))
  BY <1>1, <1>2, FS_Subset
<1>4. /\ IsFiniteSet(Known(k) \cup Direct)
      /\ Cardinality(Known(k) \cup Direct) = Cardinality(Known(k)) + Cardinality(Direct)
  <2>1. PICK S, T : S = Known(k) /\ T = Direct
    OBVIOUS
  <2>2. IsFiniteSet(S) /\ IsFiniteSet(T) /\ S \cap T = {}
    BY <1>1, <1>2, <2>1
  <2>3. Cardinality(S \cap T) = 0
    BY <2>2, FS_EmptySet
  <2>4. /\ IsFiniteSet(S \cup T)
        /\ Cardinality(S \cup T) = Cardinality(S) + Cardinality(T) - Cardinality(S \cap T)
    BY <2>2, FS_Union
  <2>5. Cardinality(S) \in Nat /\ Cardinality(T) \in Nat
    BY <2>2, FS_CardinalityType
  <2>6. Cardinality(S \cup T) = Cardinality(S) + Cardinality(T)
    BY <2>3, <2>4, <2>5
  <2>7. QED
    BY <2>1, <2>4, <2>6
<1>5. Cardinality(Answered(k)) <= Cardinality(Known(k) \cup Direct)
  BY <1>1, <1>4, FS_Subset
<1>6. QED
  BY <1>1, <1>3, <1>4, <1>5, SizeOfPart

\* Nobody but the one who makes a step moves from one set to another.
LEMMA OthersCount ==
    ASSUME NEW r \in Requests, Others(r), NEW q \in Requests, q # r
    PROVE  /\ q \in Counted' <=> q \in Counted
           /\ q \in Out' <=> q \in Out
           /\ \A s : q \in Recorded(s)' <=> q \in Recorded(s)
           /\ \A s : NameIn(s, q)' = NameIn(s, q)
           /\ Outcome(q)' = Outcome(q) /\ panics'[q] = panics[q]
BY DEF Others, Counted, Out, Recorded, NameIn, Outcome

LEMMA TotalsFrame ==
    ASSUME Totals, NEW r \in Requests, Others(r), m' = m,
           r \in Counted' <=> r \in Counted, r \in Out' <=> r \in Out,
           r \in Out => Outcome(r)' = Outcome(r) /\ panics'[r] = panics[r]
    PROVE  Totals'
<1>1. \A q \in Requests : q \in Counted' <=> q \in Counted
  BY OthersCount
<1>2. \A q \in Requests : q \in Out' <=> q \in Out
  BY OthersCount
<1>3. Counted' = Counted /\ Out' = Out
  BY <1>1, <1>2 DEF Counted, Out
<1>4. \A q \in Out : Outcome(q)' = Outcome(q) /\ panics'[q] = panics[q]
  BY OthersCount DEF Out
<1>5. Normal' = Normal
  BY <1>3, <1>4 DEF Normal
<1>6. ASSUME NEW k PROVE Answered(k)' = Answered(k)
  BY <1>3, <1>4 DEF Answered
<1>7. QED
  BY <1>3, <1>5, <1>6 DEF Totals

LEMMA CountInTotals ==
    ASSUME IInv, Totals, NEW r \in Requests, CountIn(r)
    PROVE  Totals'
<1>1. /\ at[r] = "acquired" /\ at' = [at EXCEPT ![r] = "counted"]
      /\ m' = [m EXCEPT !.requests = @ + 1, !.inFlight = @ + 1]
      /\ UNCHANGED <<panics, did>>
  BY DEF CountIn, Goto
<1>2. at \in [Requests -> Places] /\ m \in Metrics
  BY DEF IInv, Flat, Figures
<1>3. /\ m'.requests = m.requests + 1 /\ m'.inFlight = m.inFlight + 1
      /\ m'.samples = m.samples /\ m'.class = m.class /\ m'.errors = m.errors
      /\ m'.protocols = m.protocols
  BY <1>1, <1>2 DEF Metrics
<1>4. Out' = Out /\ r \notin Out /\ r \notin Counted
  BY <1>1, <1>2 DEF Out, Counted
<1>5. Counted' = Counted \cup {r}
  BY <1>1, <1>2 DEF Counted
<1>6. (Counted \ Out)' = (Counted \ Out) \cup {r}
  BY <1>4, <1>5
<1>7. Counted \in SUBSET Requests /\ Counted \ Out \in SUBSET Requests
  BY DEF Counted
<1>8. Cardinality(Counted)' = Cardinality(Counted) + 1
  BY <1>4, <1>5, <1>7, SizeOfPart
<1>9. Cardinality(Counted \ Out)' = Cardinality(Counted \ Out) + 1
  BY <1>4, <1>6, <1>7, SizeOfPart
<1>10. Normal' = Normal /\ \A k : Answered(k)' = Answered(k)
  BY <1>1, <1>4 DEF Normal, Answered, Outcome
<1>11. QED
  BY <1>3, <1>4, <1>8, <1>9, <1>10 DEF Totals

\* MetricsHandler reads the status that the handlers have set.
LEMMA ClassIsOutcome ==
    ASSUME IInv, NEW r \in Requests, Agrees(r), at[r] \in Late \ {"done"}
    PROVE  Class(r) = Outcome(r) /\ Class(r) \in 1 .. 5
<1>1. Mine(r).status = did[r].status
  BY DEF Agrees, Late, Holds, Places
<1>2. QED
  BY <1>1, ClassInRange DEF Class, StatusCode, Outcome

LEMMA CountOutTotals ==
    ASSUME IInv, Totals, NEW r \in Requests, Agrees(r), CountOut(r)
    PROVE  Totals'
<1>1. /\ at[r] = "returned" /\ at' = [at EXCEPT ![r] = "load"]
      /\ UNCHANGED <<panics, did>>
  BY DEF CountOut, Goto
<1>2. at \in [Requests -> Places] /\ m \in Metrics /\ panics \in [Requests -> BOOLEAN]
  BY DEF IInv, Flat, Figures
<1>3. Class(r) = Outcome(r) /\ Class(r) \in 1 .. 5
  BY <1>1, ClassIsOutcome DEF Late
<1> DEFINE a == m.inFlight - 1
           b == m.samples + 1
           e == IF Class(r) = 5 THEN m.errors + 1 ELSE m.errors
           p == IF panics[r] THEN m.protocols ELSE m.protocols + 1
           k == [m.class EXCEPT ![Class(r)] = @ + 1]
<1>4. m' = [m EXCEPT !.inFlight = a, !.samples = b, !.class = k, !.errors = e, !.protocols = p]
  BY DEF CountOut
<1> HIDE DEF a, b, e, p, k
<1>5. /\ m'.requests = m.requests /\ m'.inFlight = a /\ m'.samples = b /\ m'.class = k
      /\ m'.errors = e /\ m'.protocols = p
  BY <1>2, <1>4 DEF Metrics
<1>6. Counted' = Counted /\ r \in Counted /\ r \notin Out
  BY <1>1, <1>2 DEF Out, Counted
<1>7. Out' = Out \cup {r}
  BY <1>1, <1>2 DEF Out
<1>8. (Counted \ Out)' = (Counted \ Out) \ {r} /\ r \in Counted \ Out
  BY <1>6, <1>7
<1>9. Out \in SUBSET Requests /\ Counted \ Out \in SUBSET Requests
  BY DEF Counted, Out
<1>10. Cardinality(Out)' = Cardinality(Out) + 1
  BY <1>6, <1>7, <1>9, SizeOfPart
<1>11. Cardinality(Counted \ Out)' = Cardinality(Counted \ Out) - 1
  BY <1>8, <1>9, SizeOfPart
<1>12. \A q \in Requests : Outcome(q)' = Outcome(q)
  BY <1>1 DEF Outcome
<1>13. ASSUME NEW i \in 1 .. 5 PROVE k[i] = Cardinality(Answered(i))'
  <2>1. Answered(i) \in SUBSET Requests /\ r \notin Answered(i) /\ m.class[i] = Cardinality(Answered(i))
    BY <1>6 DEF Answered, Out, Totals
  <2>2. CASE i = Class(r)
    <3>1. Answered(i)' = Answered(i) \cup {r}
      BY <1>3, <1>7, <1>9, <1>12, <2>2 DEF Answered
    <3>2. k[i] = m.class[i] + 1
      BY <1>2, <2>2 DEF k, Metrics
    <3>3. QED
      BY <2>1, <3>1, <3>2, SizeOfPart
  <2>3. CASE i # Class(r)
    <3>1. Answered(i)' = Answered(i)
      BY <1>3, <1>7, <1>9, <1>12, <2>3 DEF Answered
    <3>2. k[i] = m.class[i]
      BY <1>2, <2>3 DEF k, Metrics
    <3>3. QED
      BY <2>1, <3>1, <3>2
  <2>4. QED
    BY <2>2, <2>3
<1>14. e = k[5]
  BY <1>2, <1>3 DEF e, k, Metrics, Totals
<1>15. p = Cardinality(Normal)'
  <2>1. Normal \in SUBSET Requests /\ r \notin Normal /\ m.protocols = Cardinality(Normal)
    BY <1>6 DEF Normal, Out, Totals
  <2>2. CASE panics[r]
    <3>1. Normal' = Normal
      BY <1>1, <1>7, <2>2 DEF Normal
    <3>2. QED
      BY <2>1, <2>2, <3>1 DEF p
  <2>3. CASE ~panics[r]
    <3>1. Normal' = Normal \cup {r}
      BY <1>1, <1>7, <2>3 DEF Normal
    <3>2. QED
      BY <2>1, <2>3, <3>1, SizeOfPart DEF p
  <2>4. QED
    BY <2>2, <2>3
<1>16. a = m.inFlight - 1 /\ b = m.samples + 1
  BY DEF a, b
<1>17. k[1] + k[2] + k[3] + k[4] + k[5] = b
  <2>1. m.class[1] + m.class[2] + m.class[3] + m.class[4] + m.class[5] = m.samples
    BY DEF Totals
  <2>2. m.class \in [1 .. 5 -> Int] /\ m.samples \in Int
    BY <1>2 DEF Metrics
  <2>3. PICK n \in 1 .. 5 : k = [m.class EXCEPT ![n] = @ + 1]
    BY <1>3 DEF k
  <2>4. n = 1 \/ n = 2 \/ n = 3 \/ n = 4 \/ n = 5
    BY <2>3
  <2>5. QED
    BY <1>16, <2>1, <2>2, <2>3, <2>4
<1>18. QED
  BY <1>5, <1>6, <1>10, <1>11, <1>13, <1>14, <1>15, <1>16, <1>17 DEF Totals

-----------------------------------------------------------------------------
(* The counters of routes and groups.                                      *)

LEMMA PairParts ==
    ASSUME NEW A, NEW B, NEW k \in A \X B
    PROVE  k = <<k[1], k[2]>> /\ k[1] \in A /\ k[2] \in B
OBVIOUS

LEMMA KeyOfTable ==
    ASSUME IInv, NEW k \in DOMAIN table
    PROVE  /\ k = <<k[1], k[2]>> /\ k[1] \in Scopes /\ k[2] # "" /\ table[k] \in Requests
           /\ counted \in [Scopes -> [Requests -> [requests : Nat, errors : Nat]]]
<1> DEFINE named == Names \ {""}
<1>1. \A n \in named : n # ""
  OBVIOUS
<1>2. k \in Scopes \X named
  BY DEF IInv, Figures
<1> HIDE DEF named
<1>3. k = <<k[1], k[2]>> /\ k[1] \in Scopes /\ k[2] # ""
  BY <1>1, <1>2, PairParts
<1>4. QED
  BY <1>3 DEF IInv, Figures

LEMMA HereFrame ==
    ASSUME NEW r \in Requests, Others(r), NEW s \in Scopes, NEW n,
           r \in Here(s, n)' <=> r \in Here(s, n),
           r \in Here(s, n) => Outcome(r)' = Outcome(r)
    PROVE  Here(s, n)' = Here(s, n) /\ Failed(s, n)' = Failed(s, n)
<1>1. \A q \in Requests : q \in Here(s, n)' <=> q \in Here(s, n)
  BY OthersCount DEF Here, Recorded, Out
<1>2. Here(s, n)' = Here(s, n)
  BY <1>1 DEF Here, Recorded, Out
<1>3. \A q \in Here(s, n) : Outcome(q)' = Outcome(q)
  BY OthersCount DEF Here, Recorded, Out
<1>4. QED
  BY <1>2, <1>3 DEF Failed

\* Steps in which nothing is recorded.
LEMMA FilingFrame ==
    ASSUME IInv, Filing, NEW r \in Requests, Others(r), table' = table, counted' = counted,
           r \in Out => r \in Out' /\ target'[r] = target[r] /\ Outcome(r)' = Outcome(r),
           \A s \in Scopes : r \in Recorded(s)' <=> r \in Recorded(s),
           \A s \in Scopes : Makes(r, s) => Makes(r, s)'
    PROVE  Filing'
<1>1. r \in Out => \A s : NameIn(s, r)' = NameIn(s, r)
  BY DEF NameIn
<1>2. \A s : Recorded(s) \subseteq Out /\ Recorded(s)' \subseteq Out'
  BY DEF Recorded
<1>3. ASSUME NEW s \in Scopes, NEW n
      PROVE  Here(s, n)' = Here(s, n) /\ Failed(s, n)' = Failed(s, n)
  <2>1. r \in Recorded(s) => r \in Out
    BY <1>2
  <2>2. r \in Here(s, n)' <=> r \in Here(s, n)
    BY <1>1, <2>1 DEF Here
  <2>3. r \in Here(s, n) => Outcome(r)' = Outcome(r)
    BY <2>1 DEF Here
  <2>4. QED
    BY <2>2, <2>3, HereFrame
<1>4. Entered'
  <2>1. ASSUME NEW s \in Scopes, NEW q \in Recorded(s)', NameIn(s, q)' # ""
        PROVE  <<s, NameIn(s, q)'>> \in DOMAIN table
    <3>1. q \in Requests
      BY DEF Recorded, Out
    <3>2. q \in Recorded(s)
      BY <3>1, OthersCount
    <3>3. NameIn(s, q)' = NameIn(s, q)
      BY <1>1, <1>2, <3>1, <3>2, OthersCount
    <3>4. QED
      BY <2>1, <3>2, <3>3 DEF Filing, Entered
  <2>2. QED
    BY <2>1 DEF Entered
<1>5. Owned'
  <2>1. ASSUME NEW k \in DOMAIN table
        PROVE  table[k] \in Out' /\ Makes(table[k], k[1])' /\ NameIn(k[1], table[k])' = k[2]
    <3>1. k[1] \in Scopes /\ table[k] \in Requests
      BY KeyOfTable
    <3>2. table[k] \in Out /\ Makes(table[k], k[1]) /\ NameIn(k[1], table[k]) = k[2]
      BY DEF Filing, Owned
    <3>3. CASE table[k] = r
      BY <1>1, <3>1, <3>2, <3>3
    <3>4. CASE table[k] # r
      <4>1. at'[table[k]] = at[table[k]] /\ scope'[table[k]] = scope[table[k]]
        BY <3>1, <3>4 DEF Others
      <4>2. QED
        BY <3>1, <3>2, <3>4, <4>1, OthersCount DEF Makes
    <3>5. QED
      BY <3>3, <3>4
  <2>2. QED
    BY <2>1 DEF Owned
<1>6. Unused'
  BY DEF Filing, Unused
<1>7. Exact'
  BY <1>3, KeyOfTable DEF Filing, Exact
<1>8. QED
  BY <1>4, <1>5, <1>6, <1>7 DEF Filing

LEMMA LoadOrStoreFiling ==
    ASSUME IInv, Filing, NEW r \in Requests, Agrees(r), LoadOrStore(r)
    PROVE  Filing'
<1>0. PICK key : key = Key(r)
  OBVIOUS
<1>1. /\ at[r] = "store" /\ at' = [at EXCEPT ![r] = "add"]
      /\ table' = IF key \in DOMAIN table THEN table
                  ELSE [k \in DOMAIN table \cup {key} |->
                          IF k = key THEN r ELSE table[k]]
      /\ UNCHANGED <<target, panics, scope, counted, did>>
  BY <1>0 DEF LoadOrStore, Goto
<1>2. Flat /\ Filed(r)
  BY DEF IInv, About
<1>3. Step(r) /\ Others(r)
  BY StepIsOwn DEF Step
<1>4. at'[r] = "add"
  BY <1>1, <1>2 DEF Flat
<1>5. key = <<scope[r], NameIn(scope[r], r)>> /\ key[2] # "" /\ scope[r] \in Scopes
  BY <1>0, <1>1, <1>2 DEF Agrees, Key, NameIn, Leaving, Filed, Flat
<1>6. r \in Out /\ r \in Out'
  BY <1>1, <1>4 DEF Out
<1>7. \A s : r \in Recorded(s)' <=> r \in Recorded(s)
  BY <1>1, <1>4, <1>6 DEF Recorded
<1>8. Outcome(r)' = Outcome(r) /\ target'[r] = target[r] /\ scope'[r] = scope[r]
  BY <1>1 DEF Outcome
<1>9. \A s : Makes(r, s) => Makes(r, s)'
  BY <1>1, <1>7 DEF Makes
<1>10. CASE key \in DOMAIN table
  <2>1. table' = table
    BY <1>1, <1>10
  <2>2. QED
    BY <1>1, <1>3, <1>6, <1>7, <1>8, <1>9, <2>1, FilingFrame
<1>11. CASE key \notin DOMAIN table
  <2>1. /\ DOMAIN table' = DOMAIN table \cup {key} /\ table'[key] = r
        /\ \A k \in DOMAIN table : table'[k] = table[k]
    BY <1>1, <1>11
  <2>2. \A s : Recorded(s)' = Recorded(s)
    <3>1. \A s : \A q \in Requests : q \in Recorded(s)' <=> q \in Recorded(s)
      BY <1>3, <1>7, OthersCount
    <3>2. QED
      BY <3>1 DEF Recorded, Out
  <2>3. \A s, q : NameIn(s, q)' = NameIn(s, q)
    BY <1>1 DEF NameIn
  <2>4. \A q : Outcome(q)' = Outcome(q)
    BY <1>1 DEF Outcome
  <2>5. \A s, n : Here(s, n)' = Here(s, n) /\ Failed(s, n)' = Failed(s, n)
    BY <2>2, <2>3, <2>4 DEF Here, Failed
  <2>6. Entered'
    BY <2>1, <2>2, <2>3 DEF Filing, Entered
  <2>7. Owned'
    <3>1. ASSUME NEW k \in DOMAIN table, NEW q, q = table[k]
          PROVE  q \in Out' /\ Makes(q, k[1])' /\ NameIn(k[1], q)' = k[2]
      <4>1. k[1] \in Scopes /\ q \in Requests
        BY <3>1, KeyOfTable
      <4>2. q \in Out /\ Makes(q, k[1]) /\ NameIn(k[1], q) = k[2]
        BY <3>1 DEF Filing, Owned
      <4>3. q \in Out'
        BY <1>3, <1>6, <4>1, <4>2, OthersCount
      <4>4. Makes(q, k[1])'
        <5>1. CASE q = r
          BY <1>9, <4>2, <5>1
        <5>2. CASE q # r
          BY <1>3, <2>2, <4>1, <4>2, <5>2 DEF Makes, Others
        <5>3. QED
          BY <5>1, <5>2
      <4>5. NameIn(k[1], q)' = k[2]
        BY <2>3, <4>2
      <4>6. QED
        BY <4>3, <4>4, <4>5
    <3>2. key[1] = scope[r] /\ key[2] = NameIn(scope[r], r)
      BY <1>5
    <3>3. Makes(r, key[1])'
      BY <1>4, <1>8, <3>2 DEF Makes
    <3>4. NameIn(key[1], r)' = key[2]
      BY <2>3, <3>2
    <3>5. ASSUME NEW k \in DOMAIN table', NEW q, q = table'[k]
          PROVE  q \in Out' /\ Makes(q, k[1])' /\ NameIn(k[1], q)' = k[2]
      <4>1. CASE k \in DOMAIN table
        BY <2>1, <3>1, <3>5, <4>1
      <4>2. CASE k = key
        BY <1>6, <2>1, <3>3, <3>4, <3>5, <4>2
      <4>3. QED
        BY <2>1, <4>1, <4>2
    <3>6. QED
      BY <3>5 DEF Owned
  <2>8. Unused'
    BY <1>1, <2>1 DEF Filing, Unused
  <2>9. Here(key[1], key[2]) = {} /\ Failed(key[1], key[2]) = {}
    <3>1. key[1] = scope[r] /\ key[1] \in Scopes /\ key = <<key[1], key[2]>>
      BY <1>5
    <3>2. ASSUME NEW q \in Here(key[1], key[2]) PROVE FALSE
      <4>1. q \in Recorded(key[1]) /\ NameIn(key[1], q) = key[2]
        BY DEF Here
      <4>2. <<key[1], NameIn(key[1], q)>> \in DOMAIN table
        BY <1>5, <3>1, <4>1 DEF Filing, Entered
      <4>3. QED
        BY <1>11, <3>1, <4>1, <4>2
    <3>3. QED
      BY <3>2 DEF Failed
  <2>10. counted[key[1]][r].requests = 0 /\ counted[key[1]][r].errors = 0
    <3>1. ~ Makes(r, scope[r])
      BY <1>1, <1>2 DEF Makes, Recorded, Flat, Scopes
    <3>2. ~ \E k \in DOMAIN table : k[1] = scope[r] /\ table[k] = r
      BY <3>1 DEF Filing, Owned
    <3>3. key[1] = scope[r]
      BY <1>5
    <3>4. QED
      BY <1>5, <3>2, <3>3 DEF Filing, Unused
  <2>11. Exact'
    <3>1. ASSUME NEW k \in DOMAIN table
          PROVE  /\ counted[k[1]][table[k]].requests = Cardinality(Here(k[1], k[2]))
                 /\ counted[k[1]][table[k]].errors = Cardinality(Failed(k[1], k[2]))
      BY DEF Filing, Exact
    <3>2. Cardinality({}) = 0
      BY FS_EmptySet
    <3>3. QED
      BY <1>1, <2>1, <2>5, <2>9, <2>10, <3>1, <3>2 DEF Exact
  <2>12. QED
    BY <2>6, <2>7, <2>8, <2>11 DEF Filing
<1>12. QED
  BY <1>10, <1>11

\* A request that goes on has been recorded for the scope it leaves.
LEMMA AdvanceRecords ==
    ASSUME IInv, NEW r \in Requests, at[r] \in {"load", "add"}, Advance(r), did' = did,
           UNCHANGED <<target, panics>>, Others(r)
    PROVE  /\ r \notin Recorded(scope[r]) /\ r \in Out /\ r \in Out'
           /\ \A s \in Scopes : Recorded(s)' = IF s = scope[r] THEN Recorded(s) \cup {r} ELSE Recorded(s)
           /\ \A s, q : NameIn(s, q)' = NameIn(s, q)
           /\ \A q : Outcome(q)' = Outcome(q)
<1>1. Flat
  BY DEF IInv
<1>2. /\ scope'[r] = "group"
      /\ at'[r] = IF scope[r] = "route" THEN "load" ELSE "recorded"
  BY <1>1 DEF Advance, Goto, Flat
<1>3. r \in Out /\ r \in Out'
  BY <1>2 DEF Out
<1>4. scope[r] \in Scopes /\ r \notin Recorded(scope[r])
  BY <1>1 DEF Flat, Recorded, Scopes
<1>5. \A s \in Scopes : r \in Recorded(s)' <=> s = scope[r] \/ r \in Recorded(s)
  BY <1>1, <1>2, <1>3, <1>4 DEF Recorded, Scopes
<1>6. \A s \in Scopes : \A q \in Requests : q \in Recorded(s)' <=> q \in Recorded(s) \/ (q = r /\ s = scope[r])
  BY <1>5, OthersCount
<1>7. \A s : Recorded(s) \subseteq Requests /\ Recorded(s)' \subseteq Requests
  BY DEF Recorded, Out
<1>8. \A s \in Scopes : Recorded(s)' = IF s = scope[r] THEN Recorded(s) \cup {r} ELSE Recorded(s)
  BY <1>6, <1>7
<1>9. \A s, q : NameIn(s, q)' = NameIn(s, q)
  BY DEF NameIn
<1>10. \A q : Outcome(q)' = Outcome(q)
  BY DEF Outcome
<1>11. QED
  BY <1>3, <1>4, <1>8, <1>9, <1>10

\* Who owns counters keeps them when r goes on.
LEMMA AdvanceOwned ==
    ASSUME IInv, Filing, NEW r \in Requests, at[r] \in {"load", "add"}, Advance(r), did' = did,
           UNCHANGED <<target, panics, table>>, Others(r)
    PROVE  Owned'
<1>1. Flat
  BY DEF IInv
<1>2. /\ r \in Out'
      /\ \A s \in Scopes : Recorded(s)' = IF s = scope[r] THEN Recorded(s) \cup {r} ELSE Recorded(s)
      /\ \A s, q : NameIn(s, q)' = NameIn(s, q)
  BY AdvanceRecords
<1>3. ASSUME NEW k \in DOMAIN table, NEW q, q = table[k]
      PROVE  q \in Out' /\ Makes(q, k[1])' /\ NameIn(k[1], q)' = k[2]
  <2>1. k[1] \in Scopes /\ q \in Requests
    BY <1>3, KeyOfTable
  <2>2. q \in Out /\ Makes(q, k[1]) /\ NameIn(k[1], q) = k[2]
    BY <1>3 DEF Filing, Owned
  <2>3. q \in Out'
    BY <1>2, <2>1, <2>2, OthersCount
  <2>4. Makes(q, k[1])'
    <3>1. CASE q \in Recorded(k[1])
      BY <1>2, <2>1, <3>1 DEF Makes
    <3>2. CASE at[q] = "add" /\ scope[q] = k[1] /\ q = r
      BY <1>2, <2>1, <3>2 DEF Makes
    <3>3. CASE at[q] = "add" /\ scope[q] = k[1] /\ q # r
      BY <2>1, <3>3 DEF Makes, Others
    <3>4. QED
      BY <2>2, <3>1, <3>2, <3>3 DEF Makes
  <2>5. NameIn(k[1], q)' = k[2]
    BY <1>2, <2>2
  <2>6. QED
    BY <2>3, <2>4, <2>5
<1>4. QED
  BY <1>3 DEF Owned

LEMMA UnnamedFiling ==
    ASSUME IInv, Filing, NEW r \in Requests, Agrees(r), Unnamed(r)
    PROVE  Filing'
<1>1. /\ at[r] = "load" /\ Key(r)[2] = "" /\ Advance(r)
      /\ UNCHANGED <<target, panics, table, counted, did>>
  BY DEF Unnamed, metrics
<1>2. Others(r)
  BY StepIsOwn DEF Step
<1>3. scope[r] \in Scopes /\ NameIn(scope[r], r) = ""
  BY <1>1 DEF Agrees, Key, NameIn, Leaving, IInv, Flat
<1>4. /\ \A s \in Scopes : Recorded(s)' = IF s = scope[r] THEN Recorded(s) \cup {r} ELSE Recorded(s)
      /\ \A s, q : NameIn(s, q)' = NameIn(s, q)
      /\ \A q : Outcome(q)' = Outcome(q)
  BY <1>1, <1>2, AdvanceRecords
<1>5. Entered'
  BY <1>1, <1>3, <1>4 DEF Filing, Entered
<1>6. Owned'
  BY <1>1, <1>2, AdvanceOwned
<1>7. Unused'
  BY <1>1 DEF Filing, Unused
<1>8. ASSUME NEW s \in Scopes, NEW n, n # ""
      PROVE  Here(s, n)' = Here(s, n) /\ Failed(s, n)' = Failed(s, n)
  <2>1. \A q : NameIn(s, q)' = n /\ q \in Recorded(s)' <=> NameIn(s, q) = n /\ q \in Recorded(s)
    BY <1>3, <1>4, <1>8
  <2>2. Here(s, n)' = Here(s, n)
    BY <2>1 DEF Here
  <2>3. QED
    BY <1>4, <2>2 DEF Failed
<1>9. Exact'
  <2>1. ASSUME NEW k \in DOMAIN table
        PROVE  /\ counted[k[1]][table[k]].requests = Cardinality(Here(k[1], k[2]))'
               /\ counted[k[1]][table[k]].errors = Cardinality(Failed(k[1], k[2]))'
    BY <1>8, KeyOfTable DEF Filing, Exact
  <2>2. QED
    BY <1>1, <2>1 DEF Exact
<1>10. QED
  BY <1>5, <1>6, <1>7, <1>9 DEF Filing

LEMMA AddFiling ==
    ASSUME IInv, Filing, NEW r \in Requests, Agrees(r), Add(r)
    PROVE  Filing'
<1>0. PICK key : key = Key(r)
  OBVIOUS
<1> DEFINE old == counted[scope[r]][stat[r]]
           new == [requests |-> old.requests + 1,
                   errors |-> IF Class(r) = 5 THEN old.errors + 1 ELSE old.errors]
<1>1. /\ at[r] = "add" /\ Advance(r)
      /\ counted' = [counted EXCEPT ![scope[r]] = [counted[scope[r]] EXCEPT ![stat[r]] = new]]
      /\ UNCHANGED <<target, panics, table, did>>
  BY DEF Add
<1>2. Others(r)
  BY StepIsOwn DEF Step
<1>3. /\ key = <<scope[r], NameIn(scope[r], r)>> /\ scope[r] \in Scopes
      /\ key \in DOMAIN table /\ stat[r] = table[key]
  BY <1>0, <1>1 DEF Agrees, Key, NameIn, Leaving, IInv, Flat
<1>4. key[1] = scope[r] /\ key[2] = NameIn(key[1], r) /\ table[key] \in Requests
  BY <1>3, KeyOfTable
<1>5. /\ r \notin Recorded(scope[r])
      /\ \A s \in Scopes : Recorded(s)' = IF s = scope[r] THEN Recorded(s) \cup {r} ELSE Recorded(s)
      /\ \A s, q : NameIn(s, q)' = NameIn(s, q)
      /\ \A q : Outcome(q)' = Outcome(q)
  BY <1>1, <1>2, AdvanceRecords
<1>6. Entered'
  <2>1. ASSUME NEW s \in Scopes, NEW q \in Recorded(s)', NameIn(s, q) # ""
        PROVE  <<s, NameIn(s, q)>> \in DOMAIN table
    <3>1. CASE s = scope[r] /\ q = r
      BY <1>3, <3>1
    <3>2. CASE ~(s = scope[r] /\ q = r)
      <4>1. q \in Recorded(s)
        BY <1>5, <3>2
      <4>2. QED
        BY <2>1, <4>1 DEF Filing, Entered
    <3>3. QED
      BY <3>1, <3>2
  <2>2. QED
    BY <1>1, <1>5, <2>1 DEF Entered
<1>7. Owned'
  BY <1>1, <1>2, AdvanceOwned
<1>8. Class(r) = Outcome(r)
  BY <1>1, ClassIsOutcome DEF Late
<1>9. old \in [requests : Nat, errors : Nat]
  BY <1>3, <1>4, KeyOfTable
<1>10. old.requests \in Nat /\ old.errors \in Nat
  BY <1>9
<1>11. new.requests = old.requests + 1 /\ new.errors = IF Outcome(r) = 5 THEN old.errors + 1 ELSE old.errors
  BY <1>8
<1> HIDE DEF old, new
<1>12. /\ counted'[key[1]][table[key]] = new
       /\ \A s \in Scopes, q \in Requests :
             <<s, q>> # <<key[1], table[key]>> => counted'[s][q] = counted[s][q]
  BY <1>1, <1>3, <1>4, KeyOfTable
<1>13. Unused'
  <2>1. ASSUME NEW s \in Scopes, NEW q \in Requests
        PROVE  \/ counted'[s][q].requests = 0 /\ counted'[s][q].errors = 0
               \/ \E k \in DOMAIN table : k[1] = s /\ table[k] = q
    <3>1. CASE s = key[1] /\ q = table[key]
      BY <1>3, <3>1
    <3>2. CASE ~(s = key[1] /\ q = table[key])
      <4>1. counted'[s][q] = counted[s][q]
        BY <1>12, <3>2
      <4>2. QED
        BY <4>1 DEF Filing, Unused
    <3>3. QED
      BY <3>1, <3>2
  <2>2. QED
    BY <1>1, <2>1 DEF Unused
<1>14. ASSUME NEW k \in DOMAIN table
       PROVE  /\ counted'[k[1]][table[k]].requests = Cardinality(Here(k[1], k[2]))'
              /\ counted'[k[1]][table[k]].errors = Cardinality(Failed(k[1], k[2]))'
  <2>1. /\ k = <<k[1], k[2]>> /\ k[1] \in Scopes /\ table[k] \in Requests
        /\ key = <<key[1], key[2]>> /\ key[1] \in Scopes
    BY <1>3, KeyOfTable
  <2>2. /\ counted[k[1]][table[k]].requests = Cardinality(Here(k[1], k[2]))
        /\ counted[k[1]][table[k]].errors = Cardinality(Failed(k[1], k[2]))
    BY DEF Filing, Exact
  <2>3. CASE k = key
    <3>1. Here(key[1], key[2])' = Here(key[1], key[2]) \cup {r} /\ r \notin Here(key[1], key[2])
      BY <1>4, <1>5, <2>1 DEF Here
    <3>2. Here(key[1], key[2]) \in SUBSET Requests
      BY DEF Here, Recorded, Out
    <3>3. Cardinality(Here(key[1], key[2]))' = Cardinality(Here(key[1], key[2])) + 1
      BY <3>1, <3>2, SizeOfPart
    <3>4. old.requests = Cardinality(Here(key[1], key[2]))
          /\ old.errors = Cardinality(Failed(key[1], key[2]))
      BY <1>3, <1>4, <2>2, <2>3 DEF old
    <3>5. Failed(key[1], key[2])' = IF Outcome(r) = 5 THEN Failed(key[1], key[2]) \cup {r}
                                    ELSE Failed(key[1], key[2])
      BY <1>5, <3>1 DEF Failed
    <3>6. r \notin Failed(key[1], key[2]) /\ Failed(key[1], key[2]) \in SUBSET Requests
      BY <3>1, <3>2 DEF Failed
    <3>7. Cardinality(Failed(key[1], key[2]))' =
             IF Outcome(r) = 5 THEN Cardinality(Failed(key[1], key[2])) + 1
             ELSE Cardinality(Failed(key[1], key[2]))
      BY <3>5, <3>6, SizeOfPart
    <3>8. QED
      BY <1>11, <1>12, <2>3, <3>3, <3>4, <3>7
  <2>4. CASE k # key
    <3>1. Here(k[1], k[2])' = Here(k[1], k[2])
      <4>1. CASE k[1] = key[1]
        <5>1. k[2] # key[2]
          BY <2>1, <2>4, <4>1
        <5>2. QED
          BY <1>4, <1>5, <2>1, <4>1, <5>1 DEF Here
      <4>2. CASE k[1] # key[1]
        BY <1>4, <1>5, <2>1, <4>2 DEF Here
      <4>3. QED
        BY <4>1, <4>2
    <3>2. Failed(k[1], k[2])' = Failed(k[1], k[2])
      BY <1>5, <3>1 DEF Failed
    <3>3. ~(k[1] = key[1] /\ table[k] = table[key])
      <4>1. NameIn(k[1], table[k]) = k[2] /\ NameIn(key[1], table[key]) = key[2]
        BY <1>3 DEF Filing, Owned
      <4>2. QED
        BY <2>1, <2>4, <4>1
    <3>4. counted'[k[1]][table[k]] = counted[k[1]][table[k]]
      BY <1>12, <2>1, <3>3
    <3>5. QED
      BY <2>2, <3>1, <3>2, <3>4
  <2>5. QED
    BY <2>3, <2>4
<1>15. Exact'
  BY <1>1, <1>14 DEF Exact
<1>16. QED
  BY <1>6, <1>7, <1>13, <1>15 DEF Filing

-----------------------------------------------------------------------------
(* Every count is exact at every moment.                                   *)

LEMMA QuietStep ==
    ASSUME IInv, Totals, Filing, NEW r \in Requests, Others(r), UNCHANGED metrics,
           at[r] \notin Late \ {"returned"}, at'[r] \notin Late \ {"returned"},
           at[r] \in {"away", "acquired"} <=> at'[r] \in {"away", "acquired"}
    PROVE  Totals' /\ Filing'
<1>1. r \notin Out /\ r \notin Out' /\ (r \in Counted' <=> r \in Counted)
  BY DEF Out, Counted, Late
<1>2. \A s : r \notin Recorded(s) /\ r \notin Recorded(s)'
  BY <1>1 DEF Recorded
<1>3. \A s : ~Makes(r, s)
  BY <1>2 DEF Makes, Late
<1>4. QED
  BY <1>1, <1>2, <1>3, TotalsFrame, FilingFrame DEF metrics

LEMMA WayInCounts ==
    ASSUME IInv, Totals, Filing, NEW r \in Requests, Others(r),
           Acquire(r) \/ Match(r) \/ Dispatch(r) \/ AnswerDirectly(r) \/ Chain(r) \/ PutBuffer(r)
    PROVE  Totals' /\ Filing'
<1>1. Flat
  BY DEF IInv
<1>2. CASE Acquire(r) \/ Match(r) \/ Dispatch(r) \/ AnswerDirectly(r) \/ PutBuffer(r)
  <2>1. /\ UNCHANGED metrics
        /\ at[r] \notin Late \ {"returned"} /\ at'[r] \notin Late \ {"returned"}
        /\ at[r] \in {"away", "acquired"} <=> at'[r] \in {"away", "acquired"}
    BY <1>1, <1>2 DEF Acquire, Match, Dispatch, AnswerDirectly, PutBuffer, Goto, Late, Flat
  <2>2. QED
    BY <2>1, QuietStep
<1>3. CASE Chain(r)
  <2>1. /\ UNCHANGED metrics
        /\ at[r] \in Running /\ at'[r] \in Running \cup {"ran"}
    BY <1>1, <1>3 DEF Chain, CallFirst, Call, LeaveLoop, Next_, Abort, Return, PanicRecovered,
       Panic, Respond, Applied, Goto, Running, Flat, local
  <2>2. /\ at[r] \notin Late \ {"returned"} /\ at'[r] \notin Late \ {"returned"}
        /\ at[r] \in {"away", "acquired"} <=> at'[r] \in {"away", "acquired"}
    BY <2>1 DEF Running, Late
  <2>3. QED
    BY <2>1, <2>2, QuietStep
<1>4. QED
  BY <1>2, <1>3

LEMMA CountInCounts ==
    ASSUME IInv, Totals, Filing, NEW r \in Requests, Others(r), CountIn(r)
    PROVE  Totals' /\ Filing'
<1>1. at[r] = "acquired" /\ at'[r] = "counted" /\ UNCHANGED <<table, counted>>
  BY DEF CountIn, Goto, IInv, Flat
<1>2. r \notin Out
  BY <1>1 DEF Out
<1>3. \A s : r \notin Recorded(s) /\ r \notin Recorded(s)' /\ ~Makes(r, s)
  BY <1>1 DEF Recorded, Out, Makes
<1>4. QED
  BY <1>1, <1>2, <1>3, CountInTotals, FilingFrame

LEMMA CountOutCounts ==
    ASSUME IInv, Totals, Filing, NEW r \in Requests, Agrees(r), Others(r), CountOut(r)
    PROVE  Totals' /\ Filing'
<1>1. at[r] = "returned" /\ at'[r] = "load" /\ scope'[r] = "route" /\ UNCHANGED <<table, counted>>
  BY DEF CountOut, Goto, IInv, Flat
<1>2. r \notin Out
  BY <1>1 DEF Out
<1>3. \A s : r \notin Recorded(s) /\ r \notin Recorded(s)' /\ ~Makes(r, s)
  BY <1>1 DEF Recorded, Out, Makes
<1>4. QED
  BY <1>1, <1>2, <1>3, CountOutTotals, FilingFrame

LEMMA RecordCounts ==
    ASSUME IInv, Totals, Filing, NEW r \in Requests, Agrees(r), Others(r),
           Unnamed(r) \/ LoadHit(r) \/ LoadMiss(r) \/ LoadOrStore(r) \/ Add(r) \/ Release(r)
    PROVE  Totals' /\ Filing'
<1>1. Flat
  BY DEF IInv
<1>2. Totals'
  <2>1. /\ at[r] \in Late \ {"returned"} /\ at'[r] \in Late \ {"returned"} /\ m' = m
        /\ UNCHANGED <<panics, did>>
    BY <1>1 DEF Unnamed, LoadHit, LoadMiss, LoadOrStore, Add, Release, Advance, Goto, Flat, Late,
       metrics
  <2>2. r \in Out /\ r \in Out' /\ r \in Counted /\ r \in Counted'
    BY <2>1 DEF Late, Out, Counted
  <2>3. Outcome(r)' = Outcome(r)
    BY <2>1 DEF Outcome
  <2>4. QED
    BY <2>1, <2>2, <2>3, TotalsFrame
<1>3. Filing'
  <2>1. CASE LoadHit(r) \/ LoadMiss(r) \/ Release(r)
    <3>1. /\ \/ at[r] = "load" /\ at'[r] \in {"store", "add"}
             \/ at[r] = "recorded" /\ at'[r] = "done"
          /\ UNCHANGED <<target, panics, did, scope, table, counted>>
      BY <1>1, <2>1 DEF LoadHit, LoadMiss, Release, Goto, Flat, metrics
    <3>2. r \in Out /\ r \in Out'
      BY <3>1 DEF Out
    <3>3. Outcome(r)' = Outcome(r)
      BY <3>1 DEF Outcome
    <3>4. \A s : r \in Recorded(s)' <=> r \in Recorded(s)
      BY <3>1, <3>2 DEF Recorded
    <3>5. \A s : Makes(r, s) => Makes(r, s)'
      BY <3>1, <3>4 DEF Makes
    <3>6. QED
      BY <3>1, <3>2, <3>3, <3>4, <3>5, FilingFrame
  <2>2. QED
    BY <2>1, UnnamedFiling, LoadOrStoreFiling, AddFiling
<1>4. QED
  BY <1>2, <1>3

LEMMA StepCounts ==
    ASSUME IInv, IInv', CInv, NEW r \in Requests, Step(r)
    PROVE  CInv'
<1>1. \A q \in Requests : Agrees(q)'
  BY OthersAgree, OwnAgrees DEF CInv
<1>2. Totals' /\ Filing'
  <2>1. Others(r) /\ Totals /\ Filing /\ Agrees(r)
    BY StepIsOwn DEF CInv
  <2>2. CASE CountIn(r)
    BY <2>1, <2>2, CountInCounts
  <2>3. CASE CountOut(r)
    BY <2>1, <2>3, CountOutCounts
  <2>4. CASE Acquire(r) \/ Match(r) \/ Dispatch(r) \/ AnswerDirectly(r) \/ Chain(r) \/ PutBuffer(r)
    BY <2>1, <2>4, WayInCounts
  <2>5. CASE Unnamed(r) \/ LoadHit(r) \/ LoadMiss(r) \/ LoadOrStore(r) \/ Add(r) \/ Release(r)
    BY <2>1, <2>5, RecordCounts
  <2>6. QED
    BY <2>2, <2>3, <2>4, <2>5 DEF Step
<1>3. QED
  BY <1>1, <1>2 DEF CInv

LEMMA InitCounts == Init => CInv
<1> SUFFICES ASSUME Init PROVE CInv
  OBVIOUS
<1>1. \A r \in Requests : at[r] = "away" /\ did[r].status = 0
  BY DEF Init
<1>2. Counted = {} /\ Out = {}
  BY <1>1 DEF Counted, Out
<1>3. Cardinality({}) = 0
  BY FS_EmptySet
<1>4. Normal = {} /\ \A k : Answered(k) = {}
  BY <1>2 DEF Normal, Answered
<1>5. /\ m.requests = 0 /\ m.inFlight = 0 /\ m.samples = 0 /\ m.errors = 0 /\ m.protocols = 0
      /\ \A k \in 1 .. 5 : m.class[k] = 0
  BY DEF Init
<1>6. Totals
  <2>1. /\ m.errors = m.class[5]
        /\ m.class[1] + m.class[2] + m.class[3] + m.class[4] + m.class[5] = m.samples
    BY <1>5
  <2>2. Counted \ Out = {}
    BY <1>2
  <2>3. QED
    BY <1>2, <1>3, <1>4, <1>5, <2>1, <2>2, Zenon DEF Totals
<1>7. DOMAIN table = {} /\ \A s : Recorded(s) = {}
  BY <1>2 DEF Init, Recorded
<1>8. \A s \in Scopes, r \in Requests : counted[s][r].requests = 0 /\ counted[s][r].errors = 0
  BY DEF Init
<1>9. Filing
  BY <1>7, <1>8 DEF Filing, Entered, Owned, Unused, Exact
<1>10. \A r \in Requests : Agrees(r)
  BY <1>1 DEF Agrees, Holds, Leaving
<1>11. QED
  BY <1>6, <1>9, <1>10 DEF CInv

LEMMA StutterCounts == CInv /\ UNCHANGED vars => CInv'
<1> SUFFICES ASSUME CInv, UNCHANGED vars PROVE CInv'
  OBVIOUS
<1>1. Counted' = Counted /\ Out' = Out /\ \A s : Recorded(s)' = Recorded(s)
  BY DEF Counted, Out, Recorded, vars, local
<1>2. \A q : Outcome(q)' = Outcome(q) /\ \A s : NameIn(s, q)' = NameIn(s, q)
  BY DEF Outcome, NameIn, vars, local
<1>3. Normal' = Normal /\ \A k : Answered(k)' = Answered(k)
  BY <1>1, <1>2 DEF Normal, Answered, vars, local
<1>4. \A s, n : Here(s, n)' = Here(s, n) /\ Failed(s, n)' = Failed(s, n)
  BY <1>1, <1>2 DEF Here, Failed
<1>5. Totals'
  BY <1>1, <1>3 DEF CInv, Totals, vars, metrics
<1>6. Entered' /\ Unused'
  <2>1. Entered /\ Unused /\ UNCHANGED <<table, counted>>
    BY DEF CInv, Filing, vars, metrics
  <2>2. Entered'
    BY <1>1, <1>2, <2>1 DEF Entered
  <2>3. Unused'
    BY <2>1 DEF Unused
  <2>4. QED
    BY <2>2, <2>3
<1>7. Owned'
  BY <1>1, <1>2 DEF CInv, Filing, Owned, Makes, vars, local, metrics
<1>8. Exact'
  BY <1>4 DEF CInv, Filing, Exact, vars, metrics
<1>9. \A r \in Requests : Agrees(r)'
  BY DEF CInv, Agrees, Mine, Key, vars, local, pools, metrics
<1>10. QED
  BY <1>5, <1>6, <1>7, <1>8, <1>9 DEF CInv, Filing

\* Every request is counted once, in one class, that of the status its handlers set
\* if it was answered through its Context, and for its own route and group, at every
\* moment and whatever panics; two first requests of a route share its counters
\* (MetricsHandler, recordRoute, routeStat, groupStat).
THEOREM CountsAreExact == Spec => []CountsAddUp
<1>1. IInv /\ IInv' /\ CInv /\ [Next]_vars => CInv'
  <2>1. ASSUME IInv, IInv', CInv, Next PROVE CInv'
    BY <2>1, StepCounts DEF Next
  <2>2. QED
    BY <2>1, StutterCounts
<1>2. CInv => CountsAddUp
  <2> SUFFICES ASSUME CInv PROVE CountsAddUp
    OBVIOUS
  <2>1. Totals /\ Entered /\ Exact
    BY DEF CInv, Filing
  <2>2. ASSUME NEW k \in 1 .. 5
        PROVE  m.class[k] \in Cardinality(Known(k)) ..
                                 Cardinality(Known(k)) + Cardinality(Direct)
    BY <2>1, DirectAside DEF Totals
  <2>3. m.protocols \in Cardinality(Normal) .. Cardinality(Out)
    <3>1. Normal \in SUBSET Requests /\ Out \in SUBSET Requests /\ Normal \subseteq Out
      BY DEF Normal, Out
    <3>2. Cardinality(Normal) <= Cardinality(Out)
      BY <3>1, RequestsAssumption, FS_Subset
    <3>3. QED
      BY <2>1, <3>1, <3>2, SizeOfPart DEF Totals
  <2>4. QED
    BY <2>1, <2>2, <2>3 DEF Totals, Entered, Exact, CountsAddUp, Known, Normal, Here, Failed
<1>3. QED
  BY <1>1, <1>2, InitCounts, Invariant, PTL DEF Spec
=============================================================================
