-------------------------- MODULE Assembly_proofs --------------------------
(***************************************************************************)
(* Proofs about Assembly for every set of built-in middleware, every order *)
(* an application may ask for, any number of calls before Start and any    *)
(* route groups, however deep and however append allocates.                *)
(***************************************************************************)
EXTENDS Assembly, SequenceTheorems, NaturalsInduction, WellFoundedInduction, TLAPS

-----------------------------------------------------------------------------
(* What is picked from a sequence.                                         *)

PicksUpTo(f, s, set, n) ==
    f = [i \in 0 .. n |->
            IF i = 0 THEN <<>>
            ELSE IF i \in set THEN Append(f[i - 1], s[i]) ELSE f[i - 1]]

\* A set of naturals that is not empty has a least member.
LEMMA Least ==
    ASSUME NEW T, T \subseteq Nat, T # {}
    PROVE  \E n \in T : \A m \in T : ~(m < n)
<1>1. PICK n \in T : \A m \in T : ~(<<m, n>> \in OpToRel(<, Nat))
  BY WFMin, NatLessThanWellFounded, Zenon
<1>2. \A m \in T : ~(m < n)
  BY <1>1 DEF OpToRel
<1>3. QED
  BY <1>2

LEMMA PicksExist ==
    ASSUME NEW s, NEW set, NEW n \in Nat
    PROVE  \E f : PicksUpTo(f, s, set, n)
<1> DEFINE Bad == {m \in Nat : ~\E f : PicksUpTo(f, s, set, m)}
<1>1. SUFFICES ASSUME Bad # {}
               PROVE  FALSE
  OBVIOUS
<1>2. PICK m \in Bad : \A k \in Bad : ~(k < m)
  BY <1>1, Least
<1>3. m # 0
  <2>1. PicksUpTo([i \in 0 .. 0 |-> <<>>], s, set, 0)
    BY DEF PicksUpTo
  <2>2. QED
    BY <2>1
<1>4. PICK g : PicksUpTo(g, s, set, m - 1)
  <2>1. m - 1 \in Nat /\ m - 1 < m
    BY <1>3
  <2>2. QED
    BY <1>2, <2>1
<1> DEFINE h == [i \in 0 .. m |->
                    IF i = m
                    THEN IF m \in set THEN Append(g[m - 1], s[m]) ELSE g[m - 1]
                    ELSE g[i]]
<1>5. PicksUpTo(h, s, set, m)
  <2>1. \A i \in 0 .. m :
            h[i] = IF i = 0 THEN <<>>
                   ELSE IF i \in set THEN Append(h[i - 1], s[i]) ELSE h[i - 1]
    <3> SUFFICES ASSUME NEW i \in 0 .. m
                 PROVE  h[i] = IF i = 0 THEN <<>>
                               ELSE IF i \in set THEN Append(h[i - 1], s[i])
                               ELSE h[i - 1]
      OBVIOUS
    <3>1. CASE i = m
      <4>1. m - 1 \in 0 .. m /\ m - 1 # m
        BY <1>3
      <4>2. h[m - 1] = g[m - 1]
        BY <4>1
      <4>3. QED
        BY <1>3, <3>1, <4>2
    <3>2. CASE i # m /\ i # 0
      <4>1. i \in 0 .. m - 1 /\ i - 1 \in 0 .. m /\ i - 1 # m
        BY <3>2
      <4>2. h[i - 1] = g[i - 1] /\ h[i] = g[i]
        BY <3>2, <4>1
      <4>3. QED
        BY <1>4, <3>2, <4>1, <4>2 DEF PicksUpTo
    <3>3. CASE i # m /\ i = 0
      <4>1. h[i] = g[i] /\ i \in 0 .. m - 1
        BY <3>3
      <4>2. QED
        BY <1>4, <3>3, <4>1 DEF PicksUpTo
    <3>4. QED
      BY <3>1, <3>2, <3>3
  <2>2. h = [i \in 0 .. m |-> h[i]]
    OBVIOUS
  <2> HIDE DEF h
  <2>3. QED
    BY <2>1, <2>2 DEF PicksUpTo
<1>6. QED
  BY <1>2, <1>5

Picks(f, s, set, n) ==
    /\ f[0] = <<>>
    /\ \A i \in 1 .. n :
          f[i] = IF i \in set THEN Append(f[i - 1], s[i]) ELSE f[i - 1]

\* How Picked comes about, one position after the other.
LEMMA Picking ==
    ASSUME NEW s, NEW set, Len(s) \in Nat
    PROVE  \E f : Picked(s, set) = f[Len(s)] /\ Picks(f, s, set, Len(s))
<1> DEFINE f == CHOOSE f : PicksUpTo(f, s, set, Len(s))
<1>1. PicksUpTo(f, s, set, Len(s))
  BY PicksExist, Zenon
<1>2. Picked(s, set) = f[Len(s)]
  BY DEF Picked, PicksUpTo
<1> HIDE DEF f
<1>3. \A i \in 0 .. Len(s) :
          f[i] = IF i = 0 THEN <<>>
                 ELSE IF i \in set THEN Append(f[i - 1], s[i]) ELSE f[i - 1]
  BY <1>1, Zenon DEF PicksUpTo
<1>4. 0 \in 0 .. Len(s) /\ \A i \in 1 .. Len(s) : i \in 0 .. Len(s) /\ i # 0
  OBVIOUS
<1>5. f[0] = <<>>
  BY <1>3, <1>4
<1>6. \A i \in 1 .. Len(s) :
          f[i] = IF i \in set THEN Append(f[i - 1], s[i]) ELSE f[i - 1]
  BY <1>3, <1>4
<1>7. QED
  BY <1>2, <1>5, <1>6 DEF Picks

\* The picks agree where the sequences and the positions do.
Alike(s, set, t, other, n) ==
    \A i \in 1 .. n : s[i] = t[i] /\ (i \in set <=> i \in other)

LEMMA PicksAgree ==
    ASSUME NEW s, NEW t, NEW set, NEW other, NEW n \in Nat, NEW f, NEW g,
           Alike(s, set, t, other, n), Picks(f, s, set, n), Picks(g, t, other, n)
    PROVE  f[n] = g[n]
<1> DEFINE Bad == {i \in 0 .. n : f[i] # g[i]}
<1>1. SUFFICES ASSUME f[n] # g[n]
               PROVE  FALSE
  OBVIOUS
<1>2. PICK m \in Bad : \A k \in Bad : ~(k < m)
  <2>1. Bad \subseteq Nat /\ n \in Bad
    BY <1>1
  <2>2. QED
    BY <2>1, Least
<1>3. m \in 1 .. n
  BY DEF Picks
<1>4. m - 1 \in 0 .. n /\ m - 1 < m
  BY <1>3
<1>5. f[m - 1] = g[m - 1]
  BY <1>2, <1>4
<1>6. QED
  BY <1>3, <1>5 DEF Picks, Alike

LEMMA PickedSame ==
    ASSUME NEW s, NEW t, NEW set, NEW other, Len(s) \in Nat, Len(t) = Len(s),
           Alike(s, set, t, other, Len(s))
    PROVE  Picked(s, set) = Picked(t, other)
<1>1. PICK f : Picked(s, set) = f[Len(s)] /\ Picks(f, s, set, Len(s))
  BY Picking
<1>2. PICK g : Picked(t, other) = g[Len(t)] /\ Picks(g, t, other, Len(t))
  BY Picking
<1>3. f[Len(s)] = g[Len(s)]
  BY <1>1, <1>2, PicksAgree
<1>4. QED
  BY <1>1, <1>2, <1>3

LEMMA PickedNone ==
    ASSUME NEW set
    PROVE  Picked(<<>>, set) = <<>>
<1>1. Len(<<>>) = 0
  OBVIOUS
<1>2. QED
  BY <1>1, Picking DEF Picks

LEMMA PickedAppend ==
    ASSUME NEW S, NEW s \in Seq(S), NEW x \in S, NEW set, NEW other,
           \A i \in 1 .. Len(s) : i \in set <=> i \in other
    PROVE  Picked(Append(s, x), other)
              = IF Len(s) + 1 \in other THEN Append(Picked(s, set), x)
                ELSE Picked(s, set)
<1> DEFINE t == Append(s, x)
<1>1. /\ Len(s) \in Nat /\ Len(t) = Len(s) + 1 /\ t[Len(s) + 1] = x
      /\ \A i \in 1 .. Len(s) : t[i] = s[i]
  OBVIOUS
<1>2. PICK f : Picked(s, set) = f[Len(s)] /\ Picks(f, s, set, Len(s))
  BY <1>1, Picking
<1> HIDE DEF t
<1>3. PICK g : Picked(t, other) = g[Len(t)] /\ Picks(g, t, other, Len(t))
  <2>1. Len(t) \in Nat
    BY <1>1
  <2>2. QED
    BY <2>1, Picking
<1>4. Picks(g, t, other, Len(s)) /\ Alike(s, set, t, other, Len(s))
  BY <1>1, <1>3 DEF Picks, Alike
<1>5. f[Len(s)] = g[Len(s)]
  BY <1>1, <1>2, <1>4, PicksAgree
<1>6. g[Len(s) + 1]
          = IF Len(s) + 1 \in other THEN Append(g[Len(s)], x) ELSE g[Len(s)]
  <2>1. Len(s) + 1 \in 1 .. Len(t) /\ (Len(s) + 1) - 1 = Len(s)
    BY <1>1
  <2>2. QED
    BY <1>1, <1>3, <2>1 DEF Picks
<1>7. QED
  BY <1>1, <1>2, <1>3, <1>5, <1>6 DEF t

\* What is picked is what stands at the positions, and nothing is left out.
LEMMA PickedRange ==
    ASSUME NEW s, NEW set, Len(s) \in Nat
    PROVE  /\ Picked(s, set) \in Seq({s[i] : i \in set \cap 1 .. Len(s)})
           /\ \A i \in set \cap 1 .. Len(s) :
                 \E j \in 1 .. Len(Picked(s, set)) : Picked(s, set)[j] = s[i]
<1> DEFINE T == {s[i] : i \in set \cap 1 .. Len(s)}
<1>1. PICK f : Picked(s, set) = f[Len(s)] /\ Picks(f, s, set, Len(s))
  BY Picking
<1> DEFINE Whole(n) == /\ f[n] \in Seq(T)
                       /\ \A i \in 1 .. n : i \in set =>
                             \E j \in 1 .. Len(f[n]) : f[n][j] = s[i]
           Bad == {n \in 0 .. Len(s) : ~Whole(n)}
<1>2. SUFFICES ASSUME Bad # {}
               PROVE  FALSE
  <2>1. Len(s) \in 0 .. Len(s)
    OBVIOUS
  <2>2. Bad = {} => Whole(Len(s))
    BY <2>1
  <2>3. QED
    BY <1>1, <2>2
<1>3. PICK m \in Bad : \A k \in Bad : ~(k < m)
  <2>1. Bad \subseteq Nat
    OBVIOUS
  <2>2. QED
    BY <1>2, <2>1, Least
<1>4. m # 0
  <2>1. f[0] = <<>>
    BY <1>1 DEF Picks
  <2>2. Whole(0)
    BY <2>1
  <2>3. QED
    BY <2>2
<1>5. /\ m - 1 \in 0 .. Len(s) /\ m - 1 < m /\ m \in 1 .. Len(s)
      /\ \A i \in 1 .. m : i \in 1 .. m - 1 \/ i = m
  BY <1>4
<1>6. Whole(m - 1)
  BY <1>3, <1>5
<1>7. f[m] = IF m \in set THEN Append(f[m - 1], s[m]) ELSE f[m - 1]
  BY <1>1, <1>5 DEF Picks
<1> HIDE DEF T
<1>8. f[m - 1] \in Seq(T)
  BY <1>6
<1>9. Whole(m)
  <2>1. CASE m \in set
    <3>1. s[m] \in T
      BY <1>5, <2>1 DEF T
    <3>2. PICK p \in Seq(T) : p = f[m - 1]
      BY <1>8
    <3>3. PICK x \in T : x = s[m]
      BY <3>1
    <3>4. f[m] = Append(p, x)
      BY <1>7, <2>1, <3>2, <3>3
    <3>5. /\ Append(p, x) \in Seq(T) /\ Len(Append(p, x)) = Len(p) + 1
          /\ Len(p) \in Nat /\ Append(p, x)[Len(p) + 1] = x
          /\ \A j \in 1 .. Len(p) : Append(p, x)[j] = p[j]
      OBVIOUS
    <3>6. \A i \in 1 .. m - 1 : i \in set =>
                \E j \in 1 .. Len(p) + 1 : Append(p, x)[j] = s[i]
      <4> SUFFICES ASSUME NEW i \in 1 .. m - 1, i \in set
                   PROVE  \E j \in 1 .. Len(p) + 1 : Append(p, x)[j] = s[i]
        OBVIOUS
      <4>1. PICK j \in 1 .. Len(p) : p[j] = s[i]
        BY <1>6, <3>2
      <4>2. j \in 1 .. Len(p) + 1 /\ Append(p, x)[j] = p[j]
        BY <3>5
      <4>3. QED
        BY <4>1, <4>2
    <3>7. \E j \in 1 .. Len(p) + 1 : Append(p, x)[j] = s[m]
      <4>1. Len(p) + 1 \in 1 .. Len(p) + 1
        BY <3>5
      <4>2. QED
        BY <3>3, <3>5, <4>1
    <3>8. \A i \in 1 .. m : i \in set =>
                \E j \in 1 .. Len(p) + 1 : Append(p, x)[j] = s[i]
      BY <1>5, <3>6, <3>7
    <3>9. QED
      BY <3>4, <3>5, <3>8
  <2>2. CASE m \notin set
    <3>1. f[m] = f[m - 1]
      BY <1>7, <2>2
    <3>2. \A i \in 1 .. m : i \in set => i \in 1 .. m - 1
      BY <1>5, <2>2
    <3>3. QED
      BY <1>6, <3>1, <3>2
  <2>3. QED
    BY <2>1, <2>2
<1>10. QED
  BY <1>3, <1>9

\* What is picked from a sequence over S is a sequence over any set that holds
\* what stands at the positions.
LEMMA PickedType ==
    ASSUME NEW s, NEW set, NEW T, Len(s) \in Nat,
           \A i \in 1 .. Len(s) : i \in set => s[i] \in T
    PROVE  /\ Picked(s, set) \in Seq(T)
           /\ \A j \in 1 .. Len(Picked(s, set)) :
                 \E i \in 1 .. Len(s) : i \in set /\ Picked(s, set)[j] = s[i]
<1>1. Picked(s, set) \in Seq({s[i] : i \in set \cap 1 .. Len(s)})
  BY PickedRange
<1>2. {s[i] : i \in set \cap 1 .. Len(s)} \subseteq T
  OBVIOUS
<1>3. Picked(s, set) \in Seq(T)
  <2>1. \A A, B : A \subseteq B => \A q \in Seq(A) : q \in Seq(B)
    OBVIOUS
  <2>2. QED
    BY <1>1, <1>2, <2>1
<1>4. \A j \in 1 .. Len(Picked(s, set)) :
          Picked(s, set)[j] \in {s[i] : i \in set \cap 1 .. Len(s)}
  <2>1. \A A : \A q \in Seq(A) : \A j \in 1 .. Len(q) : q[j] \in A
    OBVIOUS
  <2>2. QED
    BY <1>1, <2>1
<1>5. QED
  BY <1>3, <1>4

-----------------------------------------------------------------------------
(* Slices and append.                                                      *)

LEMMA ContentIs ==
    ASSUME NEW h \in Seq(Array), NEW s \in SomeSlice, Lies(h, s)
    PROVE  /\ Content(h, s) \in Array /\ Len(Content(h, s)) = s.len
           /\ s.array # 0 => /\ h[s.array] \in Array
                             /\ s.array \in 1 .. Len(h)
                             /\ s.len <= Len(h[s.array])
           /\ s.array = 0 => s.len = 0
           /\ \A i \in 1 .. s.len : Content(h, s)[i] = h[s.array][i]
<1>1. s.array \in Nat /\ s.len \in Nat
  BY DEF SomeSlice
<1>2. CASE s.array = 0
  <2>1. s.len = 0
    BY <1>1, <1>2 DEF Lies, Capacity
  <2>2. QED
    BY <1>2, <2>1 DEF Content, Array
<1>3. CASE s.array # 0
  <2>1. s.array \in 1 .. Len(h) /\ s.len <= Len(h[s.array])
    BY <1>1, <1>3 DEF Lies, Capacity
  <2>2. h[s.array] \in Array
    BY <2>1
  <2>3. PICK q \in Array : q = h[s.array]
    BY <2>2
  <2>4. Len(q) \in Nat /\ s.len <= Len(q)
    BY <2>1, <2>3 DEF Array
  <2>5. /\ SubSeq(q, 1, s.len) \in Array /\ Len(SubSeq(q, 1, s.len)) = s.len
        /\ \A i \in 1 .. s.len : SubSeq(q, 1, s.len)[i] = q[i]
    BY <1>1, <2>4 DEF Array
  <2>6. QED
    BY <1>3, <2>1, <2>2, <2>3, <2>5 DEF Content
<1>4. QED
  BY <1>2, <1>3

\* What a slice holds depends on its own array alone.
LEMMA ContentStays ==
    ASSUME NEW h, NEW g, NEW s,
           s.array # 0 => g[s.array] = h[s.array]
    PROVE  Content(g, s) = Content(h, s) /\ Capacity(g, s) = Capacity(h, s)
BY DEF Content, Capacity

\* What append leaves alone.
Spared(h, g, array) ==
    \A t \in SomeSlice :
        Lies(h, t) /\ (t.array # array \/ t.array = 0) =>
            Lies(g, t) /\ Content(g, t) = Content(h, t)

\* What append makes of a slice.
Grown(h, s, values, a) ==
    /\ a.heap \in Seq(Array) /\ Len(h) <= Len(a.heap)
    /\ a.slice \in SomeSlice /\ Lies(a.heap, a.slice)
    /\ Content(a.heap, a.slice) = Content(h, s) \o values

LEMMA AppendedNothing ==
    ASSUME NEW h \in Seq(Array), NEW s \in SomeSlice, Lies(h, s), NEW spare \in Nat,
           NEW a, a = Appended(h, s, <<>>, spare)
    PROVE  a.heap = h /\ a.slice = s
BY DEF Appended

LEMMA AppendedInPlace ==
    ASSUME NEW h \in Seq(Array), NEW s \in SomeSlice, Lies(h, s),
           NEW values \in Seq(Handlers), NEW spare \in Nat,
           values # <<>>, s.len + Len(values) <= Capacity(h, s),
           NEW a, a = Appended(h, s, values, spare)
    PROVE  /\ Grown(h, s, values, a) /\ a.slice.array = s.array
           /\ Spared(h, a.heap, s.array)
<1>1. Len(values) \in Nat /\ Len(values) > 0 /\ s.len \in Nat /\ s.array \in Nat
  BY DEF SomeSlice
<1>2. s.array # 0
  BY <1>1, ContentIs DEF Capacity
<1>3. s.array \in 1 .. Len(h) /\ h[s.array] \in Array
  BY <1>2, ContentIs
<1>4. PICK q \in Array : q = h[s.array]
  BY <1>3
<1>5. PICK n \in Nat : n = s.len + Len(values)
  BY <1>1
<1>6. n <= Len(q) /\ Len(q) \in Nat /\ DOMAIN q = 1 .. Len(q)
  BY <1>2, <1>4, <1>5 DEF Capacity, Array
<1> DEFINE p == [i \in DOMAIN q |->
                    IF i \in s.len + 1 .. n THEN values[i - s.len] ELSE q[i]]
<1>7. /\ p \in Array /\ Len(p) = Len(q)
      /\ \A i \in 1 .. s.len : p[i] = q[i]
      /\ \A i \in s.len + 1 .. n : p[i] = values[i - s.len]
  <2>1. \A i \in DOMAIN q : p[i] \in Handlers \cup {Nothing}
    <3> SUFFICES ASSUME NEW i \in DOMAIN q
                 PROVE  p[i] \in Handlers \cup {Nothing}
      OBVIOUS
    <3>1. CASE i \in s.len + 1 .. n
      <4>1. i - s.len \in 1 .. Len(values)
        BY <1>1, <1>5, <3>1
      <4>2. QED
        BY <3>1, <4>1
    <3>2. CASE i \notin s.len + 1 .. n
      BY <3>2 DEF Array
    <3>3. QED
      BY <3>1, <3>2
  <2>2. p \in [1 .. Len(q) -> Handlers \cup {Nothing}]
    BY <1>6, <2>1
  <2>3. p \in Array /\ Len(p) = Len(q)
    BY <1>6, <2>2 DEF Array
  <2>4. /\ \A i \in 1 .. s.len : i \in DOMAIN q /\ i \notin s.len + 1 .. n
        /\ \A i \in s.len + 1 .. n : i \in DOMAIN q
    BY <1>1, <1>5, <1>6
  <2>5. QED
    BY <2>3, <2>4
<1>8. a = [heap |-> [h EXCEPT ![s.array] = p], slice |-> [s EXCEPT !.len = n]]
  BY <1>4, <1>5 DEF Appended
<1> HIDE DEF p
<1>9. /\ a.heap = [h EXCEPT ![s.array] = p] /\ a.slice = [s EXCEPT !.len = n]
  BY <1>8
<1>10. PICK g : g = [h EXCEPT ![s.array] = p]
  OBVIOUS
<1>11. /\ g \in Seq(Array) /\ Len(g) = Len(h) /\ g[s.array] = p
       /\ \A i \in 1 .. Len(h) : i # s.array => g[i] = h[i]
  BY <1>3, <1>7, <1>10
<1>12. PICK t \in SomeSlice : t = [s EXCEPT !.len = n]
  BY DEF SomeSlice
<1>13. t.array = s.array /\ t.len = n
  BY <1>12 DEF SomeSlice
<1>14. Lies(g, t)
  BY <1>2, <1>3, <1>6, <1>7, <1>11, <1>13 DEF Lies, Capacity
<1>15. Content(g, t) = Content(h, s) \o values
  <2>1. PICK x \in Array : x = Content(g, t)
    BY <1>11, <1>14, ContentIs
  <2>2. Len(x) = n /\ \A i \in 1 .. n : x[i] = p[i]
    <3>1. /\ Len(Content(g, t)) = t.len
          /\ \A i \in 1 .. t.len : Content(g, t)[i] = g[t.array][i]
      BY <1>11, <1>14, ContentIs
    <3>2. QED
      BY <1>11, <1>13, <2>1, <3>1
  <2>3. PICK y \in Array : y = Content(h, s)
    BY ContentIs
  <2>4. Len(y) = s.len /\ \A i \in 1 .. s.len : y[i] = q[i]
    BY <1>4, <2>3, ContentIs
  <2>5. PICK z \in Array : z = y \o values
    <3>1. /\ y \in Seq(Handlers \cup {Nothing})
          /\ values \in Seq(Handlers \cup {Nothing})
      BY DEF Array
    <3>2. y \o values \in Seq(Handlers \cup {Nothing})
      BY <3>1, ConcatProperties
    <3>3. QED
      BY <3>2 DEF Array
  <2>6. /\ Len(z) = n
        /\ \A i \in 1 .. s.len : z[i] = y[i]
        /\ \A i \in s.len + 1 .. n : z[i] = values[i - s.len]
    <3>1. /\ y \in Seq(Handlers \cup {Nothing})
          /\ values \in Seq(Handlers \cup {Nothing})
      BY DEF Array
    <3>2. /\ Len(z) = Len(y) + Len(values)
          /\ \A i \in 1 .. Len(y) + Len(values) :
                z[i] = IF i <= Len(y) THEN y[i] ELSE values[i - Len(y)]
      BY <2>5, <3>1, ConcatProperties
    <3>3. /\ \A i \in 1 .. s.len : i \in 1 .. n /\ i <= s.len
          /\ \A i \in s.len + 1 .. n : i \in 1 .. n /\ ~(i <= s.len)
      BY <1>1, <1>5
    <3>4. QED
      BY <1>5, <2>4, <3>2, <3>3
  <2>7. \A i \in 1 .. n : i \in 1 .. s.len \/ i \in s.len + 1 .. n
    BY <1>1, <1>5
  <2>8. \A i \in 1 .. n : x[i] = z[i]
    BY <1>7, <2>2, <2>4, <2>6, <2>7
  <2>9. x = z
    BY <2>2, <2>6, <2>8, SeqEqual DEF Array
  <2>10. QED
    BY <2>1, <2>3, <2>5, <2>9
<1>16. Spared(h, g, s.array)
  <2> SUFFICES ASSUME NEW u \in SomeSlice, Lies(h, u),
                      u.array # s.array \/ u.array = 0
               PROVE  Lies(g, u) /\ Content(g, u) = Content(h, u)
    BY DEF Spared
  <2>1. u.array # 0 => g[u.array] = h[u.array]
    BY <1>2, <1>11, ContentIs
  <2>2. QED
    BY <1>11, <2>1, ContentStays DEF Lies
<1>17. QED
  <2>1. a.heap = g /\ a.slice = t
    BY <1>9, <1>10, <1>12
  <2>2. Len(h) <= Len(g)
    BY <1>11
  <2>3. Grown(h, s, values, a)
    BY <1>11, <1>14, <1>15, <2>1, <2>2 DEF Grown
  <2>4. QED
    BY <1>13, <1>16, <2>1, <2>3

LEMMA AppendedElsewhere ==
    ASSUME NEW h \in Seq(Array), NEW s \in SomeSlice, Lies(h, s),
           NEW values \in Seq(Handlers), NEW spare \in Nat,
           values # <<>>, ~(s.len + Len(values) <= Capacity(h, s)),
           NEW a, a = Appended(h, s, values, spare)
    PROVE  /\ Grown(h, s, values, a) /\ a.slice.array = Len(h) + 1
           /\ \A array : Spared(h, a.heap, array)
<1>1. PICK y \in Array : y = Content(h, s)
  BY ContentIs
<1>2. Len(y) = s.len /\ s.len \in Nat /\ Len(h) \in Nat
  BY <1>1, ContentIs DEF SomeSlice
<1>3. /\ y \in Seq(Handlers \cup {Nothing})
      /\ values \in Seq(Handlers \cup {Nothing})
      /\ Len(values) \in Nat
  BY DEF Array
<1>4. PICK z \in Array : z = y \o values
  <2>1. y \o values \in Seq(Handlers \cup {Nothing})
    BY <1>3, ConcatProperties
  <2>2. QED
    BY <2>1 DEF Array
<1>5. PICK n \in Nat : n = s.len + Len(values)
  BY <1>2, <1>3
<1>6. Len(z) = n /\ z \in Seq(Handlers \cup {Nothing})
  <2>1. Len(y \o values) = Len(y) + Len(values)
    BY <1>3, ConcatProperties
  <2>2. QED
    BY <1>2, <1>4, <1>5, <2>1 DEF Array
<1>7. PICK room \in Array : room = [i \in 1 .. spare |-> Nothing]
  <2>1. [i \in 1 .. spare |-> Nothing] \in [1 .. spare -> Handlers \cup {Nothing}]
    OBVIOUS
  <2>2. [i \in 1 .. spare |-> Nothing] \in Seq(Handlers \cup {Nothing})
    BY <2>1
  <2>3. QED
    BY <2>2 DEF Array
<1>8. PICK p \in Array : p = z \o room
  <2>1. room \in Seq(Handlers \cup {Nothing})
    BY DEF Array
  <2>2. z \o room \in Seq(Handlers \cup {Nothing})
    BY <1>6, <2>1, ConcatProperties
  <2>3. QED
    BY <2>2 DEF Array
<1>9. Len(p) \in Nat /\ n <= Len(p) /\ \A i \in 1 .. n : p[i] = z[i]
  <2>1. room \in Seq(Handlers \cup {Nothing}) /\ Len(room) \in Nat
    BY DEF Array
  <2>2. /\ Len(p) = n + Len(room)
        /\ \A i \in 1 .. n + Len(room) :
              p[i] = IF i <= n THEN z[i] ELSE room[i - n]
    BY <1>6, <1>8, <2>1, ConcatProperties
  <2>3. QED
    BY <2>1, <2>2
<1>10. PICK g \in Seq(Array) : g = Append(h, p)
  BY AppendProperties
<1>11. /\ Len(g) = Len(h) + 1 /\ g[Len(h) + 1] = p
       /\ \A i \in 1 .. Len(h) : g[i] = h[i]
  BY <1>10
<1>12. PICK t \in SomeSlice : t = [array |-> Len(h) + 1, len |-> n]
  <2>1. Len(h) + 1 \in Nat
    BY <1>2
  <2>2. [array |-> Len(h) + 1, len |-> n] \in SomeSlice
    BY <2>1 DEF SomeSlice
  <2>3. QED
    BY <2>2
<1>13. t.array = Len(h) + 1 /\ t.len = n /\ t.array # 0
  BY <1>2, <1>12
<1>14. a = [heap |-> g, slice |-> t]
  BY <1>1, <1>4, <1>5, <1>7, <1>8, <1>10, <1>12 DEF Appended
<1>15. Lies(g, t)
  BY <1>2, <1>9, <1>11, <1>13 DEF Lies, Capacity
<1>16. Content(g, t) = z
  <2>1. PICK x \in Array : x = Content(g, t)
    BY <1>15, ContentIs
  <2>2. Len(x) = n /\ \A i \in 1 .. n : x[i] = p[i]
    <3>1. /\ Len(Content(g, t)) = t.len
          /\ \A i \in 1 .. t.len : Content(g, t)[i] = g[t.array][i]
      BY <1>15, ContentIs
    <3>2. QED
      BY <1>11, <1>13, <2>1, <3>1
  <2>3. x \in Seq(Handlers \cup {Nothing})
    BY DEF Array
  <2>4. x = z
    BY <1>6, <1>9, <2>2, <2>3, SeqEqual
  <2>5. QED
    BY <2>1, <2>4
<1>17. ASSUME NEW array
       PROVE  Spared(h, g, array)
  <2> SUFFICES ASSUME NEW u \in SomeSlice, Lies(h, u)
               PROVE  Lies(g, u) /\ Content(g, u) = Content(h, u)
    BY DEF Spared
  <2>1. u.array # 0 => g[u.array] = h[u.array]
    BY <1>11, ContentIs
  <2>2. u.array \in 0 .. Len(g)
    BY <1>2, <1>11 DEF Lies
  <2>3. QED
    BY <2>1, <2>2, ContentStays DEF Lies
<1>18. a.heap = g /\ a.slice = t
  BY <1>14
<1>19. QED
  BY <1>1, <1>2, <1>4, <1>10, <1>11, <1>13, <1>15, <1>16, <1>17, <1>18 DEF Grown

\* append puts the values behind what the slice holds, in the array of the slice
\* or in one of its own, and leaves every other array alone.
LEMMA AppendedSlice ==
    ASSUME NEW h \in Seq(Array), NEW s \in SomeSlice, Lies(h, s),
           NEW values \in Seq(Handlers), NEW spare \in Nat,
           NEW a, a = Appended(h, s, values, spare)
    PROVE  /\ Grown(h, s, values, a) /\ Spared(h, a.heap, s.array)
           /\ a.slice.array = s.array \/ a.slice.array = Len(h) + 1
<1>1. CASE values = <<>>
  <2>1. a.heap = h /\ a.slice = s
    BY <1>1, AppendedNothing
  <2>2. PICK y \in Array : y = Content(h, s)
    BY ContentIs
  <2>3. y \o <<>> = y
    BY ConcatEmptySeq DEF Array
  <2>4. QED
    BY <1>1, <2>1, <2>2, <2>3 DEF Spared, Grown
<1>2. CASE values # <<>> /\ s.len + Len(values) <= Capacity(h, s)
  BY <1>2, AppendedInPlace
<1>3. CASE values # <<>> /\ ~(s.len + Len(values) <= Capacity(h, s))
  BY <1>3, AppendedElsewhere
<1>4. QED
  BY <1>1, <1>2, <1>3

LEMMA EmptySlice ==
    ASSUME NEW h \in Seq(Array)
    PROVE  /\ NoSlice \in SomeSlice /\ Lies(h, NoSlice) /\ NoSlice.array = 0
           /\ Content(h, NoSlice) = <<>>
BY DEF NoSlice, SomeSlice, Lies, Capacity, Content

\* What register and Group start from is in an array that nobody else has.
LEMMA CopiedSlice ==
    ASSUME NEW h \in Seq(Array), NEW s \in SomeSlice, Lies(h, s),
           Content(h, s) \in Seq(Handlers),
           NEW values \in Seq(Handlers), NEW spare \in Nat,
           NEW a, a = RouteMiddleware(h, s, values, spare)
    PROVE  /\ Grown(h, s, values, a) /\ Spared(h, a.heap, 0)
           /\ a.slice.array = 0 \/ a.slice.array > Len(h)
<1>1. PICK x \in Seq(Handlers) : x = Content(h, s)
  OBVIOUS
<1>2. PICK copy : copy = Appended(h, NoSlice, x, spare)
  OBVIOUS
<1>3. /\ Grown(h, NoSlice, x, copy) /\ Spared(h, copy.heap, 0)
      /\ copy.slice.array = 0 \/ copy.slice.array = Len(h) + 1
  <2>1. PICK none \in SomeSlice : none = NoSlice
    BY EmptySlice
  <2>2. /\ Lies(h, none) /\ none.array = 0
        /\ copy = Appended(h, none, x, spare)
    BY <1>2, <2>1, EmptySlice
  <2>3. /\ Grown(h, none, x, copy) /\ Spared(h, copy.heap, none.array)
        /\ copy.slice.array = none.array \/ copy.slice.array = Len(h) + 1
    BY <2>2, AppendedSlice, Z3T(30)
  <2>4. QED
    BY <2>1, <2>2, <2>3
<1>4. /\ copy.heap \in Seq(Array) /\ Len(h) <= Len(copy.heap)
      /\ copy.slice \in SomeSlice /\ Lies(copy.heap, copy.slice)
      /\ Content(copy.heap, copy.slice) = x
  BY <1>3, EmptySlice, ConcatEmptySeq DEF Grown
<1>5. a = Appended(copy.heap, copy.slice, values, spare)
  BY <1>1, <1>2 DEF RouteMiddleware
<1>6. /\ Grown(copy.heap, copy.slice, values, a)
      /\ Spared(copy.heap, a.heap, copy.slice.array)
      /\ \/ a.slice.array = copy.slice.array
         \/ a.slice.array = Len(copy.heap) + 1
  <2>1. PICK g \in Seq(Array), t \in SomeSlice : g = copy.heap /\ t = copy.slice
    BY <1>4
  <2>2. Lies(g, t) /\ a = Appended(g, t, values, spare)
    BY <1>4, <1>5, <2>1
  <2>3. /\ Grown(g, t, values, a) /\ Spared(g, a.heap, t.array)
        /\ a.slice.array = t.array \/ a.slice.array = Len(g) + 1
    BY <2>2, AppendedSlice, Z3T(30)
  <2>4. QED
    BY <2>1, <2>3
<1>7. Len(h) \in Nat /\ Len(copy.heap) \in Nat /\ Len(a.heap) \in Nat
  BY <1>4, <1>6 DEF Grown
<1>8. Spared(h, a.heap, 0)
  <2> SUFFICES ASSUME NEW u \in SomeSlice, Lies(h, u)
               PROVE  Lies(a.heap, u) /\ Content(a.heap, u) = Content(h, u)
    BY DEF Spared
  <2>1. Lies(copy.heap, u) /\ Content(copy.heap, u) = Content(h, u)
    BY <1>3 DEF Spared
  <2>2. u.array # copy.slice.array \/ u.array = 0
    BY <1>3, <1>7 DEF Lies
  <2>3. QED
    BY <1>6, <2>1, <2>2 DEF Spared
<1>9. Grown(h, s, values, a)
  BY <1>1, <1>4, <1>6, <1>7 DEF Grown
<1>10. QED
  BY <1>3, <1>4, <1>6, <1>7, <1>8, <1>9

-----------------------------------------------------------------------------
(* The groups of a callback, their routes and what these hold.             *)

\* The slice of a group or of a route holds what it is owed.
Held(h, x) == Lies(h, x.middleware) /\ Content(h, x.middleware) = x.owed

\* Every group but the first is below an earlier one.
Below(i) ==
    /\ groups[i].parent \in 0 .. i - 1
    /\ i # 1 => groups[i].parent # 0

\* No other group and no route shares the array of group i.
Alone(i) ==
    groups[i].middleware.array # 0 =>
        /\ \A j \in DOMAIN groups :
              j # i => groups[j].middleware.array # groups[i].middleware.array
        /\ \A j \in DOMAIN routes :
              routes[j].middleware.array # groups[i].middleware.array

GroupsOK ==
    /\ heap \in Seq(Array) /\ groups \in Seq(SomeGroup) /\ routes \in Seq(GroupRoute)
    /\ \A i \in DOMAIN groups :
          Below(i) /\ Held(heap, groups[i]) /\ Alone(i)
    /\ \A i \in DOMAIN routes : routes[i].group \in DOMAIN groups /\ Held(heap, routes[i])
    /\ toVisit \in Seq(DOMAIN groups) /\ (toVisit # <<>> => phase = "visiting")
    /\ phase \in {"callback", "visiting"} => groups # <<>>

LEMMA GroupsFrame ==
    ASSUME GroupsOK, UNCHANGED <<groups, routes, heap, toVisit>>,
           phase' = phase \/ (phase' \notin {"callback", "visiting"} /\ phase # "visiting")
    PROVE  GroupsOK'
BY DEF GroupsOK, Alone, Below

LEMMA GroupTypes ==
    ASSUME GroupsOK
    PROVE  /\ Len(groups) \in Nat /\ DOMAIN groups = 1 .. Len(groups)
           /\ Len(routes) \in Nat /\ DOMAIN routes = 1 .. Len(routes)
           /\ Len(heap) \in Nat
           /\ \A i \in DOMAIN groups :
                 /\ groups[i] \in SomeGroup /\ groups[i].middleware \in SomeSlice
                 /\ groups[i].prefix \in Path /\ groups[i].owed \in Seq(Handlers)
                 /\ Lies(heap, groups[i].middleware)
                 /\ Content(heap, groups[i].middleware) = groups[i].owed
                 /\ groups[i].middleware.array \in 0 .. Len(heap)
           /\ \A i \in DOMAIN routes :
                 /\ routes[i] \in GroupRoute /\ routes[i].middleware \in SomeSlice
                 /\ routes[i].owed \in Seq(Handlers)
                 /\ routes[i].method \in Methods /\ routes[i].path \in Path
                 /\ Lies(heap, routes[i].middleware)
                 /\ Content(heap, routes[i].middleware) = routes[i].owed
                 /\ routes[i].middleware.array \in 0 .. Len(heap)
<1>1. /\ heap \in Seq(Array) /\ groups \in Seq(SomeGroup) /\ routes \in Seq(GroupRoute)
      /\ \A i \in DOMAIN groups : Held(heap, groups[i])
      /\ \A i \in DOMAIN routes : Held(heap, routes[i])
  BY DEF GroupsOK
<1>2. /\ Len(groups) \in Nat /\ DOMAIN groups = 1 .. Len(groups)
      /\ Len(routes) \in Nat /\ DOMAIN routes = 1 .. Len(routes)
      /\ Len(heap) \in Nat
  BY <1>1, LenProperties
<1>3. \A i \in DOMAIN groups :
          /\ groups[i] \in SomeGroup /\ groups[i].middleware \in SomeSlice
          /\ groups[i].prefix \in Path /\ groups[i].owed \in Seq(Handlers)
  <2>1. \A i \in DOMAIN groups : groups[i] \in SomeGroup
    BY <1>1, ElementOfSeq, <1>2
  <2>2. QED
    BY <2>1 DEF SomeGroup
<1>4. \A i \in DOMAIN routes :
          /\ routes[i] \in GroupRoute /\ routes[i].middleware \in SomeSlice
          /\ routes[i].owed \in Seq(Handlers)
          /\ routes[i].method \in Methods /\ routes[i].path \in Path
  <2>1. \A i \in DOMAIN routes : routes[i] \in GroupRoute
    BY <1>1, ElementOfSeq, <1>2
  <2>2. QED
    BY <2>1 DEF GroupRoute
<1>5. \A i \in DOMAIN groups :
          /\ Lies(heap, groups[i].middleware)
          /\ Content(heap, groups[i].middleware) = groups[i].owed
          /\ groups[i].middleware.array \in 0 .. Len(heap)
  BY <1>1 DEF Held, Lies
<1>6. \A i \in DOMAIN routes :
          /\ Lies(heap, routes[i].middleware)
          /\ Content(heap, routes[i].middleware) = routes[i].owed
          /\ routes[i].middleware.array \in 0 .. Len(heap)
  BY <1>1 DEF Held, Lies
<1>7. QED
  BY <1>2, <1>3, <1>4, <1>5, <1>6

\* A new group or route, whose slice is a copy.
LEMMA Copying ==
    ASSUME GroupsOK, NEW g \in DOMAIN groups, NEW values \in Seq(Handlers),
           NEW spare \in Spares,
           NEW a, a = RouteMiddleware(heap, groups[g].middleware, values, spare),
           heap' = a.heap
    PROVE  /\ heap' \in Seq(Array) /\ Len(heap) <= Len(heap') /\ Len(heap') \in Nat
           /\ a.slice \in SomeSlice /\ Lies(heap', a.slice)
           /\ a.slice.array = 0 \/ a.slice.array > Len(heap)
           /\ Content(heap', a.slice) = groups[g].owed \o values
           /\ groups[g].owed \o values \in Seq(Handlers)
           /\ \A i \in DOMAIN groups : Held(heap', groups[i])
           /\ \A i \in DOMAIN routes : Held(heap', routes[i])
<1>1. spare \in Nat /\ heap \in Seq(Array)
  BY BoundsAssumption DEF GroupsOK
<1>2. PICK s \in SomeSlice : s = groups[g].middleware
  BY GroupTypes
<1>3. Lies(heap, s) /\ Content(heap, s) = groups[g].owed /\ groups[g].owed \in Seq(Handlers)
  BY <1>2, GroupTypes
<1>4. a = RouteMiddleware(heap, s, values, spare)
  BY <1>2
<1>5. /\ Grown(heap, s, values, a) /\ Spared(heap, a.heap, 0)
      /\ a.slice.array = 0 \/ a.slice.array > Len(heap)
  BY <1>1, <1>3, <1>4, CopiedSlice, Z3T(30)
<1>6. /\ heap' \in Seq(Array) /\ Len(heap) <= Len(heap')
      /\ a.slice \in SomeSlice /\ Lies(heap', a.slice)
      /\ Content(heap', a.slice) = groups[g].owed \o values
  BY <1>3, <1>5 DEF Grown
<1>7. groups[g].owed \o values \in Seq(Handlers)
  BY <1>3, ConcatProperties
<1>8. /\ \A i \in DOMAIN groups : Held(heap', groups[i])
      /\ \A i \in DOMAIN routes : Held(heap', routes[i])
  BY <1>5, GroupTypes DEF Spared, Held
<1>9. Len(heap') \in Nat
  BY <1>6
<1>10. QED
  BY <1>5, <1>6, <1>7, <1>8, <1>9

LEMMA RegisterGroups ==
    ASSUME GroupsOK, NEW g \in DOMAIN groups, NEW method \in Methods, NEW part \in Parts,
           NEW values \in Seq(Handlers), Register(g, method, part, values)
    PROVE  /\ GroupsOK'
           /\ Len(routes') = Len(routes) + 1
           /\ \A i \in DOMAIN routes : i \in DOMAIN routes' /\ routes'[i] = routes[i]
           /\ \E i \in DOMAIN routes' :
                 /\ routes'[i].method = method
                 /\ routes'[i].path = Append(groups[g].prefix, part)
<1>1. PICK spare, a :
         /\ spare \in Spares
         /\ a = RouteMiddleware(heap, groups[g].middleware, values, spare)
         /\ heap' = a.heap
         /\ routes' = Append(routes,
                [method |-> method, path |-> Append(groups[g].prefix, part), group |-> g,
                 middleware |-> a.slice, owed |-> groups[g].owed \o values])
  BY DEF Register
<1>2. /\ phase = "callback" /\ UNCHANGED <<phase, groups, toVisit>>
  BY DEF Register, Op
<1>3. /\ heap' \in Seq(Array) /\ Len(heap) <= Len(heap') /\ Len(heap') \in Nat
      /\ a.slice \in SomeSlice /\ Lies(heap', a.slice)
      /\ a.slice.array = 0 \/ a.slice.array > Len(heap)
      /\ Content(heap', a.slice) = groups[g].owed \o values
      /\ groups[g].owed \o values \in Seq(Handlers)
      /\ \A i \in DOMAIN groups : Held(heap', groups[i])
      /\ \A i \in DOMAIN routes : Held(heap', routes[i])
  BY <1>1, Copying
<1>4. PICK r \in GroupRoute :
         r = [method |-> method, path |-> Append(groups[g].prefix, part), group |-> g,
              middleware |-> a.slice, owed |-> groups[g].owed \o values]
  <2>1. g \in Nat /\ groups[g].prefix \in Path
    BY GroupTypes
  <2>2. Append(groups[g].prefix, part) \in Path
    BY <2>1, AppendProperties DEF Path
  <2>3. [method |-> method, path |-> Append(groups[g].prefix, part), group |-> g,
         middleware |-> a.slice, owed |-> groups[g].owed \o values] \in GroupRoute
    BY <1>3, <2>1, <2>2 DEF GroupRoute
  <2>4. QED
    BY <2>3
<1>5. /\ r.method = method /\ r.path = Append(groups[g].prefix, part)
      /\ r.group = g /\ r.middleware = a.slice /\ Held(heap', r)
  BY <1>3, <1>4 DEF Held
<1>6. routes \in Seq(GroupRoute) /\ Len(routes) \in Nat /\ DOMAIN routes = 1 .. Len(routes)
  BY GroupTypes DEF GroupsOK
<1>7. routes' = Append(routes, r)
  BY <1>1, <1>4
<1>8. /\ routes' \in Seq(GroupRoute) /\ Len(routes') = Len(routes) + 1
      /\ DOMAIN routes' = 1 .. Len(routes) + 1
      /\ \A i \in DOMAIN routes : i \in DOMAIN routes' /\ routes'[i] = routes[i]
      /\ routes'[Len(routes) + 1] = r
  BY <1>6, <1>7
<1>9. \A i \in DOMAIN routes' : i \in DOMAIN routes \/ (i = Len(routes) + 1 /\ routes'[i] = r)
  BY <1>6, <1>8
<1>10. \A i \in DOMAIN groups :
           Below(i)' /\ Held(heap', groups'[i]) /\ Alone(i)'
  <2> SUFFICES ASSUME NEW i \in DOMAIN groups
               PROVE  Below(i) /\ Held(heap', groups[i]) /\ Alone(i)'
    BY <1>2 DEF Below
  <2>1. Below(i) /\ Alone(i)
    BY DEF GroupsOK
  <2>2. groups[i].middleware.array \in 0 .. Len(heap)
    BY GroupTypes
  <2>3. groups[i].middleware.array # 0 => r.middleware.array # groups[i].middleware.array
    BY <1>3, <1>5, <2>2
  <2>4. Alone(i)'
    BY <1>2, <1>8, <1>9, <2>1, <2>3 DEF Alone
  <2>5. QED
    BY <1>3, <2>1, <2>4
<1>11. \A i \in DOMAIN routes' : routes'[i].group \in DOMAIN groups' /\ Held(heap', routes'[i])
  BY <1>2, <1>3, <1>5, <1>8, <1>9 DEF GroupsOK
<1>12. GroupsOK'
  BY <1>2, <1>3, <1>8, <1>10, <1>11 DEF GroupsOK
<1>13. Len(routes) + 1 \in DOMAIN routes'
  BY <1>6, <1>8
<1>14. QED
  BY <1>5, <1>8, <1>12, <1>13

LEMMA UseGroups ==
    ASSUME GroupsOK, NEW g \in DOMAIN groups, NEW values \in Seq(Handlers), Use(g, values)
    PROVE  GroupsOK'
<1>1. PICK spare, a :
         /\ spare \in Spares
         /\ a = Appended(heap, groups[g].middleware, values, spare)
         /\ heap' = a.heap
         /\ groups' = [groups EXCEPT ![g].middleware = a.slice, ![g].owed = @ \o values]
  BY DEF Use
<1>2. /\ phase = "callback" /\ UNCHANGED <<phase, routes, toVisit>>
  BY DEF Use, Op
<1>3. /\ Len(groups) \in Nat /\ DOMAIN groups = 1 .. Len(groups) /\ Len(heap) \in Nat
      /\ DOMAIN routes = 1 .. Len(routes) /\ groups[g] \in SomeGroup
      /\ groups[g].owed \in Seq(Handlers) /\ groups \in Seq(SomeGroup)
  BY GroupTypes DEF GroupsOK
<1>4. PICK s \in SomeSlice : s = groups[g].middleware
  BY GroupTypes
<1>5. Lies(heap, s) /\ Content(heap, s) = groups[g].owed /\ s.array \in 0 .. Len(heap)
  BY <1>4, GroupTypes
<1>6. /\ Grown(heap, s, values, a) /\ Spared(heap, a.heap, s.array)
      /\ a.slice.array = s.array \/ a.slice.array = Len(heap) + 1
  <2>1. spare \in Nat /\ heap \in Seq(Array)
    BY <1>1, BoundsAssumption DEF GroupsOK
  <2>2. a = Appended(heap, s, values, spare)
    BY <1>1, <1>4
  <2>3. QED
    BY <1>5, <2>1, <2>2, AppendedSlice, Z3T(30)
<1>7. PICK owed \in Seq(Handlers) : owed = groups[g].owed \o values
  BY <1>3, ConcatProperties
<1>8. /\ heap' \in Seq(Array) /\ Len(heap) <= Len(heap')
      /\ a.slice \in SomeSlice /\ Lies(heap', a.slice) /\ Content(heap', a.slice) = owed
  BY <1>1, <1>5, <1>6, <1>7 DEF Grown
<1>9. PICK x \in SomeGroup :
         /\ x = [groups[g] EXCEPT !.middleware = a.slice, !.owed = owed]
         /\ x.middleware = a.slice /\ x.owed = owed /\ x.parent = groups[g].parent
  <2>1. PICK y \in SomeGroup : y = groups[g]
    BY <1>3
  <2>2. [y EXCEPT !.middleware = a.slice, !.owed = owed] \in SomeGroup
    BY <1>8 DEF SomeGroup
  <2>3. /\ [y EXCEPT !.middleware = a.slice, !.owed = owed].middleware = a.slice
        /\ [y EXCEPT !.middleware = a.slice, !.owed = owed].owed = owed
        /\ [y EXCEPT !.middleware = a.slice, !.owed = owed].parent = y.parent
    BY DEF SomeGroup
  <2>4. QED
    BY <2>1, <2>2, <2>3
<1>10. groups' = [groups EXCEPT ![g] = x]
  BY <1>1, <1>7, <1>9
<1>11. /\ groups' \in Seq(SomeGroup) /\ DOMAIN groups' = DOMAIN groups
       /\ groups'[g] = x /\ Len(groups') = Len(groups)
       /\ \A i \in DOMAIN groups : i # g => groups'[i] = groups[i]
  BY <1>3, <1>10
<1>12. ASSUME NEW t, t \in SomeSlice, Lies(heap, t), t.array # s.array \/ t.array = 0
       PROVE  Lies(heap', t) /\ Content(heap', t) = Content(heap, t)
  BY <1>1, <1>6, <1>12 DEF Spared
<1>13. ASSUME NEW i \in DOMAIN groups
       PROVE  Held(heap', groups'[i])
  <2>1. CASE i = g
    BY <1>8, <1>9, <1>11, <2>1 DEF Held
  <2>2. CASE i # g
    <3>1. groups[i].middleware.array # s.array \/ groups[i].middleware.array = 0
      BY <1>4, <2>2 DEF GroupsOK, Alone
    <3>2. /\ groups[i].middleware \in SomeSlice /\ Lies(heap, groups[i].middleware)
          /\ Content(heap, groups[i].middleware) = groups[i].owed
      BY GroupTypes
    <3>3. QED
      BY <1>11, <1>12, <2>2, <3>1, <3>2 DEF Held
  <2>3. QED
    BY <2>1, <2>2
<1>14. ASSUME NEW i \in DOMAIN routes
       PROVE  Held(heap', routes[i])
  <2>1. routes[i].middleware.array # s.array \/ routes[i].middleware.array = 0
    BY <1>4 DEF GroupsOK, Alone
  <2>2. /\ routes[i].middleware \in SomeSlice /\ Lies(heap, routes[i].middleware)
        /\ Content(heap, routes[i].middleware) = routes[i].owed
    BY GroupTypes
  <2>3. QED
    BY <1>12, <2>1, <2>2 DEF Held
<1>15. ASSUME NEW i \in DOMAIN groups
       PROVE  Alone(i)'
  <2>1. /\ \A j \in DOMAIN groups : groups[j].middleware.array \in 0 .. Len(heap)
        /\ \A j \in DOMAIN routes : routes[j].middleware.array \in 0 .. Len(heap)
    BY GroupTypes
  <2>2. Alone(i) /\ Alone(g)
    BY DEF GroupsOK
  <2>3. CASE i = g
    <3>1. x.middleware.array # 0 =>
              /\ \A j \in DOMAIN groups :
                    j # g => groups[j].middleware.array # x.middleware.array
              /\ \A j \in DOMAIN routes : routes[j].middleware.array # x.middleware.array
      BY <1>3, <1>4, <1>6, <1>9, <2>1, <2>2 DEF Alone
    <3>2. QED
      BY <1>2, <1>11, <2>3, <3>1 DEF Alone
  <2>4. CASE i # g
    <3>1. groups'[i] = groups[i]
      BY <1>11, <2>4
    <3>2. groups[i].middleware.array # 0 =>
              x.middleware.array # groups[i].middleware.array
      BY <1>3, <1>4, <1>6, <1>9, <2>1, <2>2, <2>4 DEF Alone
    <3>3. QED
      BY <1>2, <1>11, <2>2, <3>1, <3>2 DEF Alone
  <2>5. QED
    BY <2>3, <2>4
<1>16. \A i \in DOMAIN groups : Below(i)'
  <2>1. \A i \in DOMAIN groups : groups'[i].parent = groups[i].parent
    BY <1>9, <1>11
  <2>2. \A i \in DOMAIN groups : Below(i)
    BY DEF GroupsOK
  <2>3. QED
    BY <2>1, <2>2 DEF Below
<1>17. groups' # <<>>
  BY <1>3, <1>11
<1>18. toVisit' \in Seq(DOMAIN groups')
  BY <1>2, <1>11 DEF GroupsOK
<1>19. \A i \in DOMAIN routes' : routes'[i].group \in DOMAIN groups'
  BY <1>2, <1>11 DEF GroupsOK
<1>20. QED
  BY <1>2, <1>8, <1>11, <1>13, <1>14, <1>15, <1>16, <1>17, <1>18, <1>19 DEF GroupsOK

LEMMA GroupGroups ==
    ASSUME GroupsOK, NEW g \in DOMAIN groups, NEW part \in Parts, Group(g, part)
    PROVE  GroupsOK'
<1> DEFINE none == <<>>
<1>1. PICK spare, a :
         /\ spare \in Spares
         /\ a = RouteMiddleware(heap, groups[g].middleware, none, spare)
         /\ heap' = a.heap
         /\ groups' = Append(groups,
                [prefix |-> Append(groups[g].prefix, part), middleware |-> a.slice,
                 parent |-> g, owed |-> groups[g].owed])
  BY DEF Group
<1>2. /\ phase = "callback" /\ UNCHANGED <<phase, routes, toVisit>>
  BY DEF Group, Op
<1>3. none \in Seq(Handlers)
  OBVIOUS
<1> HIDE DEF none
<1>4. /\ heap' \in Seq(Array) /\ Len(heap) <= Len(heap') /\ Len(heap') \in Nat
      /\ a.slice \in SomeSlice /\ Lies(heap', a.slice)
      /\ a.slice.array = 0 \/ a.slice.array > Len(heap)
      /\ Content(heap', a.slice) = groups[g].owed \o none
      /\ \A i \in DOMAIN groups : Held(heap', groups[i])
      /\ \A i \in DOMAIN routes : Held(heap', routes[i])
  BY <1>1, <1>3, Copying
<1>5. /\ g \in Nat /\ g # 0 /\ groups[g].prefix \in Path /\ groups[g].owed \in Seq(Handlers)
      /\ groups \in Seq(SomeGroup) /\ Len(groups) \in Nat /\ Len(heap) \in Nat
      /\ DOMAIN groups = 1 .. Len(groups) /\ DOMAIN routes = 1 .. Len(routes)
  BY GroupTypes DEF GroupsOK
<1>6. Content(heap', a.slice) = groups[g].owed
  BY <1>4, <1>5, ConcatEmptySeq DEF none
<1>7. PICK x \in SomeGroup :
         x = [prefix |-> Append(groups[g].prefix, part), middleware |-> a.slice,
              parent |-> g, owed |-> groups[g].owed]
  <2>1. Append(groups[g].prefix, part) \in Path
    BY <1>5, AppendProperties DEF Path
  <2>2. [prefix |-> Append(groups[g].prefix, part), middleware |-> a.slice,
         parent |-> g, owed |-> groups[g].owed] \in SomeGroup
    BY <1>4, <1>5, <2>1 DEF SomeGroup
  <2>3. QED
    BY <2>2
<1>8. x.middleware = a.slice /\ x.parent = g /\ Held(heap', x)
  BY <1>4, <1>6, <1>7 DEF Held
<1>9. groups' = Append(groups, x)
  BY <1>1, <1>7
<1>10. /\ groups' \in Seq(SomeGroup) /\ Len(groups') = Len(groups) + 1
       /\ DOMAIN groups' = 1 .. Len(groups) + 1 /\ groups'[Len(groups) + 1] = x
       /\ \A i \in DOMAIN groups : i \in DOMAIN groups' /\ groups'[i] = groups[i]
  BY <1>5, <1>9
<1>11. \A i \in DOMAIN groups' :
           \/ i \in DOMAIN groups /\ groups'[i] = groups[i]
           \/ i = Len(groups) + 1 /\ groups'[i] = x /\ i \notin DOMAIN groups
  BY <1>5, <1>10
<1>12. /\ \A j \in DOMAIN groups : groups[j].middleware.array \in 0 .. Len(heap)
       /\ \A j \in DOMAIN routes : routes[j].middleware.array \in 0 .. Len(heap)
  BY GroupTypes
<1>13. ASSUME NEW i \in DOMAIN groups'
       PROVE  Alone(i)'
  <2>1. CASE i \in DOMAIN groups
    <3>1. groups'[i] = groups[i] /\ Alone(i)
      BY <1>11, <2>1 DEF GroupsOK
    <3>2. groups[i].middleware.array # 0 =>
              x.middleware.array # groups[i].middleware.array
      BY <1>4, <1>5, <1>8, <1>12, <2>1
    <3>3. QED
      BY <1>2, <1>11, <3>1, <3>2 DEF Alone
  <2>2. CASE i \notin DOMAIN groups
    <3>1. i = Len(groups) + 1 /\ groups'[i] = x
      BY <1>11, <2>2
    <3>2. x.middleware.array # 0 =>
              /\ \A j \in DOMAIN groups : groups[j].middleware.array # x.middleware.array
              /\ \A j \in DOMAIN routes : routes[j].middleware.array # x.middleware.array
      BY <1>4, <1>5, <1>8, <1>12
    <3>3. QED
      BY <1>2, <1>11, <3>1, <3>2 DEF Alone
  <2>3. QED
    BY <2>1, <2>2
<1>14. ASSUME NEW i \in DOMAIN groups'
       PROVE  Below(i)'
  <2>1. CASE i \in DOMAIN groups
    BY <1>11, <2>1 DEF GroupsOK, Below
  <2>2. CASE i \notin DOMAIN groups
    <3>1. i = Len(groups) + 1 /\ groups'[i].parent = g
      BY <1>8, <1>11, <2>2
    <3>2. QED
      BY <1>5, <3>1 DEF Below
  <2>3. QED
    BY <2>1, <2>2
<1>15. \A i \in DOMAIN groups' : Held(heap', groups'[i])
  BY <1>4, <1>8, <1>11
<1>16. \A i \in DOMAIN routes' :
           routes'[i].group \in DOMAIN groups' /\ Held(heap', routes'[i])
  BY <1>2, <1>4, <1>10 DEF GroupsOK
<1>17. toVisit' \in Seq(DOMAIN groups')
  <2>1. DOMAIN groups \subseteq DOMAIN groups' /\ toVisit \in Seq(DOMAIN groups)
    BY <1>10 DEF GroupsOK
  <2>2. \A A, B : A \subseteq B => \A q \in Seq(A) : q \in Seq(B)
    OBVIOUS
  <2>3. QED
    BY <1>2, <2>1, <2>2
<1>18. groups' # <<>>
  BY <1>5, <1>10
<1>19. QED
  BY <1>2, <1>4, <1>10, <1>13, <1>14, <1>15, <1>16, <1>17, <1>18 DEF GroupsOK

LEMMA StartGroupGroups ==
    ASSUME GroupsOK, entries \in Seq(Path), StartGroup
    PROVE  GroupsOK'
<1> DEFINE root == [prefix |-> Head(entries), middleware |-> NoSlice, parent |-> 0,
                    owed |-> <<>>]
<1>1. /\ phase = "mounting" /\ phase' = "callback" /\ entries # <<>>
      /\ groups' = <<root>> /\ routes' = <<>> /\ heap' = <<>> /\ toVisit' = toVisit
  BY DEF StartGroup
<1>2. toVisit' = <<>>
  BY <1>1 DEF GroupsOK
<1>3. heap' \in Seq(Array)
  BY <1>1
<1>4. root \in SomeGroup /\ root.parent = 0 /\ root.middleware.array = 0
  <2>1. Head(entries) \in Path
    BY <1>1, HeadTailProperties
  <2>2. QED
    BY <1>3, <2>1, EmptySlice DEF SomeGroup
<1>5. Held(heap', root)
  BY <1>3, EmptySlice DEF Held
<1> HIDE DEF root
<1>6. /\ groups' \in Seq(SomeGroup) /\ groups' # <<>> /\ DOMAIN groups' = {1}
      /\ groups'[1] = root
  BY <1>1, <1>4
<1>7. Below(1)' /\ Alone(1)'
  BY <1>4, <1>6 DEF Below, Alone
<1>8. routes' \in Seq(GroupRoute) /\ DOMAIN routes' = {} /\ toVisit' \in Seq(DOMAIN groups')
  BY <1>1, <1>2
<1>9. QED
  BY <1>1, <1>2, <1>3, <1>5, <1>6, <1>7, <1>8 DEF GroupsOK

LEMMA ReturnGroups ==
    ASSUME GroupsOK, CallbackReturns
    PROVE  GroupsOK'
<1>1. /\ phase = "callback" /\ phase' = "visiting" /\ toVisit' = << 1 >>
      /\ UNCHANGED <<groups, routes, heap>>
  BY DEF CallbackReturns
<1>2. 1 \in DOMAIN groups
  <2>1. groups # <<>> /\ groups \in Seq(SomeGroup)
    BY <1>1 DEF GroupsOK
  <2>2. QED
    BY <2>1
<1>3. toVisit' \in Seq(DOMAIN groups')
  BY <1>1, <1>2
<1>4. QED
  BY <1>1, <1>3 DEF GroupsOK, Alone, Below

\* The groups right below one.
LEMMA ChildrenAre ==
    ASSUME GroupsOK, NEW g
    PROVE  /\ Children(g) \in Seq(DOMAIN groups)
           /\ \A i \in DOMAIN groups : groups[i].parent = g =>
                 \E j \in DOMAIN Children(g) : Children(g)[j] = i
<1> DEFINE all == [i \in DOMAIN groups |-> i]
           set == {i \in DOMAIN groups : groups[i].parent = g}
<1>1. Len(groups) \in Nat /\ DOMAIN groups = 1 .. Len(groups)
  BY GroupTypes
<1>2. all \in Seq(DOMAIN groups) /\ Len(all) = Len(groups)
  BY <1>1
<1>3. \A i \in 1 .. Len(all) : all[i] = i /\ all[i] \in DOMAIN groups
  BY <1>1, <1>2
<1>4. Children(g) = Picked(all, set)
  BY DEF Children
<1>5. Len(all) \in Nat
  BY <1>1, <1>2
<1> HIDE DEF all, set
<1>6. Picked(all, set) \in Seq(DOMAIN groups)
  BY <1>3, <1>5, PickedType
<1>7. \A i \in set \cap 1 .. Len(all) :
          \E j \in 1 .. Len(Picked(all, set)) : Picked(all, set)[j] = all[i]
  BY <1>5, PickedRange, Zenon
<1>8. DOMAIN Children(g) = 1 .. Len(Children(g))
  BY <1>4, <1>6, LenProperties
<1>9. QED
  BY <1>1, <1>2, <1>3, <1>4, <1>6, <1>7, <1>8 DEF set

LEMMA VisitGroups ==
    ASSUME GroupsOK, Visit
    PROVE  /\ GroupsOK'
           /\ Head(toVisit) \in DOMAIN groups
           /\ \A i \in DOMAIN toVisit' :
                 toVisit'[i] \in DOMAIN groups
           /\ \A i \in DOMAIN groups :
                 \/ groups[i].parent = Head(toVisit)
                 \/ /\ \E j \in DOMAIN toVisit : toVisit[j] = i
                    /\ i # Head(toVisit)
                 => \E j \in DOMAIN toVisit' : toVisit'[j] = i
<1>1. /\ phase = "visiting" /\ toVisit # <<>>
      /\ UNCHANGED <<phase, groups, routes, heap>>
      /\ toVisit' = Children(Head(toVisit)) \o Tail(toVisit)
  BY DEF Visit
<1>2. toVisit \in Seq(DOMAIN groups)
  BY DEF GroupsOK
<1>3. PICK g \in DOMAIN groups : g = Head(toVisit)
  BY <1>1, <1>2, HeadTailProperties
<1>4. PICK c \in Seq(DOMAIN groups) : c = Children(g)
  BY ChildrenAre
<1>5. \A i \in DOMAIN groups : groups[i].parent = g => \E j \in DOMAIN c : c[j] = i
  BY <1>4, ChildrenAre
<1>6. PICK t \in Seq(DOMAIN groups) :
         /\ t = Tail(toVisit) /\ Len(t) = Len(toVisit) - 1
         /\ \A j \in 1 .. Len(t) : t[j] = toVisit[j + 1]
  BY <1>1, <1>2, HeadTailProperties
<1>7. PICK v \in Seq(DOMAIN groups) :
         /\ v = c \o t /\ Len(v) = Len(c) + Len(t)
         /\ \A j \in 1 .. Len(c) + Len(t) :
               v[j] = IF j <= Len(c) THEN c[j] ELSE t[j - Len(c)]
  <2>1. /\ c \o t \in Seq(DOMAIN groups) /\ Len(c \o t) = Len(c) + Len(t)
        /\ \A j \in 1 .. Len(c) + Len(t) :
              (c \o t)[j] = IF j <= Len(c) THEN c[j] ELSE t[j - Len(c)]
    BY ConcatProperties
  <2>2. QED
    BY <2>1
<1>8. toVisit' = v
  BY <1>1, <1>3, <1>4, <1>6, <1>7
<1>9. /\ Len(c) \in Nat /\ DOMAIN c = 1 .. Len(c)
      /\ Len(t) \in Nat /\ DOMAIN v = 1 .. Len(c) + Len(t)
      /\ Len(toVisit) \in Nat /\ DOMAIN toVisit = 1 .. Len(toVisit)
      /\ toVisit[1] = g
  BY <1>1, <1>2, <1>3, <1>7, LenProperties, HeadTailProperties
<1>10. ASSUME NEW i \in DOMAIN groups, groups[i].parent = g
       PROVE  \E j \in DOMAIN v : v[j] = i
  <2>1. PICK j \in DOMAIN c : c[j] = i
    BY <1>5, <1>10
  <2>2. j \in 1 .. Len(c) + Len(t) /\ j <= Len(c)
    BY <1>9
  <2>3. QED
    BY <1>7, <1>9, <2>1, <2>2
<1>11. ASSUME NEW i \in DOMAIN groups, NEW j \in DOMAIN toVisit, toVisit[j] = i, i # g
       PROVE  \E k \in DOMAIN v : v[k] = i
  <2>1. j # 1
    BY <1>9, <1>11
  <2>2. j - 1 \in 1 .. Len(t) /\ t[j - 1] = i
    BY <1>6, <1>9, <1>11, <2>1
  <2>3. PICK k \in DOMAIN v : k = Len(c) + (j - 1)
    BY <1>9, <2>2
  <2>4. ~(k <= Len(c)) /\ k - Len(c) = j - 1
    BY <1>9, <2>2, <2>3
  <2>5. v[k] = t[j - 1]
    BY <1>7, <1>9, <2>4
  <2>6. QED
    BY <2>2, <2>5
<1>12. GroupsOK'
  <2>1. toVisit' \in Seq(DOMAIN groups')
    BY <1>1, <1>8
  <2>2. QED
    BY <1>1, <2>1 DEF GroupsOK, Alone, Below
<1>13. \A i \in DOMAIN toVisit' : toVisit'[i] \in DOMAIN groups
  BY <1>8
<1>14. QED
  BY <1>3, <1>8, <1>10, <1>11, <1>12, <1>13

LEMMA FlattenedGroups ==
    ASSUME GroupsOK, Flattened
    PROVE  GroupsOK'
<1>1. /\ groups' = <<>> /\ routes' = <<>> /\ heap' = <<>> /\ phase' = "mounting"
      /\ toVisit' = <<>>
  BY DEF Flattened
<1>2. /\ groups' \in Seq(SomeGroup) /\ DOMAIN groups' = {}
      /\ routes' \in Seq(GroupRoute) /\ DOMAIN routes' = {}
      /\ heap' \in Seq(Array) /\ toVisit' \in Seq(DOMAIN groups')
  BY <1>1
<1>3. QED
  BY <1>1, <1>2 DEF GroupsOK

-----------------------------------------------------------------------------
(* The steps, by what they leave alone.                                    *)

Setter ==
    \/ \E e \in Extras : UseGlobalMiddleware(e)
    \/ \E k \in Keys : OverrideMiddleware(k) \/ DisableMiddleware(k) \/ EnableMiddleware(k)
    \/ EnableRateLimit \/ DisableRateLimit
    \/ \E keys \in Orders : SetMiddlewareOrder(keys)

Registering ==
    \/ \E method \in Methods, part \in Parts : RegisterRoute(method, << part >>)
    \/ \E part \in Parts : RegisterRouteGroup(<< part >>)

Starting ==
    \/ StartGroup \/ Callback \/ Visit \/ Flattened
    \/ Mount \/ MountFails \/ Mounted \/ MountProbe \/ ProbeFails \/ Serve

Phases == {"configuring", "callback", "visiting", "mounting", "probing", "serving", "failed"}

LEMMA NextIs ==
    ASSUME [Next]_vars
    PROVE  Setter \/ Registering \/ BuildChain \/ Starting \/ UNCHANGED vars
BY DEF Next, Configure, Setter, Registering, Starting

LEMMA SetterLeaves ==
    ASSUME Setter
    PROVE  phase = "configuring" /\ UNCHANGED <<phase, config, chain, direct, grouping, mounting>>
<1>1. ASSUME NEW op, NEW arg, Called(op, arg)
      PROVE  phase = "configuring"
             /\ UNCHANGED <<phase, config, chain, direct, grouping, mounting>>
  BY <1>1 DEF Called, MayCall
<1>2. QED
  BY <1>1 DEF Setter, UseGlobalMiddleware, OverrideMiddleware, DisableMiddleware,
              EnableMiddleware, EnableRateLimit, DisableRateLimit, SetMiddlewareOrder

LEMMA RegisteringLeaves ==
    ASSUME Registering
    PROVE  /\ phase = "configuring"
           /\ UNCHANGED <<phase, config, manager, chain, calls, grouping, toMount, mounted, probe>>
BY DEF Registering, RegisterRoute, RegisterRouteGroup, MayCall

LEMMA StartingLeaves ==
    ASSUME Starting
    PROVE  /\ phase # "configuring" /\ phase' \in Phases \ {"configuring"}
           /\ UNCHANGED <<config, manager, chain, calls, direct>>
<1>1. CASE StartGroup \/ Visit \/ Flattened
  BY <1>1 DEF StartGroup, Visit, Flattened, Phases
<1>2. CASE Callback
  <2>1. ASSUME NEW g, NEW values, Use(g, values)
        PROVE  phase = "callback" /\ UNCHANGED <<phase, config, manager, chain, calls, direct>>
    BY <2>1 DEF Use, Op
  <2>2. ASSUME NEW g, NEW method, NEW part, NEW values, Register(g, method, part, values)
        PROVE  phase = "callback" /\ UNCHANGED <<phase, config, manager, chain, calls, direct>>
    BY <2>2 DEF Register, Op
  <2>3. ASSUME NEW g, NEW part, Group(g, part)
        PROVE  phase = "callback" /\ UNCHANGED <<phase, config, manager, chain, calls, direct>>
    BY <2>3 DEF Group, Op
  <2>4. CASE CallbackReturns \/ CallbackPanics
    BY <2>4 DEF CallbackReturns, CallbackPanics, Fail, Phases
  <2>5. QED
    BY <1>2, <2>1, <2>2, <2>3, <2>4 DEF Callback, Phases
<1>3. CASE Mount \/ MountFails \/ Mounted
  BY <1>3 DEF Mount, MountFails, Mounted, Fail, Phases
<1>4. CASE MountProbe \/ ProbeFails \/ Serve
  BY <1>4 DEF MountProbe, ProbeFails, Serve, Fail, Phases
<1>5. QED
  BY <1>1, <1>2, <1>3, <1>4 DEF Starting

LEMMA BuildLeaves ==
    ASSUME BuildChain
    PROVE  /\ phase = "configuring" /\ phase' = "mounting"
           /\ UNCHANGED <<config, overrides, extras, mwOrder, calls, direct, grouping, entries,
                          mounted, registered, probe>>
BY DEF BuildChain

-----------------------------------------------------------------------------
(* The manager.                                                            *)

ManagerOK ==
    /\ phase \in Phases /\ config \in [Standard -> BOOLEAN]
    /\ builtins \subseteq Builtin /\ overrides \subseteq Keys /\ disabled \subseteq Keys
    /\ order \in Seq(Builtin) /\ extras \in Seq(Extras) /\ mwOrder \in Seq(Keys)

LEMMA KnownType ==
    ASSUME NEW keys \in Seq(Keys)
    PROVE  Known(keys) \in Seq(Builtin)
<1>1. Len(keys) \in Nat /\ DOMAIN keys = 1 .. Len(keys)
  BY LenProperties
<1> DEFINE set == {i \in DOMAIN keys : keys[i] \in Builtin}
<1>2. \A i \in 1 .. Len(keys) : i \in set => keys[i] \in Builtin
  OBVIOUS
<1>3. Known(keys) = Picked(keys, set)
  BY DEF Known
<1> HIDE DEF set
<1>4. QED
  BY <1>1, <1>2, <1>3, PickedType

LEMMA ManagerStep ==
    ASSUME ManagerOK, [Next]_vars
    PROVE  ManagerOK'
<1>1. CASE Setter
  <2>1. UNCHANGED <<phase, config>>
    BY <1>1, SetterLeaves
  <2>2. ASSUME NEW e \in Extras, UseGlobalMiddleware(e)
        PROVE  ManagerOK'
    BY <2>1, <2>2, AppendProperties DEF UseGlobalMiddleware, ManagerOK
  <2>3. ASSUME NEW k \in Keys, OverrideMiddleware(k) \/ DisableMiddleware(k) \/ EnableMiddleware(k)
        PROVE  ManagerOK'
    BY <2>1, <2>3 DEF OverrideMiddleware, DisableMiddleware, EnableMiddleware, ManagerOK
  <2>4. CASE EnableRateLimit \/ DisableRateLimit
    BY <2>1, <2>4, OrderAssumption DEF EnableRateLimit, DisableRateLimit, ManagerOK, Keys
  <2>5. ASSUME NEW keys \in Orders, SetMiddlewareOrder(keys)
        PROVE  ManagerOK'
    <3>1. keys \in Seq(Keys)
      BY OrderAssumption
    <3>2. QED
      BY <2>1, <2>5, <3>1 DEF SetMiddlewareOrder, ManagerOK
  <2>6. QED
    BY <1>1, <2>2, <2>3, <2>4, <2>5 DEF Setter
<1>2. CASE Registering
  BY <1>2, RegisteringLeaves DEF manager, ManagerOK
<1>3. CASE BuildChain
  <2>1. /\ builtins' = builtins \cup Standard
        /\ disabled' = disabled \cup {k \in Standard : ~config[k]}
        /\ order' = OrderAfter(mwOrder)
    BY <1>3 DEF BuildChain
  <2>2. Known(mwOrder) \in Seq(Builtin)
    BY KnownType DEF ManagerOK
  <2>3. order' \in Seq(Builtin)
    BY <2>1, <2>2 DEF OrderAfter, ManagerOK
  <2>4. builtins' \subseteq Builtin /\ disabled' \subseteq Keys
    BY <2>1 DEF ManagerOK, Standard, Keys
  <2>5. QED
    BY <1>3, <2>3, <2>4, BuildLeaves DEF ManagerOK, Phases
<1>4. CASE Starting
  BY <1>4, StartingLeaves DEF manager, ManagerOK
<1>5. CASE UNCHANGED vars
  BY <1>5 DEF vars, manager, ManagerOK
<1>6. QED
  BY <1>1, <1>2, <1>3, <1>4, <1>5, NextIs

-----------------------------------------------------------------------------
(* The routes on their way to the router.                                  *)

\* A route of Start with the middleware that it is owed.
KeptRoute == {r \in Route : r.middleware = r.owed}

MountOK ==
    /\ direct \in Seq(KeptRoute) /\ toMount \in Seq(KeptRoute) /\ mounted \subseteq KeptRoute
    /\ entries \in Seq(Path) /\ registered \subseteq Methods \X Path
    /\ ops \in 0 .. MaxOps /\ probe \in 1 .. Len(Probes) + 1

Listed(s, x) == \E j \in DOMAIN s : s[j].method = x[1] /\ s[j].path = x[2]

LEMMA BareRoute ==
    ASSUME NEW method \in Methods, NEW path \in Path
    PROVE  [method |-> method, path |-> path, group |-> <<>>, middleware |-> <<>>,
            owed |-> <<>>] \in KeptRoute
BY DEF KeptRoute, Route, Path

\* What Start makes of a route of a group.
LEMMA MountedRoute ==
    ASSUME NEW r \in GroupRoute, NEW prefix \in Path, r.owed \in Seq(Handlers),
           NEW w, w = [r EXCEPT !.group = prefix, !.middleware = r.owed]
    PROVE  w \in KeptRoute /\ w.method = r.method /\ w.path = r.path
BY DEF GroupRoute, KeptRoute, Route

\* A sequence with another behind it has what both have.
LEMMA ListedConcat ==
    ASSUME NEW S, NEW s \in Seq(S), NEW t \in Seq(S), NEW x
    PROVE  /\ s \o t \in Seq(S)
           /\ Listed(s, x) \/ Listed(t, x) => Listed(s \o t, x)
<1>1. PICK u \in Seq(S) :
         /\ u = s \o t /\ Len(u) = Len(s) + Len(t)
         /\ \A j \in 1 .. Len(s) + Len(t) :
               u[j] = IF j <= Len(s) THEN s[j] ELSE t[j - Len(s)]
  <2>1. /\ s \o t \in Seq(S) /\ Len(s \o t) = Len(s) + Len(t)
        /\ \A j \in 1 .. Len(s) + Len(t) :
              (s \o t)[j] = IF j <= Len(s) THEN s[j] ELSE t[j - Len(s)]
    BY ConcatProperties
  <2>2. QED
    BY <2>1
<1>2. /\ Len(s) \in Nat /\ Len(t) \in Nat /\ DOMAIN s = 1 .. Len(s)
      /\ DOMAIN t = 1 .. Len(t) /\ DOMAIN u = 1 .. Len(s) + Len(t)
  BY <1>1, LenProperties
<1>3. ASSUME Listed(s, x)
      PROVE  Listed(u, x)
  <2>1. PICK j \in DOMAIN s : s[j].method = x[1] /\ s[j].path = x[2]
    BY <1>3 DEF Listed
  <2>2. j \in DOMAIN u /\ u[j] = s[j]
    BY <1>1, <1>2
  <2>3. QED
    BY <2>1, <2>2 DEF Listed
<1>4. ASSUME Listed(t, x)
      PROVE  Listed(u, x)
  <2>1. PICK j \in DOMAIN t : t[j].method = x[1] /\ t[j].path = x[2]
    BY <1>4 DEF Listed
  <2>2. PICK k \in DOMAIN u : k = Len(s) + j
    BY <1>2
  <2>3. ~(k <= Len(s)) /\ k - Len(s) = j
    BY <1>2, <2>2
  <2>4. u[k] = t[j]
    BY <1>1, <1>2, <2>3
  <2>5. QED
    BY <2>1, <2>4 DEF Listed
<1>5. QED
  BY <1>1, <1>3, <1>4

LEMMA VisitRoutes ==
    ASSUME GroupsOK, toMount \in Seq(KeptRoute), Visit
    PROVE  /\ toMount' \in Seq(KeptRoute)
           /\ \A x : Listed(toMount, x) => Listed(toMount', x)
           /\ \A x : \A i \in DOMAIN routes :
                 routes[i].group = Head(toVisit) /\ routes[i].method = x[1]
                 /\ routes[i].path = x[2] => Listed(toMount', x)
<1>1. PICK g \in DOMAIN groups : g = Head(toVisit)
  BY VisitGroups
<1> DEFINE set == {i \in DOMAIN routes : routes[i].group = g}
           mine == Picked(routes, set)
           more == [i \in DOMAIN mine |-> [mine[i] EXCEPT !.group = groups[g].prefix,
                                                         !.middleware = Content(heap, @)]]
<1>2. toMount' = toMount \o more
  BY <1>1 DEF Visit
<1>3. /\ Len(routes) \in Nat /\ DOMAIN routes = 1 .. Len(routes)
      /\ groups[g].prefix \in Path
      /\ \A i \in 1 .. Len(routes) :
            /\ routes[i] \in GroupRoute /\ routes[i].owed \in Seq(Handlers)
            /\ Content(heap, routes[i].middleware) = routes[i].owed
  BY GroupTypes
<1>4. PICK m : m = mine
  OBVIOUS
<1>5. /\ m \in Seq(GroupRoute)
      /\ \A j \in 1 .. Len(m) : \E i \in 1 .. Len(routes) : i \in set /\ m[j] = routes[i]
      /\ \A i \in set \cap 1 .. Len(routes) : \E j \in 1 .. Len(m) : m[j] = routes[i]
  <2> HIDE DEF set
  <2>1. \A i \in 1 .. Len(routes) : i \in set => routes[i] \in GroupRoute
    BY <1>3
  <2>2. /\ Picked(routes, set) \in Seq(GroupRoute)
        /\ \A j \in 1 .. Len(Picked(routes, set)) :
              \E i \in 1 .. Len(routes) : i \in set /\ Picked(routes, set)[j] = routes[i]
    BY <1>3, <2>1, PickedType
  <2>3. \A i \in set \cap 1 .. Len(routes) :
            \E j \in 1 .. Len(Picked(routes, set)) : Picked(routes, set)[j] = routes[i]
    <3>1. Len(routes) \in Nat
      BY <1>3
    <3>2. QED
      BY <3>1, PickedRange, Zenon
  <2>4. QED
    BY <1>4, <2>2, <2>3
<1>6. DOMAIN m = 1 .. Len(m) /\ Len(m) \in Nat
  BY <1>5, LenProperties
<1>7. PICK n : n = more
  OBVIOUS
<1>8. \A j \in 1 .. Len(m) :
          n[j] = [m[j] EXCEPT !.group = groups[g].prefix, !.middleware = m[j].owed]
  <2> SUFFICES ASSUME NEW j \in 1 .. Len(m)
               PROVE  n[j] = [m[j] EXCEPT !.group = groups[g].prefix,
                                          !.middleware = m[j].owed]
    OBVIOUS
  <2>1. n[j] = [m[j] EXCEPT !.group = groups[g].prefix, !.middleware = Content(heap, @)]
    BY <1>4, <1>6, <1>7
  <2>2. PICK i \in 1 .. Len(routes) : m[j] = routes[i]
    BY <1>5
  <2>3. PICK r \in GroupRoute : r = m[j] /\ Content(heap, r.middleware) = r.owed
    BY <1>3, <2>2
  <2>4. [r EXCEPT !.group = groups[g].prefix, !.middleware = Content(heap, @)]
            = [r EXCEPT !.group = groups[g].prefix, !.middleware = r.owed]
    BY <2>3 DEF GroupRoute
  <2>5. QED
    BY <2>1, <2>3, <2>4
<1>9. \A j \in 1 .. Len(m) :
          n[j] \in KeptRoute /\ n[j].method = m[j].method /\ n[j].path = m[j].path
  <2> SUFFICES ASSUME NEW j \in 1 .. Len(m)
               PROVE  n[j] \in KeptRoute /\ n[j].method = m[j].method
                      /\ n[j].path = m[j].path
    OBVIOUS
  <2>1. PICK i \in 1 .. Len(routes) : m[j] = routes[i]
    BY <1>5
  <2>2. PICK r \in GroupRoute : r = m[j] /\ r.owed \in Seq(Handlers)
    BY <1>3, <2>1
  <2>3. PICK prefix \in Path : prefix = groups[g].prefix
    BY <1>3
  <2>4. PICK w : w = [r EXCEPT !.group = prefix, !.middleware = r.owed] /\ w = n[j]
    BY <1>8, <2>2, <2>3
  <2>5. w \in KeptRoute /\ w.method = r.method /\ w.path = r.path
    <3>1. r.owed \in Seq(Handlers) /\ w = [r EXCEPT !.group = prefix, !.middleware = r.owed]
      BY <2>2, <2>4
    <3>2. QED
      BY <3>1, MountedRoute
  <2>6. QED
    BY <2>2, <2>4, <2>5
<1>10. DOMAIN n = 1 .. Len(m)
  BY <1>4, <1>6, <1>7
<1>11. n \in Seq(KeptRoute)
  <2>1. n = [j \in 1 .. Len(m) |-> n[j]]
    BY <1>4, <1>6, <1>7
  <2>2. n \in [1 .. Len(m) -> KeptRoute]
    BY <1>9, <2>1
  <2>3. QED
    BY <1>6, <2>2
<1>12. toMount' = toMount \o n
  BY <1>2, <1>7
<1>13. ASSUME NEW x, NEW i \in DOMAIN routes, routes[i].group = g,
              routes[i].method = x[1], routes[i].path = x[2]
       PROVE  Listed(n, x)
  <2>1. PICK j \in 1 .. Len(m) : m[j] = routes[i]
    BY <1>3, <1>5, <1>13
  <2>2. QED
    BY <1>9, <1>10, <1>13, <2>1 DEF Listed
<1>14. QED
  BY <1>1, <1>11, <1>12, <1>13, ListedConcat

LEMMA ValuesType == Values \subseteq Seq(Handlers)
<1>1. << >> \in Seq(Handlers) /\ \A h \in Handlers : << h >> \in Seq(Handlers)
  OBVIOUS
<1>2. \A values \in Values : values = << >> \/ \E h \in Handlers : values = << h >>
  BY DEF Values
<1>3. QED
  BY <1>1, <1>2

LEMMA MountFrame ==
    ASSUME MountOK,
           UNCHANGED <<direct, toMount, mounted, entries, registered, ops, probe>>
    PROVE  MountOK'
BY DEF MountOK

LEMMA RegisteringMounts ==
    ASSUME MountOK, Registering
    PROVE  MountOK'
<1>1. UNCHANGED <<toMount, mounted, ops, probe>>
  BY RegisteringLeaves DEF grouping
<1>2. ASSUME NEW method \in Methods, NEW part \in Parts, RegisterRoute(method, << part >>)
      PROVE  MountOK'
  <2>1. PICK r \in KeptRoute :
           r = [method |-> method, path |-> << part >>, group |-> <<>>, middleware |-> <<>>,
                owed |-> <<>>]
    <3>1. << part >> \in Path
      BY DEF Path
    <3>2. QED
      BY <3>1, BareRoute
  <2>2. /\ direct' = Append(direct, r) /\ entries' = entries
        /\ registered' = registered \cup {<< method, << part >> >>}
    BY <1>2, <2>1 DEF RegisterRoute
  <2>3. direct' \in Seq(KeptRoute)
    BY <2>2, AppendProperties DEF MountOK
  <2>4. << method, << part >> >> \in Methods \X Path
    BY DEF Path
  <2>5. QED
    BY <1>1, <2>2, <2>3, <2>4 DEF MountOK
<1>3. ASSUME NEW part \in Parts, RegisterRouteGroup(<< part >>)
      PROVE  MountOK'
  <2>1. entries' = Append(entries, << part >>) /\ UNCHANGED <<direct, registered>>
    BY <1>3 DEF RegisterRouteGroup
  <2>2. << part >> \in Path
    BY DEF Path
  <2>3. entries' \in Seq(Path)
    BY <2>1, <2>2, AppendProperties DEF MountOK
  <2>4. QED
    BY <1>1, <2>1, <2>3 DEF MountOK
<1>4. QED
  BY <1>2, <1>3 DEF Registering

LEMMA CallbackMounts ==
    ASSUME GroupsOK, MountOK, Callback
    PROVE  MountOK'
<1>1. ASSUME Op
      PROVE  ops' \in 0 .. MaxOps /\ UNCHANGED <<direct, toMount, mounted, entries, probe>>
  <2>1. /\ ops < MaxOps /\ ops' = ops + 1
        /\ UNCHANGED <<direct, toMount, mounted, entries, probe>>
    BY <1>1 DEF Op
  <2>2. ops \in 0 .. MaxOps /\ MaxOps \in Nat
    BY BoundsAssumption DEF MountOK
  <2>3. QED
    BY <2>1, <2>2
<1>2. ASSUME NEW g \in DOMAIN groups, NEW h \in Handlers, Use(g, << h >>)
      PROVE  MountOK'
  <2>1. Op /\ UNCHANGED registered
    BY <1>2 DEF Use
  <2>2. QED
    BY <1>1, <2>1 DEF MountOK
<1>3. ASSUME NEW g \in DOMAIN groups, NEW method \in Methods, NEW part \in Parts,
             NEW values \in Values, Register(g, method, part, values)
      PROVE  MountOK'
  <2>1. Op /\ registered' = registered \cup {<< method, Append(groups[g].prefix, part) >>}
    BY <1>3 DEF Register
  <2>2. groups[g].prefix \in Path
    BY GroupTypes
  <2>3. Append(groups[g].prefix, part) \in Path
    BY <2>2, AppendProperties DEF Path
  <2>4. registered' \subseteq Methods \X Path
    <3>1. << method, Append(groups[g].prefix, part) >> \in Methods \X Path
      BY <2>3
    <3>2. QED
      BY <2>1, <3>1 DEF MountOK
  <2>5. QED
    BY <1>1, <2>1, <2>4 DEF MountOK
<1>4. ASSUME NEW g \in DOMAIN groups, NEW part \in Parts, Group(g, part)
      PROVE  MountOK'
  <2>1. Op /\ UNCHANGED registered
    BY <1>4 DEF Group
  <2>2. QED
    BY <1>1, <2>1 DEF MountOK
<1>5. CASE CallbackReturns
  BY <1>5, MountFrame DEF CallbackReturns, mounting
<1>6. CASE CallbackPanics
  BY <1>6, MountFrame DEF CallbackPanics, Fail, grouping, mounting
<1>7. QED
  BY <1>2, <1>3, <1>4, <1>5, <1>6 DEF Callback

\* Every route of the list but the first is behind it; the first goes to the
\* router.
LEMMA MountOne ==
    ASSUME MountOK, Mount
    PROVE  /\ toMount # <<>> /\ mounted' = mounted \cup {Head(toMount)}
           /\ Head(toMount) \in KeptRoute /\ toMount' \in Seq(KeptRoute)
           /\ \A x : Listed(toMount, x) =>
                 \/ Listed(toMount', x)
                 \/ Head(toMount).method = x[1] /\ Head(toMount).path = x[2]
<1>1. /\ toMount # <<>> /\ mounted' = mounted \cup {Head(toMount)}
      /\ toMount' = Tail(toMount) /\ toMount \in Seq(KeptRoute)
  BY DEF Mount, MountOK
<1>2. /\ Head(toMount) \in KeptRoute /\ toMount' \in Seq(KeptRoute)
      /\ Head(toMount) = toMount[1] /\ Len(toMount') = Len(toMount) - 1
      /\ \A j \in 1 .. Len(toMount') : toMount'[j] = toMount[j + 1]
  BY <1>1, HeadTailProperties
<1>3. /\ Len(toMount) \in Nat /\ DOMAIN toMount = 1 .. Len(toMount)
      /\ DOMAIN toMount' = 1 .. Len(toMount')
  BY <1>1, <1>2, LenProperties
<1>4. ASSUME NEW x, Listed(toMount, x), ~Listed(toMount', x)
      PROVE  Head(toMount).method = x[1] /\ Head(toMount).path = x[2]
  <2>1. PICK j \in DOMAIN toMount : toMount[j].method = x[1] /\ toMount[j].path = x[2]
    BY <1>4 DEF Listed
  <2>2. ASSUME j # 1
        PROVE  FALSE
    <3>1. j - 1 \in DOMAIN toMount' /\ (j - 1) + 1 = j
      BY <1>2, <1>3, <2>2
    <3>2. toMount'[j - 1] = toMount[j]
      BY <1>2, <1>3, <3>1
    <3>3. QED
      BY <1>4, <2>1, <3>1, <3>2 DEF Listed
  <2>3. QED
    BY <1>2, <2>1, <2>2
<1>5. QED
  BY <1>1, <1>2, <1>4

LEMMA ProbeMounts ==
    ASSUME MountOK, MountProbe
    PROVE  MountOK' /\ mounted \subseteq mounted'
<1>1. /\ probe <= Len(Probes) /\ probe' = probe + 1
      /\ UNCHANGED <<direct, toMount, entries, registered, ops>>
      /\ \/ mounted' = mounted
         \/ mounted' = mounted \cup
                {[method |-> "GET", path |-> Probes[probe], group |-> <<>>,
                  middleware |-> <<>>, owed |-> <<>>]}
  BY DEF MountProbe, grouping
<1>2. Len(Probes) \in Nat /\ probe \in 1 .. Len(Probes) + 1
  BY PathsAssumption DEF MountOK
<1>3. Probes[probe] \in Path /\ "GET" \in Methods /\ probe' \in 1 .. Len(Probes) + 1
  <2>1. probe \in 1 .. Len(Probes)
    BY <1>1, <1>2
  <2>2. QED
    BY <1>1, <1>2, <2>1, PathsAssumption DEF Path
<1>4. [method |-> "GET", path |-> Probes[probe], group |-> <<>>,
       middleware |-> <<>>, owed |-> <<>>] \in KeptRoute
  BY <1>3, BareRoute
<1>5. QED
  BY <1>1, <1>3, <1>4 DEF MountOK

LEMMA MountStep ==
    ASSUME GroupsOK, MountOK, [Next]_vars
    PROVE  MountOK'
<1>1. CASE Setter
  BY <1>1, SetterLeaves, MountFrame DEF grouping, mounting
<1>2. CASE Registering
  BY <1>2, RegisteringMounts
<1>3. CASE BuildChain
  <2>1. toMount' = direct /\ UNCHANGED <<direct, entries, mounted, registered, ops, probe>>
    BY <1>3 DEF BuildChain, grouping
  <2>2. QED
    BY <2>1 DEF MountOK
<1>4. CASE StartGroup
  <2>1. /\ entries # <<>> /\ entries' = Tail(entries)
        /\ UNCHANGED <<direct, toMount, mounted, registered, ops, probe>>
    BY <1>4 DEF StartGroup
  <2>2. entries' \in Seq(Path)
    BY <2>1, HeadTailProperties DEF MountOK
  <2>3. QED
    BY <2>1, <2>2 DEF MountOK
<1>5. CASE Callback
  BY <1>5, CallbackMounts
<1>6. CASE Visit
  <2>1. UNCHANGED <<direct, mounted, entries, registered, ops, probe>>
    BY <1>6 DEF Visit
  <2>2. toMount' \in Seq(KeptRoute)
    BY <1>6, VisitRoutes DEF MountOK
  <2>3. QED
    BY <2>1, <2>2 DEF MountOK
<1>7. CASE Flattened
  BY <1>7, MountFrame DEF Flattened, mounting
<1>8. CASE Mount
  <2>1. UNCHANGED <<direct, entries, registered, ops, probe>>
    BY <1>8 DEF Mount, grouping
  <2>2. /\ mounted' = mounted \cup {Head(toMount)}
        /\ Head(toMount) \in KeptRoute /\ toMount' \in Seq(KeptRoute)
    BY <1>8, MountOne
  <2>3. QED
    BY <2>1, <2>2 DEF MountOK
<1>9. CASE MountFails \/ Mounted \/ ProbeFails \/ Serve
  BY <1>9, MountFrame DEF MountFails, Mounted, ProbeFails, Serve, Fail, grouping, mounting
<1>10. CASE MountProbe
  BY <1>10, ProbeMounts
<1>11. CASE UNCHANGED vars
  BY <1>11, MountFrame DEF vars, grouping, mounting
<1>12. QED
  BY <1>1, <1>2, <1>3, <1>4, <1>5, <1>6, <1>7, <1>8, <1>9, <1>10, <1>11, NextIs DEF Starting

LEMMA GroupsStep ==
    ASSUME GroupsOK, MountOK, [Next]_vars
    PROVE  GroupsOK'
<1>1. CASE Setter
  BY <1>1, SetterLeaves, GroupsFrame DEF grouping
<1>2. CASE Registering
  BY <1>2, RegisteringLeaves, GroupsFrame DEF grouping
<1>3. CASE BuildChain
  BY <1>3, BuildLeaves, GroupsFrame DEF grouping
<1>4. CASE StartGroup
  BY <1>4, StartGroupGroups DEF MountOK
<1>5. CASE Callback
  <2>1. ASSUME NEW g \in DOMAIN groups, NEW h \in Handlers, Use(g, << h >>)
        PROVE  GroupsOK'
    <3>1. << h >> \in Seq(Handlers)
      OBVIOUS
    <3>2. QED
      BY <2>1, <3>1, UseGroups
  <2>2. ASSUME NEW g \in DOMAIN groups, NEW method \in Methods, NEW part \in Parts,
               NEW values \in Values, Register(g, method, part, values)
        PROVE  GroupsOK'
    <3>1. values \in Seq(Handlers)
      BY ValuesType
    <3>2. QED
      BY <2>2, <3>1, RegisterGroups
  <2>3. ASSUME NEW g \in DOMAIN groups, NEW part \in Parts, Group(g, part)
        PROVE  GroupsOK'
    BY <2>3, GroupGroups
  <2>4. CASE CallbackReturns
    BY <2>4, ReturnGroups
  <2>5. CASE CallbackPanics
    BY <2>5, GroupsFrame DEF CallbackPanics, Fail, grouping
  <2>6. QED
    BY <1>5, <2>1, <2>2, <2>3, <2>4, <2>5 DEF Callback
<1>6. CASE Visit
  BY <1>6, VisitGroups
<1>7. CASE Flattened
  BY <1>7, FlattenedGroups
<1>8. CASE Mount \/ MountFails \/ Mounted
  BY <1>8, GroupsFrame DEF Mount, MountFails, Mounted, Fail, grouping
<1>9. CASE MountProbe \/ ProbeFails \/ Serve
  BY <1>9, GroupsFrame DEF MountProbe, ProbeFails, Serve, Fail, grouping
<1>10. CASE UNCHANGED vars
  BY <1>10, GroupsFrame DEF vars, grouping
<1>11. QED
  BY <1>1, <1>2, <1>3, <1>4, <1>5, <1>6, <1>7, <1>8, <1>9, <1>10, NextIs DEF Starting

-----------------------------------------------------------------------------
(* Where each route of the application is until it is on the router.       *)

OnRouter(x) == \E r \in mounted : r.method = x[1] /\ r.path = x[2]

\* A route of the callback's groups that flatten has not come to, the groups in V
\* being those it has.
Left(x, V) ==
    \E i \in DOMAIN routes :
        routes[i].group \notin V /\ routes[i].method = x[1] /\ routes[i].path = x[2]

Accounted(x, V) ==
    \/ OnRouter(x)
    \/ phase = "configuring" /\ Listed(direct, x)
    \/ phase # "configuring" /\ Listed(toMount, x)
    \/ phase \in {"callback", "visiting"} /\ Left(x, V)

\* The first group and those below one in V are in V or waiting; before flatten
\* starts V is empty.
Flattening(V) ==
    /\ phase = "callback" => V = {}
    /\ phase = "visiting" =>
          \A i \in DOMAIN groups :
              (i = 1 \/ groups[i].parent \in V) =>
                  (i \in V \/ \E j \in DOMAIN toVisit : toVisit[j] = i)

AllAccounted(V) ==
    /\ Flattening(V)
    /\ phase # "failed" => \A x \in registered : Accounted(x, V)
    /\ phase \in {"probing", "serving"} => toMount = <<>>

RoutesAccounted == \E V : AllAccounted(V)

\* When nothing waits, flatten has come to every group, however deep.
LEMMA AllVisited ==
    ASSUME GroupsOK, NEW V, Flattening(V), phase = "visiting", toVisit = <<>>
    PROVE  DOMAIN groups \subseteq V
<1> DEFINE Bad == DOMAIN groups \ V
<1>1. SUFFICES ASSUME Bad # {}
               PROVE  FALSE
  OBVIOUS
<1>2. DOMAIN groups = 1 .. Len(groups) /\ Len(groups) \in Nat
  BY GroupTypes
<1>3. PICK m \in Bad : \A k \in Bad : ~(k < m)
  <2>1. Bad \subseteq Nat
    BY <1>2
  <2>2. QED
    BY <1>1, <2>1, Least
<1>4. m \in DOMAIN groups /\ m \notin V /\ DOMAIN toVisit = {}
  OBVIOUS
<1>5. m # 1 /\ groups[m].parent \notin V
  BY <1>4 DEF Flattening
<1>6. groups[m].parent \in 0 .. m - 1 /\ groups[m].parent # 0
  BY <1>4, <1>5 DEF GroupsOK, Below
<1>7. groups[m].parent \in DOMAIN groups /\ groups[m].parent < m
  BY <1>2, <1>4, <1>6
<1>8. QED
  BY <1>3, <1>5, <1>7

\* Nothing that matters here changes.
LEMMA AccountedFrame ==
    ASSUME NEW V, AllAccounted(V), mounted \subseteq mounted',
           UNCHANGED <<phase, direct, toMount, registered, groups, routes, toVisit>>
    PROVE  RoutesAccounted'
<1>1. AllAccounted(V)'
  BY DEF AllAccounted, Flattening, Accounted, OnRouter, Left, Listed
<1>2. QED
  BY <1>1 DEF RoutesAccounted

LEMMA RegisteringAccounts ==
    ASSUME MountOK, NEW V, AllAccounted(V), Registering
    PROVE  RoutesAccounted'
<1>1. /\ phase = "configuring" /\ UNCHANGED <<phase, toMount, mounted, groups, routes, toVisit>>
  BY RegisteringLeaves DEF grouping
<1>2. ASSUME NEW method \in Methods, NEW part \in Parts, RegisterRoute(method, << part >>)
      PROVE  AllAccounted(V)'
  <2>1. PICK r \in KeptRoute :
           /\ r = [method |-> method, path |-> << part >>, group |-> <<>>,
                   middleware |-> <<>>, owed |-> <<>>]
           /\ r.method = method /\ r.path = << part >>
    <3>1. << part >> \in Path
      BY DEF Path
    <3>2. QED
      BY <3>1, BareRoute
  <2>2. /\ direct' = Append(direct, r) /\ direct \in Seq(KeptRoute)
        /\ registered' = registered \cup {<< method, << part >> >>}
    BY <1>2, <2>1 DEF RegisterRoute, MountOK
  <2>3. /\ Len(direct) \in Nat /\ DOMAIN direct = 1 .. Len(direct)
        /\ DOMAIN direct' = 1 .. Len(direct) + 1 /\ direct'[Len(direct) + 1] = r
        /\ \A i \in DOMAIN direct : direct'[i] = direct[i]
    BY <2>2
  <2>4. \A x : Listed(direct, x) => Listed(direct', x)
    BY <2>3 DEF Listed
  <2>5. Listed(direct', << method, << part >> >>)
    <3>1. Len(direct) + 1 \in DOMAIN direct'
      BY <2>3
    <3>2. QED
      BY <2>1, <2>3, <3>1 DEF Listed
  <2>6. \A x \in registered' : Accounted(x, V)'
    <3> SUFFICES ASSUME NEW x \in registered'
                 PROVE  OnRouter(x)' \/ Listed(direct', x)
      BY <1>1 DEF Accounted
    <3>1. CASE x \in registered
      BY <1>1, <2>4, <3>1 DEF AllAccounted, Accounted, OnRouter
    <3>2. CASE x = << method, << part >> >>
      BY <2>5, <3>2
    <3>3. QED
      BY <2>2, <3>1, <3>2
  <2>7. QED
    BY <1>1, <2>6 DEF AllAccounted, Flattening
<1>3. ASSUME NEW part \in Parts, RegisterRouteGroup(<< part >>)
      PROVE  RoutesAccounted'
  <2>1. UNCHANGED <<direct, registered>>
    BY <1>3 DEF RegisterRouteGroup
  <2>2. QED
    BY <1>1, <2>1, AccountedFrame
<1>4. QED
  BY <1>2, <1>3 DEF Registering, RoutesAccounted

LEMMA CallbackAccounts ==
    ASSUME GroupsOK, MountOK, NEW V, AllAccounted(V), Callback
    PROVE  RoutesAccounted'
<1>1. ASSUME Op
      PROVE  phase = "callback" /\ UNCHANGED <<phase, direct, toMount, mounted, toVisit>>
  BY <1>1 DEF Op
<1>2. ASSUME NEW g \in DOMAIN groups, NEW h \in Handlers, Use(g, << h >>)
      PROVE  AllAccounted(V)'
  <2>1. Op /\ UNCHANGED <<routes, registered>>
    BY <1>2 DEF Use
  <2>2. QED
    BY <1>1, <2>1
       DEF AllAccounted, Flattening, Accounted, OnRouter, Left, Listed
<1>3. ASSUME NEW g \in DOMAIN groups, NEW method \in Methods, NEW part \in Parts,
             NEW values \in Values, Register(g, method, part, values)
      PROVE  AllAccounted(V)'
  <2>1. Op /\ registered' = registered \cup {<< method, Append(groups[g].prefix, part) >>}
    BY <1>3 DEF Register
  <2>2. /\ \A i \in DOMAIN routes : i \in DOMAIN routes' /\ routes'[i] = routes[i]
        /\ \E i \in DOMAIN routes' :
              /\ routes'[i].method = method
              /\ routes'[i].path = Append(groups[g].prefix, part)
    <3>1. values \in Seq(Handlers)
      BY ValuesType
    <3>2. QED
      BY <1>3, <3>1, RegisterGroups
  <2>3. phase = "callback" /\ V = {}
    BY <1>1, <2>1 DEF AllAccounted, Flattening
  <2>4. \A x \in registered' : Accounted(x, V)'
    <3> SUFFICES ASSUME NEW x \in registered'
                 PROVE  OnRouter(x)' \/ Listed(toMount', x) \/ Left(x, V)'
      BY <1>1, <2>1 DEF Accounted
    <3>1. CASE x \in registered
      <4>1. OnRouter(x) \/ Listed(toMount, x) \/ Left(x, V)
        BY <2>3, <3>1 DEF AllAccounted, Accounted
      <4>2. Left(x, V) => Left(x, V)'
        BY <2>2 DEF Left
      <4>3. QED
        BY <1>1, <2>1, <4>1, <4>2 DEF OnRouter, Listed
    <3>2. CASE x = << method, Append(groups[g].prefix, part) >>
      BY <2>2, <2>3, <3>2 DEF Left
    <3>3. QED
      BY <2>1, <3>1, <3>2
  <2>5. QED
    BY <1>1, <2>1, <2>3, <2>4 DEF AllAccounted, Flattening
<1>4. ASSUME NEW g \in DOMAIN groups, NEW part \in Parts, Group(g, part)
      PROVE  AllAccounted(V)'
  <2>1. Op /\ UNCHANGED <<routes, registered>>
    BY <1>4 DEF Group
  <2>2. QED
    BY <1>1, <2>1
       DEF AllAccounted, Flattening, Accounted, OnRouter, Left, Listed
<1>5. CASE CallbackReturns
  <2>1. /\ phase = "callback" /\ phase' = "visiting" /\ toVisit' = << 1 >>
        /\ UNCHANGED <<direct, toMount, mounted, registered, groups, routes>>
    BY <1>5 DEF CallbackReturns, mounting
  <2>2. V = {}
    BY <2>1 DEF AllAccounted, Flattening
  <2>3. \E j \in DOMAIN toVisit' : toVisit'[j] = 1
    BY <2>1
  <2>4. Flattening(V)'
    BY <2>1, <2>2, <2>3 DEF Flattening
  <2>5. \A x \in registered' : Accounted(x, V)'
    BY <2>1 DEF AllAccounted, Accounted, OnRouter, Left, Listed
  <2>6. AllAccounted(V)'
    BY <2>1, <2>4, <2>5 DEF AllAccounted
  <2>7. QED
    BY <2>6 DEF RoutesAccounted
<1>6. CASE CallbackPanics
  <2>1. AllAccounted(V)'
    BY <1>6 DEF CallbackPanics, Fail, AllAccounted, Flattening
  <2>2. QED
    BY <2>1 DEF RoutesAccounted
<1>7. QED
  BY <1>2, <1>3, <1>4, <1>5, <1>6 DEF Callback, RoutesAccounted

LEMMA VisitAccounts ==
    ASSUME GroupsOK, MountOK, NEW V, AllAccounted(V), Visit
    PROVE  RoutesAccounted'
<1>1. /\ phase = "visiting"
      /\ UNCHANGED <<phase, direct, mounted, registered, groups, routes>>
  BY DEF Visit
<1>2. PICK g : g = Head(toVisit)
  OBVIOUS
<1>3. PICK W : W = V \cup {g}
  OBVIOUS
<1>4. Flattening(W)'
  <2> SUFFICES ASSUME NEW i \in DOMAIN groups, i = 1 \/ groups[i].parent \in W, i \notin W
               PROVE  \E j \in DOMAIN toVisit' : toVisit'[j] = i
    BY <1>1 DEF Flattening
  <2>1. CASE groups[i].parent = g
    BY <1>2, <2>1, VisitGroups
  <2>2. CASE groups[i].parent # g
    <3>1. \E j \in DOMAIN toVisit : toVisit[j] = i
      BY <1>1, <1>3, <2>2 DEF AllAccounted, Flattening
    <3>2. i # g
      BY <1>3
    <3>3. QED
      BY <1>2, <3>1, <3>2, VisitGroups
  <2>3. QED
    BY <2>1, <2>2
<1>5. \A x \in registered' : Accounted(x, W)'
  <2> SUFFICES ASSUME NEW x \in registered
               PROVE  OnRouter(x)' \/ Listed(toMount', x) \/ Left(x, W)'
    BY <1>1 DEF Accounted
  <2>1. OnRouter(x) \/ Listed(toMount, x) \/ Left(x, V)
    BY <1>1 DEF AllAccounted, Accounted
  <2>2. Listed(toMount, x) => Listed(toMount', x)
    BY VisitRoutes DEF MountOK
  <2>3. Left(x, V) => Listed(toMount', x) \/ Left(x, W)'
    <3>1. SUFFICES ASSUME NEW i \in DOMAIN routes, routes[i].group \notin V,
                          routes[i].method = x[1], routes[i].path = x[2]
                   PROVE  Listed(toMount', x) \/ Left(x, W)'
      BY DEF Left
    <3>2. CASE routes[i].group = g
      BY <1>2, <3>1, <3>2, VisitRoutes DEF MountOK
    <3>3. CASE routes[i].group # g
      BY <1>1, <1>3, <3>1, <3>3 DEF Left
    <3>4. QED
      BY <3>2, <3>3
  <2>4. OnRouter(x) => OnRouter(x)'
    BY <1>1 DEF OnRouter
  <2>5. QED
    BY <2>1, <2>2, <2>3, <2>4
<1>6. AllAccounted(W)'
  BY <1>1, <1>4, <1>5 DEF AllAccounted
<1>7. QED
  BY <1>6 DEF RoutesAccounted

LEMMA FlattenedAccounts ==
    ASSUME GroupsOK, NEW V, AllAccounted(V), Flattened
    PROVE  RoutesAccounted'
<1>1. /\ phase = "visiting" /\ toVisit = <<>> /\ phase' = "mounting"
      /\ UNCHANGED <<toMount, mounted, registered>>
  BY DEF Flattened, mounting
<1>2. DOMAIN groups \subseteq V
  BY <1>1, AllVisited DEF AllAccounted
<1>3. \A x : ~Left(x, V)
  BY <1>2 DEF Left, GroupsOK
<1>4. \A x \in registered' : Accounted(x, V)'
  BY <1>1, <1>3 DEF AllAccounted, Accounted, OnRouter, Listed
<1>5. AllAccounted(V)'
  BY <1>1, <1>4 DEF AllAccounted, Flattening
<1>6. QED
  BY <1>5 DEF RoutesAccounted

LEMMA AccountedStep ==
    ASSUME GroupsOK, MountOK, RoutesAccounted, [Next]_vars
    PROVE  RoutesAccounted'
<1> PICK V : AllAccounted(V)
  BY DEF RoutesAccounted
<1>1. CASE Setter
  <2>1. UNCHANGED <<phase, direct, toMount, mounted, registered, groups, routes, toVisit>>
    BY <1>1, SetterLeaves DEF grouping, mounting
  <2>2. QED
    BY <2>1, AccountedFrame
<1>2. CASE Registering
  BY <1>2, RegisteringAccounts
<1>3. CASE BuildChain
  <2>1. /\ phase = "configuring" /\ phase' = "mounting" /\ toMount' = direct
        /\ UNCHANGED <<mounted, registered>>
    BY <1>3 DEF BuildChain
  <2>2. \A x \in registered' : Accounted(x, V)'
    BY <2>1 DEF AllAccounted, Accounted, OnRouter, Listed
  <2>3. AllAccounted(V)'
    BY <2>1, <2>2 DEF AllAccounted, Flattening
  <2>4. QED
    BY <2>3 DEF RoutesAccounted
<1>4. CASE StartGroup
  <2>1. /\ phase = "mounting" /\ phase' = "callback" /\ toMount = <<>>
        /\ UNCHANGED <<toMount, mounted, registered>>
    BY <1>4 DEF StartGroup
  <2>2. PICK W : W = {}
    OBVIOUS
  <2>3. \A x \in registered' : Accounted(x, W)'
    BY <2>1 DEF AllAccounted, Accounted, OnRouter, Listed
  <2>4. AllAccounted(W)'
    BY <2>1, <2>2, <2>3 DEF AllAccounted, Flattening
  <2>5. QED
    BY <2>4 DEF RoutesAccounted
<1>5. CASE Callback
  BY <1>5, CallbackAccounts
<1>6. CASE Visit
  BY <1>6, VisitAccounts
<1>7. CASE Flattened
  BY <1>7, FlattenedAccounts
<1>8. CASE Mount
  <2>1. phase = "mounting" /\ phase' = phase /\ registered' = registered
    BY <1>8 DEF Mount
  <2>2. \A x \in registered' : Accounted(x, V)'
    <3> SUFFICES ASSUME NEW x \in registered
                 PROVE  OnRouter(x)' \/ Listed(toMount', x)
      BY <2>1 DEF Accounted
    <3>1. OnRouter(x) \/ Listed(toMount, x)
      BY <2>1 DEF AllAccounted, Accounted
    <3>2. QED
      BY <1>8, <3>1, MountOne DEF OnRouter
  <2>3. AllAccounted(V)'
    BY <2>1, <2>2 DEF AllAccounted, Flattening
  <2>4. QED
    BY <2>3 DEF RoutesAccounted
<1>9. CASE MountFails \/ ProbeFails
  <2>1. AllAccounted(V)'
    BY <1>9 DEF MountFails, ProbeFails, Fail, AllAccounted, Flattening
  <2>2. QED
    BY <2>1 DEF RoutesAccounted
<1>10. CASE Mounted \/ Serve
  <2>1. /\ phase \in {"mounting", "probing"} /\ phase' \in {"probing", "serving"}
        /\ toMount = <<>>
        /\ UNCHANGED <<direct, toMount, mounted, registered>>
    BY <1>10 DEF Mounted, Serve, mounting, AllAccounted
  <2>2. \A x \in registered' : Accounted(x, V)'
    BY <2>1 DEF AllAccounted, Accounted, OnRouter, Listed
  <2>3. AllAccounted(V)'
    BY <2>1, <2>2 DEF AllAccounted, Flattening
  <2>4. QED
    BY <2>3 DEF RoutesAccounted
<1>11. CASE MountProbe
  <2>1. UNCHANGED <<phase, direct, toMount, registered, groups, routes, toVisit>>
    BY <1>11 DEF MountProbe, grouping
  <2>2. QED
    BY <1>11, <2>1, ProbeMounts, AccountedFrame
<1>12. CASE UNCHANGED vars
  BY <1>12, AccountedFrame DEF vars, grouping, mounting
<1>13. QED
  BY <1>1, <1>2, <1>3, <1>4, <1>5, <1>6, <1>7, <1>8, <1>9, <1>10, <1>11, <1>12, NextIs
     DEF Starting

-----------------------------------------------------------------------------
(* What the manager remembers of the calls.                                *)

Setters == {"use", "override", "disable", "enable", "enable_rate_limit",
            "disable_rate_limit", "order"}

Call == [op : Setters, arg : Keys \cup Extras \cup Orders]

CallsIn(set) == Picked(calls, {i \in DOMAIN calls : calls[i].op \in set})
CallsOn(k, set) ==
    Picked(calls, {i \in DOMAIN calls : calls[i].op \in set /\ calls[i].arg = k})

RateLimitCalls == {"enable_rate_limit", "disable_rate_limit", "disable"}

Args(s) == [i \in DOMAIN s |-> s[i].arg]
LastArg(s) == IF s = <<>> THEN <<>> ELSE s[Len(s)].arg

ConfiguringOK ==
    /\ extras = Args(CallsIn({"use"})) /\ mwOrder = LastArg(CallsIn({"order"}))
    /\ order = DefaultOrder
    /\ \A k \in Keys :
          k \in overrides <=> LastCall(k, {"override"}) # "none"
    /\ \A k \in Standard :
          k \in disabled <=> LastCall(k, {"enable", "disable"}) = "disable"
    /\ "rate_limit" \notin disabled <=>
          LastCall("rate_limit", RateLimitCalls) = "enable_rate_limit"
    /\ "rate_limit" \notin disabled => "rate_limit" \in builtins

CallsOK ==
    /\ calls \in Seq(Call)
    /\ phase = "configuring" => ConfiguringOK
    /\ ChainIsAsked

\* A call that is picked is the last one picked from then on.
LEMMA CallPicked ==
    ASSUME calls \in Seq(Call), NEW op \in Setters, NEW arg \in Keys \cup Extras \cup Orders,
           calls' = Append(calls, [op |-> op, arg |-> arg])
    PROVE  /\ calls' \in Seq(Call)
           /\ \A set : CallsIn(set)' = IF op \in set
                                       THEN Append(CallsIn(set), [op |-> op, arg |-> arg])
                                       ELSE CallsIn(set)
           /\ \A k, set : CallsOn(k, set)' = IF op \in set /\ arg = k
                                             THEN Append(CallsOn(k, set),
                                                         [op |-> op, arg |-> arg])
                                             ELSE CallsOn(k, set)
<1>1. PICK c \in Call : c = [op |-> op, arg |-> arg] /\ c.op = op /\ c.arg = arg
  BY DEF Call
<1>2. PICK later \in Seq(Call) : later = Append(calls, c) /\ later = calls'
  BY <1>1, AppendProperties
<1>3. /\ Len(calls) \in Nat /\ DOMAIN calls = 1 .. Len(calls)
      /\ DOMAIN later = 1 .. Len(calls) + 1 /\ later[Len(calls) + 1] = c
      /\ \A i \in 1 .. Len(calls) : later[i] = calls[i]
      /\ Len(calls) + 1 \in 1 .. Len(calls) + 1
      /\ \A i \in 1 .. Len(calls) : i \in 1 .. Len(calls) + 1
  <2>1. /\ Len(calls) \in Nat /\ DOMAIN calls = 1 .. Len(calls)
        /\ Len(later) \in Nat /\ DOMAIN later = 1 .. Len(later)
    BY LenProperties
  <2>2. /\ Len(later) = Len(calls) + 1 /\ later[Len(calls) + 1] = c
        /\ \A i \in 1 .. Len(calls) : later[i] = calls[i]
    <3>1. /\ Len(Append(calls, c)) = Len(calls) + 1
          /\ Append(calls, c)[Len(calls) + 1] = c
          /\ \A i \in 1 .. Len(calls) : Append(calls, c)[i] = calls[i]
      BY AppendProperties
    <3>2. QED
      BY <1>2, <3>1
  <2>3. QED
    BY <2>1, <2>2
<1>4. ASSUME NEW set
      PROVE  Picked(later, {i \in DOMAIN later : later[i].op \in set})
                = IF op \in set THEN Append(CallsIn(set), c) ELSE CallsIn(set)
  <2>1. PICK old, new : /\ old = {i \in DOMAIN calls : calls[i].op \in set}
                        /\ new = {i \in DOMAIN later : later[i].op \in set}
    OBVIOUS
  <2>2. /\ \A i \in 1 .. Len(calls) : i \in old <=> i \in new
        /\ Len(calls) + 1 \in new <=> op \in set
    BY <1>1, <1>3, <2>1
  <2>3. Picked(Append(calls, c), new)
            = IF Len(calls) + 1 \in new THEN Append(Picked(calls, old), c)
              ELSE Picked(calls, old)
    BY <2>2, PickedAppend, Zenon
  <2>4. QED
    BY <1>2, <2>1, <2>2, <2>3 DEF CallsIn
<1>5. ASSUME NEW k, NEW set
      PROVE  Picked(later, {i \in DOMAIN later : later[i].op \in set /\ later[i].arg = k})
                = IF op \in set /\ arg = k THEN Append(CallsOn(k, set), c)
                  ELSE CallsOn(k, set)
  <2>1. PICK old, new :
           /\ old = {i \in DOMAIN calls : calls[i].op \in set /\ calls[i].arg = k}
           /\ new = {i \in DOMAIN later : later[i].op \in set /\ later[i].arg = k}
    OBVIOUS
  <2>2. /\ \A i \in 1 .. Len(calls) : i \in old <=> i \in new
        /\ Len(calls) + 1 \in new <=> (op \in set /\ arg = k)
    BY <1>1, <1>3, <2>1
  <2>3. Picked(Append(calls, c), new)
            = IF Len(calls) + 1 \in new THEN Append(Picked(calls, old), c)
              ELSE Picked(calls, old)
    BY <2>2, PickedAppend, Zenon
  <2>4. QED
    BY <1>2, <2>1, <2>2, <2>3 DEF CallsOn
<1>6. /\ \A set : CallsIn(set)' = Picked(later, {i \in DOMAIN later : later[i].op \in set})
      /\ \A k, set : CallsOn(k, set)'
            = Picked(later, {i \in DOMAIN later : later[i].op \in set /\ later[i].arg = k})
  BY <1>2 DEF CallsIn, CallsOn
<1>7. QED
  BY <1>1, <1>2, <1>4, <1>5, <1>6

LEMMA CallsPickedType ==
    ASSUME calls \in Seq(Call)
    PROVE  /\ \A set : CallsIn(set) \in Seq(Call)
           /\ \A k, set : CallsOn(k, set) \in Seq(Call)
<1>1. Len(calls) \in Nat /\ \A i \in 1 .. Len(calls) : calls[i] \in Call
  OBVIOUS
<1>2. ASSUME NEW set
      PROVE  Picked(calls, set) \in Seq(Call)
  BY <1>1, PickedType
<1>3. QED
  BY <1>2 DEF CallsIn, CallsOn

LEMMA LastCallIs ==
    ASSUME NEW k, NEW set
    PROVE  LastCall(k, set) = IF CallsOn(k, set) = <<>> THEN "none"
                              ELSE CallsOn(k, set)[Len(CallsOn(k, set))].op
BY DEF LastCall, CallsOn

LEMMA LastCallStep ==
    ASSUME calls \in Seq(Call), NEW op \in Setters, NEW arg \in Keys \cup Extras \cup Orders,
           calls' = Append(calls, [op |-> op, arg |-> arg]), NEW k, NEW set
    PROVE  LastCall(k, set)' = IF op \in set /\ arg = k THEN op ELSE LastCall(k, set)
<1>1. PICK on \in Seq(Call) : on = CallsOn(k, set)
  BY CallsPickedType
<1>2. PICK c \in Call : c = [op |-> op, arg |-> arg] /\ c.op = op
  BY DEF Call
<1>3. CallsOn(k, set)' = IF op \in set /\ arg = k THEN Append(on, c) ELSE on
  <2>1. CallsOn(k, set)' = IF op \in set /\ arg = k
                           THEN Append(CallsOn(k, set), [op |-> op, arg |-> arg])
                           ELSE CallsOn(k, set)
    BY CallPicked
  <2>2. QED
    BY <1>1, <1>2, <2>1
<1>4. Append(on, c) # <<>> /\ Append(on, c)[Len(Append(on, c))] = c
  BY AppendProperties
<1>5. LastCall(k, set)' = IF CallsOn(k, set)' = <<>> THEN "none"
                          ELSE CallsOn(k, set)'[Len(CallsOn(k, set)')].op
  BY DEF LastCall, CallsOn
<1>6. QED
  BY <1>1, <1>2, <1>3, <1>4, <1>5, LastCallIs

LEMMA ArgsAppend ==
    ASSUME NEW s \in Seq(Call), NEW c \in Call
    PROVE  /\ Args(Append(s, c)) = Append(Args(s), c.arg)
           /\ LastArg(Append(s, c)) = c.arg
<1>1. PICK t \in Seq(Call) : t = Append(s, c)
  BY AppendProperties
<1>2. /\ Len(s) \in Nat /\ DOMAIN s = 1 .. Len(s)
      /\ DOMAIN t = 1 .. Len(s) + 1 /\ t[Len(s) + 1] = c
      /\ \A i \in 1 .. Len(s) : t[i] = s[i]
      /\ Len(t) = Len(s) + 1 /\ t # <<>>
  <2>1. /\ Len(Append(s, c)) = Len(s) + 1 /\ Append(s, c)[Len(s) + 1] = c
        /\ \A i \in 1 .. Len(s) : Append(s, c)[i] = s[i]
        /\ Append(s, c) # <<>>
    BY AppendProperties
  <2>2. /\ Len(s) \in Nat /\ DOMAIN s = 1 .. Len(s)
        /\ Len(t) \in Nat /\ DOMAIN t = 1 .. Len(t)
    BY LenProperties
  <2>3. QED
    BY <1>1, <2>1, <2>2
<1>3. Args(t) = Append(Args(s), c.arg)
  <2> DEFINE T == {s[i].arg : i \in DOMAIN s} \cup {c.arg}
  <2>1. PICK u : u = Args(s)
    OBVIOUS
  <2>2. DOMAIN u = 1 .. Len(s) /\ \A i \in 1 .. Len(s) : u[i] = s[i].arg /\ u[i] \in T
    BY <1>2, <2>1 DEF Args
  <2>3. c.arg \in T
    OBVIOUS
  <2> HIDE DEF T
  <2>4. u \in Seq(T) /\ Len(u) = Len(s)
    <3>1. u = [i \in 1 .. Len(s) |-> u[i]]
      BY <1>2, <2>1, <2>2 DEF Args
    <3>2. u \in [1 .. Len(s) -> T]
      BY <2>2, <3>1
    <3>3. QED
      BY <1>2, <3>2
  <2>5. PICK v \in Seq(T) : v = Append(u, c.arg)
    BY <2>3, <2>4, AppendProperties
  <2>6. /\ Len(v) = Len(s) + 1 /\ v[Len(s) + 1] = c.arg
        /\ \A i \in 1 .. Len(s) : v[i] = s[i].arg
    BY <2>2, <2>3, <2>4, <2>5, AppendProperties
  <2>7. v = [i \in 1 .. Len(s) + 1 |-> v[i]]
    <3>1. DOMAIN v = 1 .. Len(v)
      BY LenProperties
    <3>2. v = [i \in DOMAIN v |-> v[i]]
      OBVIOUS
    <3>3. QED
      BY <2>6, <3>1, <3>2
  <2>8. \A i \in 1 .. Len(s) + 1 : v[i] = t[i].arg
    <3>1. \A i \in 1 .. Len(s) + 1 : i \in 1 .. Len(s) \/ i = Len(s) + 1
      BY <1>2
    <3>2. QED
      BY <1>2, <2>6, <3>1
  <2>9. Args(t) = [i \in 1 .. Len(s) + 1 |-> t[i].arg]
    BY <1>2 DEF Args
  <2>10. QED
    BY <2>1, <2>5, <2>7, <2>8, <2>9
<1>4. LastArg(t) = c.arg
  BY <1>2 DEF LastArg
<1>5. QED
  BY <1>1, <1>3, <1>4

\* What a call with an operation and an argument changes of what the manager has
\* to remember.
LEMMA Remembered ==
    ASSUME calls \in Seq(Call), NEW op \in Setters, NEW arg \in Keys \cup Extras \cup Orders,
           calls' = Append(calls, [op |-> op, arg |-> arg])
    PROVE  /\ Args(CallsIn({"use"}))'
                 = IF op = "use" THEN Append(Args(CallsIn({"use"})), arg)
                   ELSE Args(CallsIn({"use"}))
           /\ LastArg(CallsIn({"order"}))'
                 = IF op = "order" THEN arg ELSE LastArg(CallsIn({"order"}))
<1>1. PICK c \in Call : c = [op |-> op, arg |-> arg] /\ c.arg = arg
  BY DEF Call
<1>2. \A set : CallsIn(set)' = IF op \in set THEN Append(CallsIn(set), c) ELSE CallsIn(set)
  BY <1>1, CallPicked
<1>3. PICK used \in Seq(Call), ordered \in Seq(Call) :
         used = CallsIn({"use"}) /\ ordered = CallsIn({"order"})
  BY CallsPickedType
<1>4. /\ CallsIn({"use"})' = IF op = "use" THEN Append(used, c) ELSE used
      /\ CallsIn({"order"})' = IF op = "order" THEN Append(ordered, c) ELSE ordered
  BY <1>2, <1>3
<1>5. /\ Args(Append(used, c)) = Append(Args(used), arg)
      /\ LastArg(Append(ordered, c)) = arg
  BY <1>1, ArgsAppend
<1>6. /\ Args(CallsIn({"use"}))' = Args(CallsIn({"use"})')
      /\ LastArg(CallsIn({"order"}))' = LastArg(CallsIn({"order"})')
  BY DEF Args, LastArg
<1>7. QED
  BY <1>3, <1>4, <1>5, <1>6

Recorded(op, arg) ==
    /\ calls' \in Seq(Call)
    /\ \A k, set : LastCall(k, set)' = IF op \in set /\ arg = k THEN op ELSE LastCall(k, set)
    /\ Args(CallsIn({"use"}))' = IF op = "use" THEN Append(extras, arg) ELSE extras
    /\ LastArg(CallsIn({"order"}))' = IF op = "order" THEN arg ELSE mwOrder

LEMMA SetterCalls ==
    ASSUME calls \in Seq(Call), ConfiguringOK, Setter
    PROVE  calls' \in Seq(Call) /\ ConfiguringOK'
<1>1. ASSUME NEW op \in Setters, NEW arg \in Keys \cup Extras \cup Orders, Called(op, arg)
      PROVE  Recorded(op, arg)
  <2>1. calls' = Append(calls, [op |-> op, arg |-> arg])
    BY <1>1 DEF Called
  <2>2. calls' \in Seq(Call)
    BY <2>1, CallPicked
  <2>3. \A k, set : LastCall(k, set)'
                       = IF op \in set /\ arg = k THEN op ELSE LastCall(k, set)
    BY <2>1, LastCallStep
  <2>4. QED
    BY <2>1, <2>2, <2>3, Remembered DEF ConfiguringOK, Recorded
<1>2. "rate_limit" \in Keys /\ "rate_limit" \notin Standard /\ Standard \subseteq Keys
  BY OrderAssumption DEF Keys, Standard
<1>3. ASSUME NEW e \in Extras, UseGlobalMiddleware(e)
      PROVE  calls' \in Seq(Call) /\ ConfiguringOK'
  <2>1. /\ Called("use", e) /\ extras' = Append(extras, e)
        /\ UNCHANGED <<builtins, overrides, disabled, order, mwOrder>>
    BY <1>3 DEF UseGlobalMiddleware
  <2>2. Recorded("use", e)
    <3>1. "use" \in Setters /\ e \in Keys \cup Extras \cup Orders
      BY DEF Setters
    <3>2. QED
      BY <1>1, <2>1, <3>1, Zenon
  <2>3. QED
    BY <2>1, <2>2 DEF ConfiguringOK, RateLimitCalls, Recorded
<1>4. ASSUME NEW k \in Keys, OverrideMiddleware(k)
      PROVE  calls' \in Seq(Call) /\ ConfiguringOK'
  <2>1. /\ Called("override", k) /\ overrides' = overrides \cup {k}
        /\ UNCHANGED <<builtins, disabled, order, extras, mwOrder>>
    BY <1>4 DEF OverrideMiddleware
  <2>2. Recorded("override", k)
    <3>1. "override" \in Setters /\ k \in Keys \cup Extras \cup Orders
      BY DEF Setters
    <3>2. QED
      BY <1>1, <2>1, <3>1, Zenon
  <2>3. QED
    BY <2>1, <2>2 DEF ConfiguringOK, RateLimitCalls, Recorded
<1>5. ASSUME NEW k \in Keys, DisableMiddleware(k)
      PROVE  calls' \in Seq(Call) /\ ConfiguringOK'
  <2>1. /\ Called("disable", k) /\ disabled' = disabled \cup {k}
        /\ UNCHANGED <<builtins, overrides, order, extras, mwOrder>>
    BY <1>5 DEF DisableMiddleware
  <2>2. Recorded("disable", k)
    <3>1. "disable" \in Setters /\ k \in Keys \cup Extras \cup Orders
      BY DEF Setters
    <3>2. QED
      BY <1>1, <2>1, <3>1, Zenon
  <2>3. QED
    BY <1>2, <2>1, <2>2 DEF ConfiguringOK, RateLimitCalls, Recorded
<1>6. ASSUME NEW k \in Keys, EnableMiddleware(k)
      PROVE  calls' \in Seq(Call) /\ ConfiguringOK'
  <2>1. /\ Called("enable", k)
        /\ disabled' = IF k = "rate_limit" THEN disabled ELSE disabled \ {k}
        /\ UNCHANGED <<builtins, overrides, order, extras, mwOrder>>
    BY <1>6 DEF EnableMiddleware
  <2>2. Recorded("enable", k)
    <3>1. "enable" \in Setters /\ k \in Keys \cup Extras \cup Orders
      BY DEF Setters
    <3>2. QED
      BY <1>1, <2>1, <3>1, Zenon
  <2>3. QED
    BY <1>2, <2>1, <2>2 DEF ConfiguringOK, RateLimitCalls, Recorded
<1>7. CASE EnableRateLimit
  <2>1. /\ Called("enable_rate_limit", "rate_limit")
        /\ builtins' = builtins \cup {"rate_limit"} /\ disabled' = disabled \ {"rate_limit"}
        /\ UNCHANGED <<overrides, order, extras, mwOrder>>
    BY <1>7 DEF EnableRateLimit
  <2>2. Recorded("enable_rate_limit", "rate_limit")
    <3>1. "enable_rate_limit" \in Setters /\ "rate_limit" \in Keys \cup Extras \cup Orders
      BY <1>2 DEF Setters
    <3>2. QED
      BY <1>1, <2>1, <3>1, Zenon
  <2>3. QED
    BY <1>2, <2>1, <2>2 DEF ConfiguringOK, RateLimitCalls, Recorded
<1>8. CASE DisableRateLimit
  <2>1. /\ Called("disable_rate_limit", "rate_limit")
        /\ builtins' = builtins \ {"rate_limit"} /\ disabled' = disabled \cup {"rate_limit"}
        /\ UNCHANGED <<overrides, order, extras, mwOrder>>
    BY <1>8 DEF DisableRateLimit
  <2>2. Recorded("disable_rate_limit", "rate_limit")
    <3>1. "disable_rate_limit" \in Setters /\ "rate_limit" \in Keys \cup Extras \cup Orders
      BY <1>2 DEF Setters
    <3>2. QED
      BY <1>1, <2>1, <3>1, Zenon
  <2>3. QED
    BY <1>2, <2>1, <2>2 DEF ConfiguringOK, RateLimitCalls, Recorded
<1>9. ASSUME NEW keys \in Orders, SetMiddlewareOrder(keys)
      PROVE  calls' \in Seq(Call) /\ ConfiguringOK'
  <2>1. /\ Called("order", keys) /\ mwOrder' = keys
        /\ UNCHANGED <<builtins, overrides, disabled, order, extras>>
    BY <1>9 DEF SetMiddlewareOrder
  <2>2. Recorded("order", keys)
    <3>1. "order" \in Setters /\ keys \in Keys \cup Extras \cup Orders
      BY DEF Setters
    <3>2. QED
      BY <1>1, <2>1, <3>1, Zenon
  <2>3. QED
    BY <2>1, <2>2 DEF ConfiguringOK, RateLimitCalls, Recorded
<1>10. QED
  BY <1>3, <1>4, <1>5, <1>6, <1>7, <1>8, <1>9 DEF Setter

\* The order that Build goes by is the one that was asked for.
LEMMA OrderIsAsked ==
    ASSUME ConfiguringOK
    PROVE  OrderAfter(mwOrder) = AskedOrder
<1>1. CallsIn({"order"}) = Picked(calls, {i \in DOMAIN calls : calls[i].op = "order"})
  <2>1. {i \in DOMAIN calls : calls[i].op \in {"order"}}
            = {i \in DOMAIN calls : calls[i].op = "order"}
    OBVIOUS
  <2>2. QED
    BY <2>1 DEF CallsIn
<1>2. Known(<<>>) = <<>>
  BY PickedNone DEF Known
<1>3. mwOrder = LastArg(CallsIn({"order"})) /\ order = DefaultOrder
  BY DEF ConfiguringOK
<1>4. PICK set : set = CallsIn({"order"})
  OBVIOUS
<1>5. AskedOrder = IF (IF set = <<>> THEN <<>> ELSE Known(set[Len(set)].arg)) = <<>>
                   THEN DefaultOrder
                   ELSE IF set = <<>> THEN <<>> ELSE Known(set[Len(set)].arg)
  BY <1>1, <1>4 DEF AskedOrder
<1>6. CASE set = <<>>
  BY <1>2, <1>3, <1>4, <1>5, <1>6 DEF LastArg, OrderAfter
<1>7. CASE set # <<>>
  <2>1. mwOrder = set[Len(set)].arg
    BY <1>3, <1>4, <1>7 DEF LastArg
  <2>2. QED
    BY <1>3, <1>5, <1>7, <2>1 DEF OrderAfter
<1>8. QED
  BY <1>6, <1>7

\* A key of a built-in one gets into the chain if it was asked for.
LEMMA RunsIfAsked ==
    ASSUME ManagerOK, ConfiguringOK, NEW k \in Builtin
    PROVE  /\ k \notin disabled \cup {j \in Standard : ~config[j]}
           /\ k \in overrides \/ k \in builtins \cup Standard
           <=> Asked(k)
<1>1. CASE k = "rate_limit"
  <2>1. k \notin Standard
    BY <1>1 DEF Standard
  <2>2. /\ "rate_limit" \notin disabled <=>
              LastCall("rate_limit", RateLimitCalls) = "enable_rate_limit"
        /\ "rate_limit" \notin disabled => "rate_limit" \in builtins
    BY DEF ConfiguringOK
  <2>3. Asked(k) <=> LastCall("rate_limit", RateLimitCalls) = "enable_rate_limit"
    BY <1>1 DEF Asked, RateLimitCalls
  <2>4. QED
    BY <1>1, <2>1, <2>2, <2>3
<1>2. CASE k # "rate_limit"
  <2>1. k \in Standard
    BY <1>2 DEF Standard
  <2>2. k \in disabled <=> LastCall(k, {"enable", "disable"}) = "disable"
    BY <2>1 DEF ConfiguringOK
  <2>3. Asked(k) <=> config[k] /\ LastCall(k, {"enable", "disable"}) # "disable"
    BY <1>2 DEF Asked
  <2>4. k \in {j \in Standard : ~config[j]} <=> ~config[k]
    BY <2>1
  <2>5. QED
    BY <2>1, <2>2, <2>3, <2>4
<1>3. QED
  BY <1>1, <1>2

LEMMA BuildOrder ==
    ASSUME ManagerOK, BuildChain
    PROVE  order' \in Seq(Builtin)
<1>1. [Next]_vars
  BY DEF Next
<1>2. QED
  BY <1>1, ManagerStep DEF ManagerOK

\* The chain that was asked for.
From(k) == IF LastCall(k, {"override"}) = "none" THEN "builtin" ELSE "override"

Wanted ==
    LET keys == Picked(AskedOrder, {i \in DOMAIN AskedOrder : Asked(AskedOrder[i])})
        added == CallsIn({"use"})
    IN  [i \in DOMAIN keys |-> [key |-> keys[i], from |-> From(keys[i])]]
        \o [i \in DOMAIN added |-> [key |-> added[i].arg, from |-> "extra"]]

LEMMA ChainIsWanted ==
    /\ ChainIsAsked <=> (phase # "configuring" => chain = Wanted)
    /\ ChainIsAsked' <=> (phase' # "configuring" => chain' = Wanted')
<1>1. {i \in DOMAIN calls : calls[i].op \in {"use"}} = {i \in DOMAIN calls : calls[i].op = "use"}
  OBVIOUS
<1>2. {i \in DOMAIN calls' : calls'[i].op \in {"use"}}
          = {i \in DOMAIN calls' : calls'[i].op = "use"}
  OBVIOUS
<1>3. ChainIsAsked <=> (phase # "configuring" => chain = Wanted)
  BY <1>1 DEF ChainIsAsked, Wanted, From, CallsIn
<1>4. ChainIsAsked' <=> (phase' # "configuring" => chain' = Wanted')
  BY <1>2 DEF ChainIsAsked, Wanted, From, CallsIn
<1>5. QED
  BY <1>3, <1>4

LEMMA WantedStays ==
    ASSUME UNCHANGED <<calls, config>>
    PROVE  Wanted' = Wanted
BY DEF Wanted, From, CallsIn, Asked, AskedOrder, LastCall

LEMMA BuiltChain ==
    ASSUME ManagerOK, ConfiguringOK, BuildChain
    PROVE  ChainIsAsked'
<1>1. /\ builtins' = builtins \cup Standard
      /\ disabled' = disabled \cup {k \in Standard : ~config[k]}
      /\ order' = AskedOrder
      /\ UNCHANGED <<config, overrides, extras, calls>>
  BY OrderIsAsked DEF BuildChain
<1>2. PICK asked : asked = AskedOrder
  OBVIOUS
<1> DEFINE runs(k) == k \notin disabled' /\ (k \in overrides \/ k \in builtins')
<1>3. PICK keys : keys = Picked(asked, {i \in DOMAIN asked : Asked(asked[i])})
  OBVIOUS
<1>4. Picked(asked, {i \in DOMAIN asked : runs(asked[i])}) = keys
  <2>1. asked \in Seq(Builtin)
    BY <1>1, <1>2, BuildOrder
  <2>2. /\ Len(asked) \in Nat /\ DOMAIN asked = 1 .. Len(asked)
        /\ \A i \in 1 .. Len(asked) : asked[i] \in Builtin
    BY <2>1, LenProperties
  <2>3. \A i \in 1 .. Len(asked) : runs(asked[i]) <=> Asked(asked[i])
    BY <1>1, <2>2, RunsIfAsked
  <2> HIDE DEF runs
  <2>4. {i \in DOMAIN asked : runs(asked[i])} = {i \in DOMAIN asked : Asked(asked[i])}
    BY <2>2, <2>3
  <2>5. QED
    BY <1>3, <2>4
<1>5. chain' = [i \in DOMAIN keys |-> Entry(keys[i])]
               \o [i \in DOMAIN extras |-> [key |-> extras[i], from |-> "extra"]]
  BY <1>1, <1>2, <1>4 DEF BuildChain
<1>6. keys = Picked(asked, {i \in DOMAIN asked : Asked(asked[i])})
  BY <1>3
<1>7. \A i \in DOMAIN keys : Entry(keys[i]) = [key |-> keys[i], from |-> From(keys[i])]
  <2>1. order' \in Seq(Builtin)
    BY BuildOrder
  <2>2. Len(asked) \in Nat /\ \A i \in 1 .. Len(asked) : asked[i] \in Builtin
    BY <1>1, <1>2, <2>1, LenProperties
  <2>3. keys \in Seq(Builtin)
    BY <1>3, <2>2, PickedType
  <2>4. \A i \in DOMAIN keys : keys[i] \in Keys
    BY <2>3 DEF Keys
  <2>5. \A k \in Keys : k \in overrides <=> LastCall(k, {"override"}) # "none"
    BY DEF ConfiguringOK
  <2>6. QED
    BY <2>4, <2>5 DEF Entry, From
<1>8. [i \in DOMAIN extras |-> [key |-> extras[i], from |-> "extra"]]
          = [i \in DOMAIN CallsIn({"use"}) |->
                [key |-> CallsIn({"use"})[i].arg, from |-> "extra"]]
  BY DEF ConfiguringOK, Args
<1>9. chain' = Wanted
  <2>1. [i \in DOMAIN keys |-> Entry(keys[i])]
            = [i \in DOMAIN keys |-> [key |-> keys[i], from |-> From(keys[i])]]
    BY <1>7
  <2>2. QED
    BY <1>2, <1>3, <1>5, <1>8, <2>1 DEF Wanted
<1>10. QED
  BY <1>1, <1>9, WantedStays, ChainIsWanted

LEMMA RememberedStays ==
    ASSUME ConfiguringOK, UNCHANGED <<calls, manager>>
    PROVE  ConfiguringOK'
<1>1. UNCHANGED <<calls, builtins, overrides, disabled, order, extras, mwOrder>>
  BY DEF manager
<1>2. \A set : CallsIn(set)' = CallsIn(set)
  BY <1>1 DEF CallsIn
<1>3. \A k, set : LastCall(k, set)' = LastCall(k, set)
  BY <1>1 DEF LastCall
<1>4. /\ Args(CallsIn({"use"}))' = Args(CallsIn({"use"}))
      /\ LastArg(CallsIn({"order"}))' = LastArg(CallsIn({"order"}))
  BY <1>2 DEF Args, LastArg
<1>5. QED
  BY <1>1, <1>3, <1>4 DEF ConfiguringOK

LEMMA CallsStep ==
    ASSUME ManagerOK, CallsOK, [Next]_vars
    PROVE  CallsOK'
<1>1. CASE Setter
  <2>1. phase = "configuring" /\ phase' = phase
    BY <1>1, SetterLeaves
  <2>2. calls' \in Seq(Call) /\ ConfiguringOK'
    BY <1>1, <2>1, SetterCalls DEF CallsOK
  <2>3. QED
    BY <2>1, <2>2, ChainIsWanted DEF CallsOK
<1>2. CASE Registering
  <2>1. phase = "configuring" /\ phase' = phase /\ UNCHANGED <<calls, manager>>
    BY <1>2, RegisteringLeaves
  <2>2. ConfiguringOK'
    BY <2>1, RememberedStays DEF CallsOK
  <2>3. QED
    BY <2>1, <2>2, ChainIsWanted DEF CallsOK
<1>3. CASE BuildChain
  <2>1. phase = "configuring" /\ phase' = "mounting" /\ calls' = calls
    BY <1>3, BuildLeaves
  <2>2. ChainIsAsked'
    BY <1>3, <2>1, BuiltChain DEF CallsOK
  <2>3. QED
    BY <2>1, <2>2 DEF CallsOK
<1>4. CASE Starting
  <2>1. phase # "configuring" /\ phase' # "configuring" /\ UNCHANGED <<config, chain, calls>>
    BY <1>4, StartingLeaves
  <2>2. ChainIsAsked'
    BY <2>1, WantedStays, ChainIsWanted DEF CallsOK
  <2>3. QED
    BY <2>1, <2>2 DEF CallsOK
<1>5. CASE UNCHANGED vars
  <2>1. UNCHANGED <<phase, config, chain, calls, manager>>
    BY <1>5 DEF vars
  <2>2. ChainIsAsked'
    BY <2>1, WantedStays, ChainIsWanted DEF CallsOK
  <2>3. QED
    BY <2>1, <2>2, RememberedStays DEF CallsOK
<1>6. QED
  BY <1>1, <1>2, <1>3, <1>4, <1>5, NextIs

-----------------------------------------------------------------------------
(* The theorems.                                                           *)

Inv == ManagerOK /\ GroupsOK /\ MountOK /\ RoutesAccounted /\ CallsOK

LEMMA InvInit == Init => Inv
<1> SUFFICES ASSUME Init
             PROVE  Inv
  OBVIOUS
<1>1. /\ phase = "configuring" /\ config \in [Standard -> BOOLEAN]
      /\ builtins = {} /\ overrides = {} /\ disabled = {"rate_limit"}
      /\ order = DefaultOrder /\ extras = <<>> /\ mwOrder = <<>>
      /\ calls = <<>> /\ direct = <<>> /\ entries = <<>>
      /\ groups = <<>> /\ routes = <<>> /\ heap = <<>> /\ ops = 0
      /\ toVisit = <<>> /\ toMount = <<>>
      /\ mounted = {} /\ registered = {} /\ probe = 1
  BY DEF Init
<1>2. ManagerOK
  <2>1. DefaultOrder \in Seq(Builtin)
    <3>1. /\ Len(DefaultOrder) \in Nat /\ DOMAIN DefaultOrder = 1 .. Len(DefaultOrder)
          /\ DefaultOrder = [i \in DOMAIN DefaultOrder |-> DefaultOrder[i]]
      BY OrderAssumption, LenProperties
    <3>2. DefaultOrder \in [1 .. Len(DefaultOrder) -> Builtin]
      BY <3>1 DEF Builtin
    <3>3. QED
      BY <3>1, <3>2
  <2>2. "rate_limit" \in Keys
    BY OrderAssumption DEF Keys
  <2>3. QED
    BY <1>1, <2>1, <2>2 DEF ManagerOK, Phases
<1>3. GroupsOK
  BY <1>1 DEF GroupsOK
<1>4. MountOK
  <2>1. MaxOps \in Nat /\ Len(Probes) \in Nat
    BY BoundsAssumption, PathsAssumption
  <2>2. QED
    BY <1>1, <2>1 DEF MountOK
<1>5. RoutesAccounted
  <2>1. AllAccounted({})
    BY <1>1 DEF AllAccounted, Flattening
  <2>2. QED
    BY <2>1 DEF RoutesAccounted
<1>6. CallsOK
  <2>1. \A set : CallsIn(set) = <<>>
    BY <1>1, PickedNone DEF CallsIn
  <2>2. \A k, set : CallsOn(k, set) = <<>>
    BY <1>1, PickedNone DEF CallsOn
  <2>3. \A k, set : LastCall(k, set) = "none"
    BY <2>2, LastCallIs
  <2>4. Args(<<>>) = <<>> /\ LastArg(<<>>) = <<>>
    BY DEF Args, LastArg
  <2>5. "rate_limit" \notin Standard
    BY DEF Standard
  <2>6. ConfiguringOK
    BY <1>1, <2>1, <2>3, <2>4, <2>5 DEF ConfiguringOK
  <2>7. ChainIsAsked
    BY <1>1, ChainIsWanted
  <2>8. QED
    BY <1>1, <2>6, <2>7 DEF CallsOK
<1>7. QED
  BY <1>2, <1>3, <1>4, <1>5, <1>6 DEF Inv

LEMMA InvStep == Inv /\ [Next]_vars => Inv'
BY ManagerStep, GroupsStep, MountStep, AccountedStep, CallsStep DEF Inv

LEMMA InvHolds == Spec => []Inv
BY InvInit, InvStep, PTL DEF Spec

LEMMA InvType == Inv => TypeOK
<1> SUFFICES ASSUME Inv
             PROVE  TypeOK
  OBVIOUS
<1>1. ManagerOK /\ GroupsOK /\ MountOK
  BY DEF Inv
<1>2. KeptRoute \subseteq Route /\ \A A, B : A \subseteq B => \A q \in Seq(A) : q \in Seq(B)
  BY DEF KeptRoute
<1>3. direct \in Seq(Route) /\ toMount \in Seq(Route) /\ mounted \subseteq Route
  BY <1>1, <1>2 DEF MountOK
<1>4. /\ \A i \in DOMAIN groups :
            groups[i].parent \in 0 .. i - 1 /\ Lies(heap, groups[i].middleware)
      /\ \A i \in DOMAIN routes :
            routes[i].group \in DOMAIN groups /\ Lies(heap, routes[i].middleware)
  BY <1>1 DEF GroupsOK, Below, Held
<1>5. QED
  BY <1>1, <1>3, <1>4 DEF TypeOK, ManagerOK, GroupsOK, MountOK, Phases

\* Whatever the application calls in whatever order, however its route groups
\* nest and however append allocates, no slice of a group or a route leaves its
\* array, groups lie below earlier ones, so that flatten ends, and the order of
\* the middleware holds keys of built-in ones only (Manager.SetOrder,
\* RouteGroup.Use, register, Group and flatten).
THEOREM TypeCorrect == Spec => []TypeOK
BY InvHolds, InvType, PTL

\* The chain that Build returns is the one that the calls ask for: each built-in
\* one whose switch is on and whose last call did not disable it, in the order
\* asked for, its replacement if there is one, then the application's own; and
\* the rate limiter only after EnableRateLimit (Manager, Server's setters,
\* registerBuiltinMiddleware).
THEOREM ChainsAreAsked == Spec => []ChainIsAsked
<1>1. Inv => ChainIsAsked
  BY DEF Inv, CallsOK
<1>2. QED
  BY <1>1, InvHolds, PTL

\* Every route is mounted with the middleware its group had when it was
\* registered, and then its own, though the slices of groups and routes may
\* share memory; and a server that serves has every route mounted (RouteGroup,
\* Server.Start).
THEOREM RoutesKeep == Spec => []RoutesKeepTheirMiddleware
<1>1. ASSUME Inv
      PROVE  RoutesKeepTheirMiddleware
  <2>1. \A r \in mounted : r.middleware = r.owed
    BY <1>1 DEF Inv, MountOK, KeptRoute
  <2>2. ASSUME phase = "serving", NEW r \in registered
        PROVE  \E x \in mounted : x.method = r[1] /\ x.path = r[2]
    <3>1. PICK V : AllAccounted(V)
      BY <1>1 DEF Inv, RoutesAccounted
    <3>2. Accounted(r, V) /\ toMount = <<>>
      BY <2>2, <3>1 DEF AllAccounted
    <3>3. ~Listed(toMount, r)
      BY <3>2 DEF Listed
    <3>4. QED
      BY <2>2, <3>2, <3>3 DEF Accounted, OnRouter
  <2>3. QED
    BY <2>1, <2>2 DEF RoutesKeepTheirMiddleware
<1>2. QED
  BY <1>1, InvHolds, PTL
=============================================================================
