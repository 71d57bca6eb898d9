---------------------------- MODULE SeqInduction ----------------------------
(***************************************************************************)
(* Induction and recursion over the natural numbers, stated with sets and  *)
(* functions in place of predicates and operators.                         *)
(***************************************************************************)
EXTENDS SeqFunctions, TLAPS, WellFoundedInduction

\* Every non-empty set of natural numbers has a least element.
LEMMA LeastNat ==
  ASSUME NEW T, T \subseteq Nat, T # {}
  PROVE  \E m \in T : \A k \in T : m <= k
<1> DEFINE Less == {ss \in Nat \X Nat : ss[1] < ss[2]}
<1>1. IsWellFoundedOn(Less, Nat)
  BY NatLessThanWellFounded, Zenon DEF OpToRel
<1> HIDE DEF Less
<1>2. PICK m \in T : \A k \in T : <<k, m>> \notin Less
  BY <1>1, WFMin
<1>3. \A k \in T : ~(k < m)
  BY <1>2 DEF Less
<1> QED
  BY <1>2, <1>3

\* Induction.
LEMMA NatSetInduction ==
  ASSUME NEW T, 0 \in T, \A n \in Nat : n \in T => n + 1 \in T
  PROVE  Nat \subseteq T
<1> SUFFICES ASSUME ~(Nat \subseteq T) PROVE FALSE
  OBVIOUS
<1> DEFINE Bad == Nat \ T
<1>1. Bad \subseteq Nat /\ Bad # {}
  OBVIOUS
<1>2. PICK m \in Bad : \A k \in Bad : m <= k
  BY <1>1, LeastNat
<1>3. m \in Nat /\ m \notin T /\ m # 0
  BY <1>2
<1>4. m - 1 \in Nat /\ m - 1 \notin Bad
  BY <1>2, <1>3
<1> QED
  BY <1>3, <1>4

\* What begins with b and goes on with step, up to n.
Begins(S, b, step, n, h) ==
  /\ h \in [0 .. n -> S] /\ h[0] = b
  /\ \A k \in Nat : k < n => h[k + 1] = step[<<k, h[k]>>]

\* There is at most one,
LEMMA BeginsUnique ==
  ASSUME NEW S, NEW b, NEW step, NEW m \in Nat, NEW n \in Nat, NEW g, NEW h,
         Begins(S, b, step, m, g), Begins(S, b, step, n, h)
  PROVE  \A k \in Nat : k <= m /\ k <= n => g[k] = h[k]
<1> DEFINE T == {k \in Nat : k <= m /\ k <= n => g[k] = h[k]}
<1>1. 0 \in T
  BY DEF Begins
<1>2. ASSUME NEW k \in Nat, k \in T PROVE k + 1 \in T
  <2> SUFFICES ASSUME k + 1 <= m, k + 1 <= n PROVE g[k + 1] = h[k + 1]
    OBVIOUS
  <2>1. g[k] = h[k] /\ k < m /\ k < n
    BY <1>2
  <2>2. g[k + 1] = step[<<k, g[k]>>] /\ h[k + 1] = step[<<k, h[k]>>]
    BY <2>1 DEF Begins
  <2> QED
    BY <2>1, <2>2
<1> HIDE DEF T
<1>3. Nat \subseteq T
  BY <1>1, <1>2, NatSetInduction
<1> QED
  BY <1>3 DEF T

\* and there is one,
LEMMA BeginsExists ==
  ASSUME NEW S, NEW b \in S, NEW step \in [Nat \X S -> S]
  PROVE  \A n \in Nat : \E h : Begins(S, b, step, n, h)
<1> DEFINE T == {n \in Nat : \E h : Begins(S, b, step, n, h)}
<1>1. 0 \in T
  <2>1. Begins(S, b, step, 0, [k \in 0 .. 0 |-> b])
    BY DEF Begins
  <2> QED
    BY <2>1
<1>2. ASSUME NEW n \in Nat, n \in T PROVE n + 1 \in T
  <2>1. PICK h : Begins(S, b, step, n, h)
    BY <1>2
  <2> DEFINE g == [k \in 0 .. n + 1 |-> IF k <= n THEN h[k] ELSE step[<<n, h[n]>>]]
  <2>2. h \in [0 .. n -> S] /\ h[0] = b /\ h[n] \in S
    BY <2>1 DEF Begins
  <2>3. \A k \in Nat : k < n => h[k + 1] = step[<<k, h[k]>>]
    BY <2>1 DEF Begins
  <2>4. step[<<n, h[n]>>] \in S
    BY <2>2
  <2>5. g \in [0 .. n + 1 -> S] /\ g[0] = b
    BY <2>2, <2>4
  <2>6. ASSUME NEW k \in Nat, k < n + 1 PROVE g[k + 1] = step[<<k, g[k]>>]
    <3>1. CASE k < n
      <4>1. g[k] = h[k] /\ g[k + 1] = h[k + 1]
        BY <3>1
      <4> QED
        BY <2>3, <3>1, <4>1
    <3>2. CASE k = n
      <4>1. g[k] = h[n] /\ g[k + 1] = step[<<n, h[n]>>]
        BY <3>2
      <4> QED
        BY <3>2, <4>1
    <3> QED
      BY <2>6, <3>1, <3>2
  <2> HIDE DEF g
  <2>7. Begins(S, b, step, n + 1, g)
    BY <2>5, <2>6 DEF Begins
  <2> QED
    BY <2>7
<1> HIDE DEF T
<1>3. Nat \subseteq T
  BY <1>1, <1>2, NatSetInduction
<1> QED
  BY <1>3 DEF T

\* so that recursion defines a function.
Iterates(S, b, step, g) ==
  g \in [Nat -> S] /\ g[0] = b /\ \A n \in Nat : g[n + 1] = step[<<n, g[n]>>]

\* Whatever the step is, some function iterates it.
LEMMA Recursion ==
  ASSUME NEW S, NEW b \in S, NEW step \in [Nat \X S -> S]
  PROVE  \E g : Iterates(S, b, step, g)
<1> DEFINE h(n) == CHOOSE f : Begins(S, b, step, n, f)
<1> DEFINE g == [n \in Nat |-> h(n)[n]]
<1>1. \A n \in Nat : Begins(S, b, step, n, h(n))
  BY BeginsExists, Zenon
<1> HIDE DEF h
<1>2. g \in [Nat -> S]
  BY <1>1 DEF Begins
<1>3. g[0] = b
  BY <1>1 DEF Begins
<1>4. ASSUME NEW n \in Nat PROVE g[n + 1] = step[<<n, g[n]>>]
  <2>1. Begins(S, b, step, n, h(n)) /\ Begins(S, b, step, n + 1, h(n + 1))
    BY <1>1
  <2>2. h(n + 1)[n] = h(n)[n]
    BY <2>1, BeginsUnique
  <2>3. h(n + 1)[n + 1] = step[<<n, h(n + 1)[n]>>]
    BY <2>1 DEF Begins
  <2> QED
    BY <2>2, <2>3
<1> HIDE DEF g
<1>5. Iterates(S, b, step, g)
  BY <1>2, <1>3, <1>4 DEF Iterates
<1> QED
  BY <1>5
-----------------------------------------------------------------------------
(* Selection.                                                              *)

\* Picked goes through the sequence once: g is what it has at each position.
Picks(S, q, D, g) ==
  /\ g \in [Nat -> Seq(S)] /\ g[0] = <<>>
  /\ \A n \in Nat : n < Len(q) =>
       g[n + 1] = IF n + 1 \in D THEN Append(g[n], q[n + 1]) ELSE g[n]
  /\ Picked(q, D) = g[Len(q)]

\* Some function is what Picked has at each position of any sequence.
LEMMA PickedIs ==
  ASSUME NEW S, NEW q \in Seq(S), NEW D
  PROVE  \E g : Picks(S, q, D, g)
<1> DEFINE N == Len(q)
<1> DEFINE step == [p \in Nat \X Seq(S) |->
                      IF p[1] + 1 \in 1 .. N /\ p[1] + 1 \in D
                      THEN Append(p[2], q[p[1] + 1]) ELSE p[2]]
<1> DEFINE Good(f) == f = [n \in 0 .. N |->
                        IF n = 0 THEN <<>>
                        ELSE IF n \in D THEN Append(f[n - 1], q[n]) ELSE f[n - 1]]
<1>1. N \in Nat /\ \A n \in 1 .. N : q[n] \in S
  OBVIOUS
<1>2. step \in [Nat \X Seq(S) -> Seq(S)] /\ <<>> \in Seq(S)
  BY <1>1
<1>3. \A n \in Nat, s \in Seq(S) : n + 1 \in 1 .. N =>
        step[<<n, s>>] = IF n + 1 \in D THEN Append(s, q[n + 1]) ELSE s
  OBVIOUS
<1> HIDE DEF step, N
<1>0. PICK g : Iterates(Seq(S), <<>>, step, g)
  BY <1>2, Recursion, Zenon
<1>4. /\ g \in [Nat -> Seq(S)] /\ g[0] = <<>>
      /\ \A n \in Nat : g[n + 1] = step[<<n, g[n]>>]
  BY <1>0 DEF Iterates
<1>5. \A n \in Nat : n + 1 \in 1 .. N =>
        g[n + 1] = IF n + 1 \in D THEN Append(g[n], q[n + 1]) ELSE g[n]
  BY <1>3, <1>4
<1>6. Good([n \in 0 .. N |-> g[n]])
  <2> DEFINE h == [n \in 0 .. N |-> g[n]]
  <2>1. ASSUME NEW n \in 0 .. N
        PROVE  g[n] = IF n = 0 THEN <<>>
                      ELSE IF n \in D THEN Append(h[n - 1], q[n]) ELSE h[n - 1]
    <3>1. CASE n = 0
      BY <1>4, <3>1
    <3>2. CASE n # 0
      <4>1. n - 1 \in Nat /\ (n - 1) + 1 = n /\ n - 1 \in 0 .. N /\ n \in 1 .. N
        BY <1>1, <3>2
      <4>2. h[n - 1] = g[n - 1]
        BY <4>1
      <4> QED
        BY <1>5, <3>2, <4>1, <4>2
    <3> QED
      BY <3>1, <3>2
  <2> QED
    BY <2>1
<1> DEFINE f == CHOOSE h : Good(h)
<1>7. Good(f)
  BY <1>6, Zenon
<1>8. Picked(q, D) = f[N]
  BY DEF Picked, N
<1> HIDE DEF f
<1>9. f[0] = <<>> /\ \A n \in Nat : n + 1 \in 1 .. N =>
        f[n + 1] = IF n + 1 \in D THEN Append(f[n], q[n + 1]) ELSE f[n]
  <2>1. \A n \in 0 .. N : f[n] = IF n = 0 THEN <<>>
                         ELSE IF n \in D THEN Append(f[n - 1], q[n]) ELSE f[n - 1]
    BY <1>7, Zenon
  <2> HIDE DEF Good
  <2>2. f[0] = <<>>
    BY <1>1, <2>1
  <2>3. ASSUME NEW n \in Nat, n + 1 \in 1 .. N
        PROVE  f[n + 1] = IF n + 1 \in D THEN Append(f[n], q[n + 1]) ELSE f[n]
    <3>1. n + 1 \in 0 .. N /\ n + 1 # 0 /\ (n + 1) - 1 = n
      BY <1>1, <2>3
    <3> QED
      BY <2>1, <3>1, Zenon
  <2> QED
    BY <2>2, <2>3
<1> HIDE DEF Good
<1> DEFINE T == {n \in Nat : n <= N => f[n] = g[n]}
<1>10. 0 \in T
  BY <1>4, <1>9
<1>11. ASSUME NEW n \in Nat, n \in T PROVE n + 1 \in T
  <2> SUFFICES ASSUME n + 1 <= N PROVE f[n + 1] = g[n + 1]
    OBVIOUS
  <2>1. f[n] = g[n] /\ n + 1 \in 1 .. N
    BY <1>1, <1>11
  <2> QED
    BY <1>5, <1>9, <2>1, Zenon
<1> HIDE DEF T
<1>12. Nat \subseteq T
  BY <1>10, <1>11, NatSetInduction
<1>13. f[N] = g[N]
  BY <1>1, <1>12 DEF T
<1>14. \A n \in Nat : n < N => n + 1 \in 1 .. N
  BY <1>1
<1> QED
  BY <1>4, <1>5, <1>8, <1>13, <1>14 DEF N, Picks

\* It keeps the types,
LEMMA PickedType ==
  ASSUME NEW S, NEW q \in Seq(S), NEW D, NEW R,
         \A n \in DOMAIN q \cap D : q[n] \in R
  PROVE  Picked(q, D) \in Seq(R)
<1>1. PICK g : Picks(S, q, D, g)
  BY PickedIs, Zenon
<1> DEFINE T == {n \in Nat : n <= Len(q) => g[n] \in Seq(R)}
<1>2. 0 \in T
  BY <1>1 DEF Picks
<1>3. ASSUME NEW n \in Nat, n \in T PROVE n + 1 \in T
  <2> SUFFICES ASSUME n + 1 <= Len(q) PROVE g[n + 1] \in Seq(R)
    OBVIOUS
  <2>1. g[n] \in Seq(R) /\ n + 1 \in DOMAIN q /\ n < Len(q)
    BY <1>3
  <2>2. g[n + 1] = IF n + 1 \in D THEN Append(g[n], q[n + 1]) ELSE g[n]
    BY <1>1, <2>1 DEF Picks
  <2> QED
    BY <2>1, <2>2
<1> HIDE DEF T
<1>4. Nat \subseteq T
  BY <1>2, <1>3, NatSetInduction
<1>5. g[Len(q)] \in Seq(R)
  BY <1>4 DEF T
<1> QED
  BY <1>1, <1>5 DEF Picks

\* finds nothing in nothing,
LEMMA PickedEmpty == \A D : Picked(<<>>, D) = <<>>
<1> TAKE D
<1>1. PICK q : q = <<>>
  OBVIOUS
<1>2. q \in Seq({}) /\ Len(q) = 0
  BY <1>1
<1>3. PICK g : Picks({}, q, D, g)
  BY <1>2, PickedIs, Zenon
<1> QED
  BY <1>1, <1>2, <1>3 DEF Picks

\* and one element more is picked or not.
LEMMA PickedAppend ==
  ASSUME NEW S, NEW q \in Seq(S), NEW m \in S, NEW D, NEW E,
         \A n \in DOMAIN q : n \in D <=> n \in E
  PROVE  Picked(Append(q, m), E) =
           IF Len(q) + 1 \in E THEN Append(Picked(q, D), m) ELSE Picked(q, D)
<1> DEFINE r == Append(q, m)
<1>1. PICK g : Picks(S, q, D, g)
  BY PickedIs, Zenon
<1>2. r \in Seq(S) /\ Len(r) = Len(q) + 1 /\ Len(q) \in Nat
      /\ r[Len(q) + 1] = m /\ \A n \in 1 .. Len(q) : r[n] = q[n]
  OBVIOUS
<1> HIDE DEF r
<1>3. PICK h : Picks(S, r, E, h)
  BY <1>2, PickedIs, Zenon
<1> DEFINE T == {n \in Nat : n <= Len(q) => g[n] = h[n]}
<1>4. 0 \in T
  BY <1>1, <1>3 DEF Picks
<1>5. ASSUME NEW n \in Nat, n \in T PROVE n + 1 \in T
  <2> SUFFICES ASSUME n + 1 <= Len(q) PROVE g[n + 1] = h[n + 1]
    OBVIOUS
  <2>1. g[n] = h[n] /\ n < Len(q) /\ n < Len(r) /\ n + 1 \in 1 .. Len(q)
    BY <1>2, <1>5
  <2>2. n + 1 \in DOMAIN q /\ r[n + 1] = q[n + 1]
    BY <1>2, <2>1
  <2>3. n + 1 \in D <=> n + 1 \in E
    BY <2>2
  <2>4. g[n + 1] = IF n + 1 \in D THEN Append(g[n], q[n + 1]) ELSE g[n]
    BY <1>1, <2>1, Zenon DEF Picks
  <2>5. h[n + 1] = IF n + 1 \in E THEN Append(h[n], r[n + 1]) ELSE h[n]
    BY <1>3, <2>1, Zenon DEF Picks
  <2> QED
    BY <2>1, <2>2, <2>3, <2>4, <2>5, Zenon
<1> HIDE DEF T
<1>6. Nat \subseteq T
  BY <1>4, <1>5, NatSetInduction
<1>7. g[Len(q)] = h[Len(q)]
  BY <1>2, <1>6 DEF T
<1>8. h[Len(q) + 1] = IF Len(q) + 1 \in E THEN Append(h[Len(q)], m) ELSE h[Len(q)]
  <2>1. Len(q) < Len(r)
    BY <1>2
  <2>2. h[Len(q) + 1] = IF Len(q) + 1 \in E THEN Append(h[Len(q)], r[Len(q) + 1])
                                            ELSE h[Len(q)]
    BY <1>2, <1>3, <2>1, Zenon DEF Picks
  <2> QED
    BY <1>2, <2>2, Zenon
<1>9. Picked(q, D) = g[Len(q)] /\ Picked(r, E) = h[Len(q) + 1]
  BY <1>1, <1>2, <1>3, Zenon DEF Picks
<1> QED
  BY <1>7, <1>8, <1>9, Zenon DEF r

\* The lines of other kinds, with one line more.
LEMMA WithoutAppend ==
  ASSUME NEW S, NEW q \in Seq(S), NEW m \in S, NEW kinds
  PROVE  Without(Append(q, m), kinds) =
           IF m[1] \in kinds THEN Without(q, kinds)
                             ELSE Append(Without(q, kinds), m)
<1> DEFINE r == Append(q, m)
<1> DEFINE D == {i \in DOMAIN q : q[i][1] \notin kinds}
<1> DEFINE E == {i \in DOMAIN r : r[i][1] \notin kinds}
<1>1. /\ DOMAIN q = 1 .. Len(q) /\ Len(q) \in Nat /\ DOMAIN r = 1 .. Len(q) + 1
      /\ r[Len(q) + 1] = m /\ \A n \in DOMAIN q : r[n] = q[n]
  OBVIOUS
<1> HIDE DEF r
<1>2. \A n \in DOMAIN q : n \in D <=> n \in E
  BY <1>1
<1>3. Len(q) + 1 \in E <=> m[1] \notin kinds
  BY <1>1
<1> HIDE DEF D, E
<1>4. Picked(r, E) =
        IF Len(q) + 1 \in E THEN Append(Picked(q, D), m) ELSE Picked(q, D)
  BY <1>2, PickedAppend DEF r
<1> QED
  BY <1>3, <1>4 DEF Without, D, E, r

\* The lines that are of none of the kinds are lines.
LEMMA WithoutType ==
  ASSUME NEW S, NEW q \in Seq(S), NEW kinds
  PROVE  Without(q, kinds) \in Seq(S)
<1> DEFINE D == {i \in DOMAIN q : q[i][1] \notin kinds}
<1>1. Picked(q, D) \in Seq(S)
  BY PickedType
<1> QED
  BY <1>1 DEF Without

\* There are none at first.
LEMMA WithoutEmpty == \A kinds : Without(<<>>, kinds) = <<>>
BY PickedEmpty DEF Without
=============================================================================
