-------------------------- MODULE LineFormatProofs --------------------------
(***************************************************************************)
(* What the operators of LineFormat and LineWireProperties do to any strings: *)
(* what is cut, parsed, built and taken apart on a connection keeps the shape *)
(* of lines, whatever the sizes of the buffers and whatever is typed.      *)
(***************************************************************************)
EXTENDS LineWireProperties, SeqInduction, SequenceTheorems

-----------------------------------------------------------------------------
(* Induction along sequences.                                              *)

\* A set that has the empty sequence, and each longer one, has them all.
LEMMA SeqSetInduction ==
  ASSUME NEW S, NEW T, <<>> \in T,
         \A q \in Seq(S), m \in S : q \in T => Append(q, m) \in T
  PROVE  Seq(S) \subseteq T
<1> DEFINE N == {n \in Nat : \A q \in Seq(S) : Len(q) = n => q \in T}
<1>1. 0 \in N
  BY EmptySeq
<1>2. ASSUME NEW n \in Nat, n \in N PROVE n + 1 \in N
  <2> SUFFICES ASSUME NEW q \in Seq(S), Len(q) = n + 1 PROVE q \in T
    OBVIOUS
  <2>1. PICK r \in Seq(S), m \in S : q = Append(r, m)
    BY SequenceEmptyOrAppend, EmptySeq
  <2>2. Len(r) = n
    BY <2>1
  <2> QED
    BY <1>2, <2>1, <2>2
<1> HIDE DEF N
<1>3. Nat \subseteq N
  BY <1>1, <1>2, NatSetInduction
<1> QED
  BY <1>3 DEF N

-----------------------------------------------------------------------------
(* Folds.                                                                  *)

\* What Fold has at each position of q.
Folds(step, b, q, S, g) ==
  /\ g \in [Nat -> S] /\ g[0] = b
  /\ \A n \in Nat : n < Len(q) => g[n + 1] = step[<<g[n], q[n + 1]>>]
  /\ Fold(step, b, q) = g[Len(q)]

\* Some function is what Fold has at each position of any sequence.
LEMMA FoldIs ==
  ASSUME NEW S, NEW T, NEW b \in S, NEW q \in Seq(T), NEW step,
         \A s \in S, t \in T : step[<<s, t>>] \in S
  PROVE  \E g : Folds(step, b, q, S, g)
<1> DEFINE N == Len(q)
<1> DEFINE turn == [p \in Nat \X S |->
                      IF p[1] + 1 \in 1 .. N THEN step[<<p[2], q[p[1] + 1]>>] ELSE p[2]]
<1> DEFINE Good(f) == f = [n \in 0 .. N |->
                             IF n = 0 THEN b ELSE step[<<f[n - 1], q[n]>>]]
<1>1. N \in Nat /\ \A n \in 1 .. N : q[n] \in T
  OBVIOUS
<1>2. turn \in [Nat \X S -> S]
  BY <1>1
<1>3. \A n \in Nat, s \in S : n + 1 \in 1 .. N => turn[<<n, s>>] = step[<<s, q[n + 1]>>]
  OBVIOUS
<1> HIDE DEF turn, N
<1>0. PICK g : Iterates(S, b, turn, g)
  BY <1>2, Recursion, Zenon
<1>4. /\ g \in [Nat -> S] /\ g[0] = b
      /\ \A n \in Nat : g[n + 1] = turn[<<n, g[n]>>]
  BY <1>0 DEF Iterates
<1>5. \A n \in Nat : n + 1 \in 1 .. N => g[n + 1] = step[<<g[n], q[n + 1]>>]
  BY <1>3, <1>4
<1>6. Good([n \in 0 .. N |-> g[n]])
  <2> DEFINE h == [n \in 0 .. N |-> g[n]]
  <2>1. ASSUME NEW n \in 0 .. N
        PROVE  g[n] = IF n = 0 THEN b ELSE step[<<h[n - 1], q[n]>>]
    <3>1. CASE n = 0
      BY <1>4, <3>1
    <3>2. CASE n # 0
      <4>1. n - 1 \in Nat /\ (n - 1) + 1 = n /\ n - 1 \in 0 .. N /\ n \in 1 .. N
        BY <1>1, <3>2
      <4>2. h[n - 1] = g[n - 1]
        BY <4>1
      <4> QED
        BY <1>5, <3>2, <4>1, <4>2
    <3> QED
      BY <3>1, <3>2
  <2> QED
    BY <2>1
<1> DEFINE f == CHOOSE h : Good(h)
<1>7. Good(f)
  BY <1>6, Zenon
<1>8. Fold(step, b, q) = f[N]
  BY DEF Fold, N
<1> HIDE DEF f
<1>9. f[0] = b /\ \A n \in Nat : n + 1 \in 1 .. N => f[n + 1] = step[<<f[n], q[n + 1]>>]
  <2>1. \A n \in 0 .. N : f[n] = IF n = 0 THEN b ELSE step[<<f[n - 1], q[n]>>]
    BY <1>7, Zenon
  <2> HIDE DEF Good
  <2>2. f[0] = b
    <3>1. 0 \in 0 .. N
      BY <1>1
    <3> QED
      BY <2>1, <3>1, Zenon
  <2>3. ASSUME NEW n \in Nat, n + 1 \in 1 .. N
        PROVE  f[n + 1] = step[<<f[n], q[n + 1]>>]
    <3>1. n + 1 \in 0 .. N /\ n + 1 # 0 /\ (n + 1) - 1 = n
      BY <1>1, <2>3
    <3> QED
      BY <2>1, <3>1, Zenon
  <2> QED
    BY <2>2, <2>3
<1> HIDE DEF Good
<1> DEFINE A == {n \in Nat : n <= N => f[n] = g[n]}
<1>10. 0 \in A
  BY <1>4, <1>9
<1>11. ASSUME NEW n \in Nat, n \in A PROVE n + 1 \in A
  <2> SUFFICES ASSUME n + 1 <= N PROVE f[n + 1] = g[n + 1]
    OBVIOUS
  <2>1. f[n] = g[n] /\ n + 1 \in 1 .. N
    BY <1>1, <1>11
  <2> QED
    BY <1>5, <1>9, <2>1, Zenon
<1> HIDE DEF A
<1>12. Nat \subseteq A
  BY <1>10, <1>11, NatSetInduction
<1>13. f[N] = g[N]
  BY <1>1, <1>12 DEF A
<1>14. \A n \in Nat : n < N => n + 1 \in 1 .. N
  BY <1>1
<1> QED
  BY <1>4, <1>5, <1>8, <1>13, <1>14 DEF N, Folds

\* Nothing to go through,
LEMMA FoldEmpty == \A step, b : Fold(step, b, <<>>) = b
<1> TAKE step, b
<1>1. PICK q : q = <<>>
  OBVIOUS
<1>2. q \in Seq({}) /\ Len(q) = 0
  BY <1>1
<1>3. b \in {b} /\ \A s \in {b}, t \in {} : step[<<s, t>>] \in {b}
  OBVIOUS
<1>4. PICK B, E : B = {b} /\ E = {}
  OBVIOUS
<1>5. b \in B /\ q \in Seq(E) /\ \A s \in B, t \in E : step[<<s, t>>] \in B
  BY <1>2, <1>3, <1>4
<1>6. PICK g : Folds(step, b, q, B, g)
  BY <1>5, FoldIs
<1> QED
  BY <1>1, <1>2, <1>6 DEF Folds

\* what each step keeps,
LEMMA FoldType ==
  ASSUME NEW S, NEW T, NEW b \in S, NEW q \in Seq(T), NEW step,
         \A s \in S, t \in T : step[<<s, t>>] \in S
  PROVE  Fold(step, b, q) \in S
<1>1. PICK g : Folds(step, b, q, S, g)
  BY FoldIs
<1> QED
  BY <1>1 DEF Folds

\* and one step more.
LEMMA FoldAppend ==
  ASSUME NEW S, NEW T, NEW b \in S, NEW q \in Seq(T), NEW step, NEW m \in T,
         \A s \in S, t \in T : step[<<s, t>>] \in S
  PROVE  Fold(step, b, Append(q, m)) = step[<<Fold(step, b, q), m>>]
<1> DEFINE r == Append(q, m)
<1>1. PICK g : Folds(step, b, q, S, g)
  BY FoldIs
<1>2. r \in Seq(T) /\ Len(r) = Len(q) + 1 /\ Len(q) \in Nat
      /\ r[Len(q) + 1] = m /\ \A n \in 1 .. Len(q) : r[n] = q[n]
  OBVIOUS
<1> HIDE DEF r
<1>3. PICK h : Folds(step, b, r, S, h)
  BY <1>2, FoldIs
<1> DEFINE A == {n \in Nat : n <= Len(q) => g[n] = h[n]}
<1>4. 0 \in A
  BY <1>1, <1>3 DEF Folds
<1>5. ASSUME NEW n \in Nat, n \in A PROVE n + 1 \in A
  <2> SUFFICES ASSUME n + 1 <= Len(q) PROVE g[n + 1] = h[n + 1]
    OBVIOUS
  <2>1. g[n] = h[n] /\ n < Len(q) /\ n < Len(r) /\ r[n + 1] = q[n + 1]
    BY <1>2, <1>5
  <2>2. g[n + 1] = step[<<g[n], q[n + 1]>>]
    BY <1>1, <2>1, Zenon DEF Folds
  <2>3. h[n + 1] = step[<<h[n], r[n + 1]>>]
    BY <1>3, <2>1, Zenon DEF Folds
  <2> QED
    BY <2>1, <2>2, <2>3, Zenon
<1> HIDE DEF A
<1>6. Nat \subseteq A
  BY <1>4, <1>5, NatSetInduction
<1>7. g[Len(q)] = h[Len(q)]
  BY <1>2, <1>6 DEF A
<1>8. h[Len(q) + 1] = step[<<h[Len(q)], m>>]
  <2>1. Len(q) < Len(r)
    BY <1>2
  <2>2. h[Len(q) + 1] = step[<<h[Len(q)], r[Len(q) + 1]>>]
    BY <1>2, <1>3, <2>1, Zenon DEF Folds
  <2> QED
    BY <1>2, <2>2, Zenon
<1>9. Fold(step, b, q) = g[Len(q)] /\ Fold(step, b, r) = h[Len(q) + 1]
  BY <1>1, <1>2, <1>3, Zenon DEF Folds
<1> QED
  BY <1>7, <1>8, <1>9, Zenon DEF r

-----------------------------------------------------------------------------
(* Sequences of sequences.                                                 *)

\* Functions to sequences.
Maps(T, S) == [T -> Seq(S)]

\* One sequence after another, as an operator that the provers do not expand.
Cat(a, b) == a \o b

\* It does not matter which two of three sequences are joined first,
LEMMA Regroup ==
  \A S : \A a, b, c \in Seq(S) : Cat(Cat(a, b), c) = Cat(a, Cat(b, c))
BY ConcatAssociative, Zenon DEF Cat

\* nor whether an empty one is there.
LEMMA CatEmpty == \A S : \A a \in Seq(S) : Cat(a, <<>>) = a /\ Cat(<<>>, a) = a
BY ConcatEmptySeq, Zenon DEF Cat

\* Its type, what it makes of none, and of one element more.
LEMMA FlatMapAppend ==
  ASSUME NEW S, NEW T, NEW g \in Maps(T, S), NEW q \in Seq(T)
  PROVE  /\ FlatMap(S, g, <<>>) = <<>>
         /\ FlatMap(S, g, q) \in Seq(S)
         /\ \A m \in T : /\ FlatMap(S, g, Append(q, m)) = Cat(FlatMap(S, g, q), g[m])
                         /\ g[m] \in Seq(S)
<1> DEFINE step == [p \in Seq(S) \X DOMAIN g |-> p[1] \o g[p[2]]]
<1>1. \A s \in Seq(S), t \in T : g[t] \in Seq(S) /\ s \o g[t] \in Seq(S) /\ DOMAIN g = T
  BY DEF Maps
<1>2. \A s \in Seq(S), t \in T : step[<<s, t>>] = s \o g[t]
  BY <1>1
<1>3. \A s \in Seq(S), t \in T : step[<<s, t>>] \in Seq(S)
  BY <1>1, <1>2
<1>4. PICK R, b : R = Seq(S) /\ b = <<>>
  OBVIOUS
<1>5. \A r : FlatMap(S, g, r) = Fold(step, b, r)
  BY <1>4 DEF FlatMap
<1> HIDE DEF step
<1>6. b \in R /\ \A s \in R, t \in T : step[<<s, t>>] \in R
  BY <1>3, <1>4
<1>7. /\ Fold(step, b, q) \in R /\ Fold(step, b, <<>>) = b
      /\ \A m \in T : Fold(step, b, Append(q, m)) = step[<<Fold(step, b, q), m>>]
  BY <1>6, FoldType, FoldAppend, FoldEmpty
<1>8. \A m \in T : step[<<Fold(step, b, q), m>>] = Fold(step, b, q) \o g[m]
  BY <1>2, <1>4, <1>7
<1>9. \A m \in T : g[m] \in Seq(S)
  BY <1>1, <1>4, <1>6
<1>10. \A m \in T : FlatMap(S, g, Append(q, m)) = Cat(FlatMap(S, g, q), g[m])
  BY <1>5, <1>7, <1>8, Zenon DEF Cat
<1> QED
  BY <1>4, <1>5, <1>7, <1>9, <1>10

\* Two sequences after one another.
LEMMA FlatMapConcat ==
  ASSUME NEW S, NEW T, NEW g \in Maps(T, S), NEW q \in Seq(T), NEW r \in Seq(T)
  PROVE  FlatMap(S, g, Cat(q, r)) = Cat(FlatMap(S, g, q), FlatMap(S, g, r))
<1> DEFINE F(x) == FlatMap(S, g, x)
<1> DEFINE A == {x \in Seq(T) : F(Cat(q, x)) = Cat(F(q), F(x))}
<1>1. F(<<>>) = <<>> /\ \A x \in Seq(T) : F(x) \in Seq(S)
  BY FlatMapAppend
<1>2. \A x \in Seq(T), m \in T : F(Append(x, m)) = Cat(F(x), g[m]) /\ g[m] \in Seq(S)
  BY FlatMapAppend
<1> HIDE DEF F
<1>3. <<>> \in A
  BY <1>1, CatEmpty
<1>4. ASSUME NEW x \in Seq(T), NEW m \in T, x \in A PROVE Append(x, m) \in A
  <2>1. Cat(q, Append(x, m)) = Append(Cat(q, x), m) /\ Cat(q, x) \in Seq(T)
    BY DEF Cat
  <2>2. F(Cat(q, Append(x, m))) = Cat(F(Cat(q, x)), g[m])
    BY <1>2, <2>1
  <2>3. F(Cat(q, x)) = Cat(F(q), F(x))
    BY <1>4
  <2>4. F(q) \in Seq(S) /\ F(x) \in Seq(S) /\ g[m] \in Seq(S)
    BY <1>1, <1>2
  <2>5. Cat(Cat(F(q), F(x)), g[m]) = Cat(F(q), Cat(F(x), g[m]))
    BY <2>4, Regroup
  <2>6. Cat(F(x), g[m]) = F(Append(x, m))
    BY <1>2
  <2> QED
    BY <2>2, <2>3, <2>5, <2>6
<1> HIDE DEF A
<1>5. Seq(T) \subseteq A
  BY <1>3, <1>4, SeqSetInduction
<1> QED
  BY <1>5 DEF A, F

\* One sequence.
LEMMA FlatMapOne ==
  ASSUME NEW S, NEW T, NEW g \in Maps(T, S), NEW m \in T
  PROVE  FlatMap(S, g, <<m>>) = g[m]
<1>1. <<m>> = Append(<<>>, m) /\ <<>> \in Seq(T)
  OBVIOUS
<1>2. PICK e : e = <<>>
  OBVIOUS
<1>3. e \in Seq(T) /\ <<m>> = Append(e, m)
  BY <1>1, <1>2
<1>4. FlatMap(S, g, Append(e, m)) = Cat(FlatMap(S, g, e), g[m])
      /\ FlatMap(S, g, <<>>) = <<>> /\ g[m] \in Seq(S)
  BY <1>3, FlatMapAppend
<1>5. Cat(<<>>, g[m]) = g[m]
  BY <1>4, CatEmpty
<1> QED
  BY <1>2, <1>3, <1>4, <1>5

-----------------------------------------------------------------------------
(* Strings and their parts.                                                *)

\* The sizes.
LEMMA Sizes ==
  /\ MaxMsg \in Nat /\ MaxChat \in Nat /\ MaxName \in Nat /\ Cap \in Nat
  /\ MaxChat >= 2 /\ MaxName >= 2 /\ Cap > 0
  /\ MaxName + MaxName + MaxChat + 1 <= MaxMsg - 1
BY LimitsAssumption, CapAssumption DEF Fits

\* A string cut to n symbols.
LEMMA CutIs ==
  ASSUME NEW S, NEW s \in Seq(S), NEW n \in Nat
  PROVE  /\ Cut(s, n) \in Seq(S) /\ Len(Cut(s, n)) <= n /\ Len(Cut(s, n)) <= Len(s)
         /\ Len(s) <= n => Cut(s, n) = s
         /\ Len(s) >= n => Len(Cut(s, n)) = n
         /\ \A i \in 1 .. Len(Cut(s, n)) : Cut(s, n)[i] = s[i]
BY DEF Cut

\* The first position of a mark.
LEMMA FirstIs ==
  ASSUME NEW S, NEW s \in Seq(S), NEW marks
  PROVE  /\ First(s, marks) \in 0 .. Len(s)
         /\ First(s, marks) = 0 => \A i \in 1 .. Len(s) : s[i] \notin marks
         /\ First(s, marks) # 0 => /\ s[First(s, marks)] \in marks
                                   /\ \A i \in 1 .. First(s, marks) - 1 : s[i] \notin marks
<1>1. CASE \A i \in DOMAIN s : s[i] \notin marks
  BY <1>1 DEF First
<1>2. CASE \E i \in DOMAIN s : s[i] \in marks
  <2> DEFINE T == {i \in DOMAIN s : s[i] \in marks}
  <2>1. T \subseteq Nat /\ T # {}
    BY <1>2
  <2>2. PICK m \in T : \A k \in T : m <= k
    BY <2>1, LeastNat
  <2>3. m \in DOMAIN s /\ s[m] \in marks /\ \A j \in 1 .. m - 1 : s[j] \notin marks
    BY <2>2
  <2>4. First(s, marks) = CHOOSE i \in DOMAIN s :
          s[i] \in marks /\ \A j \in 1 .. i - 1 : s[j] \notin marks
    BY <1>2 DEF First
  <2>5. /\ First(s, marks) \in DOMAIN s /\ s[First(s, marks)] \in marks
        /\ \A j \in 1 .. First(s, marks) - 1 : s[j] \notin marks
    BY <2>3, <2>4, Zenon
  <2> QED
    BY <2>5
<1> QED
  BY <1>1, <1>2

\* The part of s between two positions.
Part(x, s) ==
  \E i \in Nat : /\ i + Len(x) <= Len(s)
                 /\ \A k \in 1 .. Len(x) : x[k] = s[i + k]

\* No newline but at the end; no newline.
OnlyLast(s) == \A i \in 1 .. Len(s) - 1 : s[i] # NL
NoNL(s) == \A i \in 1 .. Len(s) : s[i] # NL

\* A part of a string has its newline at the end too, or none.
LEMMA PartOnlyLast ==
  ASSUME NEW S, NEW s \in Seq(S), NEW x \in Seq(S), Part(x, s)
  PROVE  /\ OnlyLast(s) => OnlyLast(x)
         /\ NoNL(s) => NoNL(x)
         /\ Len(x) <= Len(s)
<1>1. PICK i \in Nat : /\ i + Len(x) <= Len(s)
                       /\ \A k \in 1 .. Len(x) : x[k] = s[i + k]
  BY DEF Part
<1>2. Len(x) \in Nat /\ Len(s) \in Nat
  OBVIOUS
<1>3. \A k \in 1 .. Len(x) : i + k \in 1 .. Len(s)
  BY <1>1, <1>2
<1>4. \A k \in 1 .. Len(x) - 1 : k \in 1 .. Len(x) /\ i + k \in 1 .. Len(s) - 1
  BY <1>1, <1>2
<1>5. OnlyLast(s) => OnlyLast(x)
  BY <1>1, <1>4, Zenon DEF OnlyLast
<1>6. NoNL(s) => NoNL(x)
  BY <1>1, <1>3, Zenon DEF NoNL
<1> QED
  BY <1>1, <1>2, <1>5, <1>6

\* The elements of a subsequence.
LEMMA SubSeqIs ==
  ASSUME NEW S, NEW s \in Seq(S), NEW i \in 1 .. Len(s) + 1, NEW j \in 0 .. Len(s)
  PROVE  /\ SubSeq(s, i, j) \in Seq(S)
         /\ Len(SubSeq(s, i, j)) = IF i <= j THEN j - i + 1 ELSE 0
         /\ \A k \in 1 .. j - i + 1 : SubSeq(s, i, j)[k] = s[(i - 1) + k]
<1>1. i \in Int /\ j \in Int /\ \A k \in i .. j : s[k] \in S
  OBVIOUS
<1>2. /\ SubSeq(s, i, j) \in Seq(S)
      /\ Len(SubSeq(s, i, j)) = IF i <= j THEN j - i + 1 ELSE 0
      /\ \A k \in 1 .. j - i + 1 : SubSeq(s, i, j)[k] = s[i + k - 1]
  BY <1>1, SubSeqProperties
<1>3. \A k \in 1 .. j - i + 1 : i + k - 1 = (i - 1) + k
  OBVIOUS
<1> QED
  BY <1>2, <1>3

\* It is a part of the sequence.
LEMMA PartSubSeq ==
  ASSUME NEW S, NEW s \in Seq(S), NEW i \in 1 .. Len(s) + 1, NEW j \in 0 .. Len(s)
  PROVE  SubSeq(s, i, j) \in Seq(S) /\ Part(SubSeq(s, i, j), s)
<1> DEFINE x == SubSeq(s, i, j)
<1>1. /\ x \in Seq(S) /\ Len(x) = IF i <= j THEN j - i + 1 ELSE 0
      /\ \A k \in 1 .. j - i + 1 : x[k] = s[(i - 1) + k]
  BY SubSeqIs
<1>2. i - 1 \in Nat /\ Len(s) \in Nat
  OBVIOUS
<1> SUFFICES x \in Seq(S) /\ Part(x, s)
  OBVIOUS
<1> HIDE DEF x
<1>3. CASE i <= j
  <2>1. PICK m : m = i - 1
    OBVIOUS
  <2>2. m \in Nat /\ m + Len(x) <= Len(s) /\ Len(x) = j - i + 1
    BY <1>1, <1>2, <1>3, <2>1
  <2>3. \A k \in 1 .. Len(x) : x[k] = s[m + k]
    BY <1>1, <2>1, <2>2
  <2> QED
    BY <1>1, <2>2, <2>3 DEF Part
<1>4. CASE i > j
  <2>1. Len(x) = 0 /\ 0 + Len(x) <= Len(s)
    BY <1>1, <1>2, <1>4
  <2>2. \A k \in 1 .. Len(x) : x[k] = s[0 + k]
    BY <2>1
  <2> QED
    BY <1>1, <2>1, <2>2 DEF Part
<1> QED
  BY <1>3, <1>4

\* So is what stands before a mark,
LEMMA BeforeIs ==
  ASSUME NEW S, NEW s \in Seq(S), NEW ch
  PROVE  Before(s, ch) \in Seq(S) /\ Part(Before(s, ch), s)
<1>1. Find(s, ch) \in 0 .. Len(s)
  BY FirstIs DEF Find
<1>2. Len(s) \in Nat /\ SubSeq(s, 1, Len(s)) = s
  OBVIOUS
<1>3. Before(s, ch) = SubSeq(s, 1, IF Find(s, ch) = 0 THEN Len(s) ELSE Find(s, ch) - 1)
  BY <1>2 DEF Before
<1> QED
  BY <1>1, <1>2, <1>3, PartSubSeq

\* what stands after it,
LEMMA AfterIs ==
  ASSUME NEW S, NEW s \in Seq(S), NEW ch
  PROVE  After(s, ch) \in Seq(S) /\ Part(After(s, ch), s)
<1>1. Find(s, ch) \in 0 .. Len(s)
  BY FirstIs DEF Find
<1>2. Len(s) \in Nat /\ SubSeq(s, Len(s) + 1, Len(s)) = <<>>
  OBVIOUS
<1> DEFINE i == IF Find(s, ch) = 0 THEN Len(s) + 1 ELSE Find(s, ch) + 1
<1>3. After(s, ch) = SubSeq(s, i, Len(s))
  BY <1>2 DEF After
<1>4. i \in 1 .. Len(s) + 1 /\ Len(s) \in 0 .. Len(s)
  BY <1>1, <1>2
<1> HIDE DEF i
<1> QED
  BY <1>3, <1>4, PartSubSeq

\* and what strtok leaves of a string that begins with spaces.
LEMMA SkipIs ==
  ASSUME NEW S, NEW s \in Seq(S)
  PROVE  SkipSpaces(s) \in Seq(S) /\ Part(SkipSpaces(s), s)
<1> DEFINE i == First(s, Symbols \ {Space})
<1>1. i \in 0 .. Len(s)
  BY FirstIs
<1>2. Len(s) \in Nat /\ SubSeq(s, Len(s) + 1, Len(s)) = <<>>
  OBVIOUS
<1>3. SkipSpaces(s) = SubSeq(s, IF i = 0 THEN Len(s) + 1 ELSE i, Len(s))
  BY <1>2 DEF SkipSpaces
<1> HIDE DEF i
<1> QED
  BY <1>1, <1>2, <1>3, PartSubSeq

\* What is typed, cut and trimmed, has no newline.
LEMMA TextIs ==
  ASSUME NEW S, NEW s \in Seq(S), OnlyLast(s)
  PROVE  /\ Text(s) \in Seq(S) /\ Len(Text(s)) < MaxChat /\ NoNL(Text(s))
         /\ s = <<>> => Text(s) = <<>>
<1> DEFINE x == Cut(s, MaxChat - 1)
<1>1. /\ x \in Seq(S) /\ Len(x) <= MaxChat - 1 /\ Len(x) <= Len(s) /\ MaxChat \in Nat
      /\ \A i \in 1 .. Len(x) : x[i] = s[i]
  <2>1. PICK n \in Nat : n = MaxChat - 1
    BY Sizes
  <2>2. /\ Cut(s, n) \in Seq(S) /\ Len(Cut(s, n)) <= n /\ Len(Cut(s, n)) <= Len(s)
        /\ \A i \in 1 .. Len(Cut(s, n)) : Cut(s, n)[i] = s[i]
    BY CutIs
  <2> QED
    BY <2>1, <2>2, Sizes
<1>2. OnlyLast(x)
  BY <1>1 DEF OnlyLast
<1> HIDE DEF x
<1>3. CASE x # <<>> /\ x[Len(x)] = NL
  <2>1. Text(s) = SubSeq(x, 1, Len(x) - 1)
    BY <1>3 DEF Text, TrimNewline, x
  <2>2. Text(s) \in Seq(S) /\ Len(Text(s)) = Len(x) - 1
        /\ \A i \in 1 .. Len(x) - 1 : Text(s)[i] = x[i]
    <3>1. x \in Seq(S) /\ Len(x) \in Nat \ {0}
      BY <1>1, <1>3, EmptySeq
    <3>2. PICK j : j = Len(x) - 1
      OBVIOUS
    <3>3. j \in 0 .. Len(x) /\ 1 \in 1 .. Len(x) + 1
      BY <3>1, <3>2
    <3>4. /\ SubSeq(x, 1, j) \in Seq(S) /\ Len(SubSeq(x, 1, j)) = IF 1 <= j THEN j - 1 + 1 ELSE 0
          /\ \A k \in 1 .. j - 1 + 1 : SubSeq(x, 1, j)[k] = x[(1 - 1) + k]
      BY <3>1, <3>3, SubSeqIs
    <3> QED
      BY <2>1, <3>2, <3>3, <3>4
  <2>3. s # <<>>
    BY <1>1, <1>3
  <2> QED
    BY <1>1, <1>2, <2>2, <2>3 DEF OnlyLast, NoNL
<1>4. CASE ~(x # <<>> /\ x[Len(x)] = NL)
  <2>1. Text(s) = x
    BY <1>4 DEF Text, TrimNewline, x
  <2> QED
    BY <1>1, <1>2, <1>4, <2>1 DEF OnlyLast, NoNL
<1> QED
  BY <1>3, <1>4

-----------------------------------------------------------------------------
\* What a sender may send: a line, or as much of one as fits in a buffer.
Sendable(l) ==
  /\ l \in Seq(Symbols) /\ Len(l) > 0 /\ Len(l) <= MaxMsg - 1
  /\ l[Len(l)] = NL \/ (Len(l) = MaxMsg - 1 /\ NoNL(l))

\* What a reader takes for one line.
Frame(f) == Sendable(f) /\ OnlyLast(f)

\* What the repository's client sends.
Command(c) ==
  /\ Frame(c) /\ c[Len(c)] = NL /\ Len(c) >= 2
  /\ c[1] \in {"LIST", "MSG", "BROADCAST"}
  /\ Len(c) <= MaxName + MaxChat + 2
  /\ c[1] = "BROADCAST" => Len(c) <= MaxChat + 2

\* The marks are symbols, and no two of them that a line needs are the same.
LEMMA SymbolsAre ==
  /\ {Bar, Semicolon, NL} \subseteq Symbols /\ Alphabet \subseteq Symbols
  /\ Bar # NL /\ Semicolon # NL /\ Bar # Backslash /\ Bar # Semicolon
<1>1. Bar # NL /\ Semicolon # NL /\ Bar # Backslash /\ Bar # Semicolon
  BY Zenon DEF Bar, Semicolon, NL, Backslash
<1>2. {Bar, Semicolon, NL} \subseteq Symbols /\ Alphabet \subseteq Symbols
  BY Zenon DEF Symbols
<1> QED
  BY <1>1, <1>2, Zenon

\* Strings of no symbol and of one.
LEMMA Singles ==
  ASSUME NEW S
  PROVE  <<>> \in Seq(S) /\ \A a \in S : <<a>> \in Seq(S)
OBVIOUS

\* Two strings and what is between them.
Glue(a, sep, b) == a \o <<sep>> \o b

\* What is glued together has no newline when its parts and the mark have none.
LEMMA Glued ==
  ASSUME NEW a \in Seq(Symbols), NEW b \in Seq(Symbols), NEW sep \in Symbols
  PROVE  /\ Glue(a, sep, b) \in Seq(Symbols)
         /\ Len(Glue(a, sep, b)) = Len(a) + 1 + Len(b)
         /\ NoNL(a) /\ NoNL(b) /\ sep # NL => NoNL(Glue(a, sep, b))
         /\ Len(a) > 0 => Glue(a, sep, b)[1] = a[1]
<1> DEFINE x == a \o <<sep>>
<1> DEFINE y == x \o b
<1>1. /\ x \in Seq(Symbols) /\ Len(x) = Len(a) + 1 /\ Len(a) \in Nat /\ Len(b) \in Nat
      /\ \A i \in 1 .. Len(x) : x[i] = IF i <= Len(a) THEN a[i] ELSE sep
  OBVIOUS
<1> HIDE DEF x
<1>2. /\ y \in Seq(Symbols) /\ Len(y) = Len(x) + Len(b)
      /\ \A i \in 1 .. Len(y) : y[i] = IF i <= Len(x) THEN x[i] ELSE b[i - Len(x)]
  <2>1. x \in Seq(Symbols)
    BY <1>1
  <2> QED
    BY <2>1, ConcatProperties
<1> HIDE DEF y
<1>3. ASSUME NoNL(a), NoNL(b), sep # NL PROVE NoNL(y)
  <2>1. ASSUME NEW i \in 1 .. Len(y) PROVE y[i] # NL
    <3>1. CASE i <= Len(x)
      BY <1>1, <1>2, <1>3, <3>1 DEF NoNL
    <3>2. CASE i > Len(x)
      <4>1. i - Len(x) \in 1 .. Len(b)
        BY <1>1, <1>2, <3>2
      <4> QED
        BY <1>1, <1>2, <1>3, <3>2, <4>1 DEF NoNL
    <3> QED
      BY <1>1, <3>1, <3>2
  <2> QED
    BY <2>1 DEF NoNL
<1>4. Len(a) > 0 => y[1] = a[1]
  BY <1>1, <1>2
<1> QED
  BY <1>1, <1>2, <1>3, <1>4 DEF Glue, x, y

\* Join as a step of a fold.
Gluing(sep) == [p \in Seq(Symbols) \X Seq(Symbols) |-> p[1] \o <<sep>> \o p[2]]

\* One field more.
LEMMA JoinAppend ==
  ASSUME NEW a \in Seq(Symbols), NEW q \in Seq(Seq(Symbols)), NEW b \in Seq(Symbols),
         NEW sep \in Symbols
  PROVE  /\ Fold(Gluing(sep), a, q) \in Seq(Symbols)
         /\ Fold(Gluing(sep), a, Append(q, b)) = Glue(Fold(Gluing(sep), a, q), sep, b)
<1>1. \A s, t \in Seq(Symbols) : Gluing(sep)[<<s, t>>] = Glue(s, sep, t)
  BY DEF Glue, Gluing
<1>2. \A s, t \in Seq(Symbols) : Gluing(sep)[<<s, t>>] \in Seq(Symbols)
  BY <1>1, Glued
<1>3. PICK S : S = Seq(Symbols)
  OBVIOUS
<1>4. a \in S /\ q \in Seq(S) /\ b \in S /\ \A s, t \in S : Gluing(sep)[<<s, t>>] \in S
  BY <1>2, <1>3
<1>5. Fold(Gluing(sep), a, q) \in S
  BY <1>4, FoldType
<1>6. Fold(Gluing(sep), a, Append(q, b)) = Gluing(sep)[<<Fold(Gluing(sep), a, q), b>>]
  BY <1>4, FoldAppend
<1> QED
  BY <1>1, <1>3, <1>5, <1>6

\* Joining one, two and three fields.
LEMMA JoinFew ==
  ASSUME NEW a \in Seq(Symbols), NEW b \in Seq(Symbols), NEW c \in Seq(Symbols),
         NEW sep \in Symbols
  PROVE  /\ Join(<<a>>, sep) = a
         /\ Join(<<a, b>>, sep) = Glue(a, sep, b)
         /\ Join(<<a, b, c>>, sep) = Glue(Glue(a, sep, b), sep, c)
<1> DEFINE F(q) == Fold(Gluing(sep), a, q)
<1>1. PICK e, one : e = <<>> /\ one = <<b>>
  OBVIOUS
<1>2. /\ Head(<<a>>) = a /\ Tail(<<a>>) = e
      /\ Head(<<a, b>>) = a /\ Tail(<<a, b>>) = Append(e, b)
      /\ Head(<<a, b, c>>) = a /\ Tail(<<a, b, c>>) = Append(one, c)
      /\ one = Append(e, b)
  BY <1>1
<1>3. e \in Seq(Seq(Symbols)) /\ one \in Seq(Seq(Symbols))
  BY <1>1, Singles
<1>4. F(e) = a
  BY <1>1, FoldEmpty
<1>5. F(Append(e, b)) = Glue(F(e), sep, b) /\ F(Append(one, c)) = Glue(F(one), sep, c)
  BY <1>3, JoinAppend
<1>6. \A f : Join(f, sep) = Fold(Gluing(sep), Head(f), Tail(f))
  BY Zenon DEF Join, Gluing
<1> QED
  BY <1>2, <1>4, <1>5, <1>6, Zenon

\* What build_simple_message makes of one, two and three fields.
LEMMA BuildIs ==
  ASSUME NEW a \in Seq(Symbols), NEW b \in Seq(Symbols), NEW c \in Seq(Symbols)
  PROVE  /\ Build(<<a>>) = Cut(Append(a, NL), MaxMsg - 1)
         /\ Build(<<a, b>>) = Cut(Append(Glue(a, Bar, b), NL), MaxMsg - 1)
         /\ Build(<<a, b, c>>) = Cut(Append(Glue(Glue(a, Bar, b), Bar, c), NL), MaxMsg - 1)
<1>1. Bar \in Symbols
  BY SymbolsAre
<1>2. /\ Join(<<a>>, Bar) = a
      /\ Join(<<a, b>>, Bar) = Glue(a, Bar, b)
      /\ Join(<<a, b, c>>, Bar) = Glue(Glue(a, Bar, b), Bar, c)
  BY <1>1, JoinFew
<1> QED
  BY <1>2, Zenon DEF Build

\* Two fields.
LEMMA Barred ==
  ASSUME NEW a \in Seq(Symbols), NEW b \in Seq(Symbols)
  PROVE  /\ Glue(a, Bar, b) \in Seq(Symbols)
         /\ Len(Glue(a, Bar, b)) = Len(a) + 1 + Len(b)
         /\ Len(a) \in Nat /\ Len(b) \in Nat
         /\ NoNL(a) /\ NoNL(b) => NoNL(Glue(a, Bar, b))
         /\ Len(a) > 0 => Glue(a, Bar, b)[1] = a[1]
<1>1. Bar \in Symbols /\ Bar # NL
  BY SymbolsAre
<1>2. Len(a) \in Nat /\ Len(b) \in Nat
  OBVIOUS
<1> QED
  BY <1>1, <1>2, Glued

\* A line that is closed, and cut if it is too long.
LEMMA ClosedLine ==
  ASSUME NEW x \in Seq(Symbols)
  PROVE  LET l == Cut(Append(x, NL), MaxMsg - 1)
         IN  /\ NoNL(x) => Frame(l)
             /\ Len(x) <= MaxMsg - 2 =>
                  /\ Sendable(l) /\ Len(l) = Len(x) + 1 /\ l[Len(l)] = NL
                  /\ Len(x) > 0 => l[1] = x[1]
<1> DEFINE y == Append(x, NL)
<1>1. /\ y \in Seq(Symbols) /\ Len(y) = Len(x) + 1 /\ Len(x) \in Nat
      /\ y[Len(x) + 1] = NL /\ \A i \in 1 .. Len(x) : y[i] = x[i]
  BY SymbolsAre
<1> HIDE DEF y
<1>2. PICK n : n = MaxMsg - 1
  OBVIOUS
<1>3. n \in Nat /\ n >= 1
  BY <1>2, Sizes
<1> DEFINE l == Cut(y, n)
<1>4. /\ l \in Seq(Symbols) /\ Len(l) <= n /\ Len(l) <= Len(y)
      /\ Len(y) <= n => l = y
      /\ Len(y) >= n => Len(l) = n
      /\ \A i \in 1 .. Len(l) : l[i] = y[i]
  BY <1>1, <1>3, CutIs
<1> HIDE DEF l
<1>5. Len(l) > 0 /\ Len(l) \in Nat
  BY <1>1, <1>3, <1>4
<1>6. ASSUME NoNL(x) PROVE Frame(l)
  <2>1. OnlyLast(l)
    BY <1>1, <1>4, <1>5, <1>6 DEF OnlyLast, NoNL
  <2>2. l[Len(l)] = NL \/ (Len(l) = n /\ NoNL(l))
    <3>1. CASE Len(l) = Len(y)
      BY <1>1, <1>4, <1>5, <3>1
    <3>2. CASE Len(l) # Len(y)
      <4>1. Len(l) = n /\ Len(l) < Len(y)
        BY <1>1, <1>3, <1>4, <3>2
      <4>2. NoNL(l)
        BY <1>1, <1>4, <1>6, <4>1 DEF NoNL
      <4> QED
        BY <4>1, <4>2
    <3> QED
      BY <3>1, <3>2
  <2> QED
    BY <1>2, <1>4, <1>5, <2>1, <2>2 DEF Frame, Sendable
<1>7. ASSUME Len(x) <= MaxMsg - 2
      PROVE  /\ Sendable(l) /\ Len(l) = Len(x) + 1 /\ l[Len(l)] = NL
             /\ Len(x) > 0 => l[1] = x[1]
  <2>1. l = y
    BY <1>1, <1>2, <1>3, <1>4, <1>7, Sizes
  <2> QED
    BY <1>1, <1>2, <1>4, <1>5, <2>1 DEF Sendable
<1> QED
  BY <1>2, <1>6, <1>7 DEF l, y

\* The words of the program's own that the model spells as one symbol.
Words ==
  {"LIST", "MSG", "BROADCAST", "LIST_OK", "MSG_OK", "DELIVER", "BROADCAST_OK",
   "BROADCAST_FROM", "STATUS_CHANGED", "INACTIVO", "ERROR", "PROTO",
   "NOT_IMPLEMENTED", "USER_NOT_FOUND"}

\* Each is a symbol, and none of the marks.
LEMMA WordsAre ==
  ASSUME NEW w \in Words
  PROVE  /\ <<w>> \in Seq(Symbols) /\ NoNL(<<w>>) /\ Len(<<w>>) = 1 /\ <<w>>[1] = w
         /\ w # Bar /\ w # Backslash /\ w # NL
<1>1. w \in Symbols
  BY Zenon DEF Symbols, Words
<1>2. w # Bar /\ w # Backslash /\ w # NL
  BY Zenon DEF Words, Bar, Backslash, NL
<1> QED
  BY <1>1, <1>2 DEF NoNL

\* The destination of a /msg with a text.
LEMMA DestIs ==
  ASSUME NEW args \in Seq(Symbols), OnlyLast(args),
         Text(SkipSpaces(After(args, Space))) # <<>>
  PROVE  /\ Dest(Before(args, Space)) \in Seq(Symbols)
         /\ NoNL(Dest(Before(args, Space))) /\ Len(Dest(Before(args, Space))) <= MaxName - 1
<1> DEFINE k == Find(args, Space)
<1>1. k \in 0 .. Len(args) /\ Len(args) \in Nat
  BY FirstIs DEF Find
<1>2. CASE k = 0
  <2>1. After(args, Space) = <<>>
    BY <1>2 DEF After
  <2>2. PICK e : e = <<>>
    OBVIOUS
  <2>3. e \in Seq(Symbols) /\ Len(e) = 0 /\ OnlyLast(e)
    BY <2>2 DEF OnlyLast
  <2>4. SkipSpaces(e) \in Seq(Symbols) /\ Len(SkipSpaces(e)) <= Len(e)
    BY <2>3, SkipIs, PartOnlyLast
  <2>5. SkipSpaces(e) = e
    BY <2>2, <2>3, <2>4
  <2>6. Text(e) = e
    BY <2>2, <2>3, TextIs
  <2> QED
    BY <2>1, <2>2, <2>5, <2>6
<1>3. CASE k # 0
  <2> DEFINE b == Before(args, Space)
  <2>1. b = SubSeq(args, 1, k - 1)
    BY <1>3 DEF Before
  <2>2. PICK j : j = k - 1
    OBVIOUS
  <2>3. j \in 0 .. Len(args) /\ j <= Len(args) - 1 /\ 1 \in 1 .. Len(args) + 1
    BY <1>1, <1>3, <2>2
  <2>4. /\ SubSeq(args, 1, j) \in Seq(Symbols)
        /\ Len(SubSeq(args, 1, j)) = IF 1 <= j THEN j - 1 + 1 ELSE 0
        /\ \A i \in 1 .. j - 1 + 1 : SubSeq(args, 1, j)[i] = args[(1 - 1) + i]
    BY <2>3, SubSeqIs
  <2>5. b \in Seq(Symbols) /\ Len(b) = j /\ \A i \in 1 .. j : b[i] = args[i]
    BY <2>1, <2>2, <2>3, <2>4
  <2> HIDE DEF b
  <2>6. NoNL(b)
    BY <2>3, <2>5 DEF NoNL, OnlyLast
  <2>7. PICK n \in Nat : n = MaxName - 1
    BY Sizes
  <2>8. /\ Cut(b, n) \in Seq(Symbols) /\ Len(Cut(b, n)) <= n /\ Len(Cut(b, n)) <= Len(b)
        /\ \A i \in 1 .. Len(Cut(b, n)) : Cut(b, n)[i] = b[i]
    BY <2>5, CutIs
  <2>9. NoNL(Cut(b, n))
    BY <2>5, <2>6, <2>8 DEF NoNL
  <2> QED
    BY <2>7, <2>8, <2>9 DEF Dest, b
<1> QED
  BY <1>2, <1>3

\* LIST is a command;
LEMMA ListCommand == Command(Build(<< <<"LIST">> >>))
<1>1. PICK x : x = <<"LIST">>
  OBVIOUS
<1>2. x \in Seq(Symbols) /\ NoNL(x) /\ Len(x) = 1 /\ x[1] = "LIST"
  BY <1>1, WordsAre DEF Words
<1>3. PICK c : c = Cut(Append(x, NL), MaxMsg - 1)
  OBVIOUS
<1>4. Build(<<x>>) = c
  BY <1>2, <1>3, BuildIs
<1>8. Len(x) <= MaxMsg - 2 /\ Len(x) > 0
  BY <1>2, Sizes
<1>5. Frame(c) /\ Len(c) = Len(x) + 1 /\ c[Len(c)] = NL /\ c[1] = x[1]
  BY <1>2, <1>3, <1>8, ClosedLine
<1>6. Command(c)
  BY <1>2, <1>5, Sizes DEF Command
<1> QED
  BY <1>1, <1>4, <1>6

\* so is MSG with a name and a text that fit in their buffers,
LEMMA MsgCommand ==
  ASSUME NEW dest \in Seq(Symbols), NEW said \in Seq(Symbols), NoNL(dest), NoNL(said),
         Len(dest) <= MaxName - 1, Len(said) < MaxChat
  PROVE  Command(Build(<< <<"MSG">>, dest, said >>))
<1>1. PICK w : w = <<"MSG">>
  OBVIOUS
<1>2. w \in Seq(Symbols) /\ NoNL(w) /\ Len(w) = 1 /\ w[1] = "MSG"
  BY <1>1, WordsAre DEF Words
<1>3. PICK x, y : y = Glue(w, Bar, dest) /\ x = Glue(y, Bar, said)
  OBVIOUS
<1>4. y \in Seq(Symbols) /\ Len(y) = 2 + Len(dest) /\ NoNL(y) /\ y[1] = "MSG"
  <2>1. /\ y \in Seq(Symbols) /\ Len(y) = Len(w) + 1 + Len(dest)
        /\ Len(w) \in Nat /\ Len(dest) \in Nat
        /\ NoNL(w) /\ NoNL(dest) => NoNL(y)
        /\ Len(w) > 0 => y[1] = w[1]
    BY <1>2, <1>3, Barred
  <2> QED
    BY <1>2, <1>3, <2>1
<1>5. /\ x \in Seq(Symbols) /\ Len(x) = 2 + Len(dest) + 1 + Len(said) /\ NoNL(x)
      /\ x[1] = "MSG" /\ Len(dest) \in Nat /\ Len(said) \in Nat
  <2>1. /\ x \in Seq(Symbols) /\ Len(x) = Len(y) + 1 + Len(said)
        /\ Len(y) \in Nat /\ Len(said) \in Nat
        /\ NoNL(y) /\ NoNL(said) => NoNL(x)
        /\ Len(y) > 0 => x[1] = y[1]
    BY <1>3, <1>4, Barred
  <2> QED
    BY <1>3, <1>4, <2>1
<1>6. PICK c : c = Cut(Append(x, NL), MaxMsg - 1)
  OBVIOUS
<1>7. Build(<<w, dest, said>>) = c
  BY <1>2, <1>3, <1>6, BuildIs
<1>8. Len(x) <= MaxMsg - 2 /\ Len(x) > 0
  BY <1>5, Sizes
<1>9. Frame(c) /\ Len(c) = Len(x) + 1 /\ c[Len(c)] = NL /\ c[1] = "MSG"
  BY <1>5, <1>6, <1>8, ClosedLine
<1>10. Command(c)
  BY <1>5, <1>9, Sizes DEF Command
<1> QED
  BY <1>1, <1>7, <1>10

\* and BROADCAST with such a text.
LEMMA BroadcastCommand ==
  ASSUME NEW said \in Seq(Symbols), NoNL(said), Len(said) < MaxChat
  PROVE  Command(Build(<< <<"BROADCAST">>, said >>))
<1>1. PICK w : w = <<"BROADCAST">>
  OBVIOUS
<1>2. w \in Seq(Symbols) /\ NoNL(w) /\ Len(w) = 1 /\ w[1] = "BROADCAST"
  BY <1>1, WordsAre DEF Words
<1>3. PICK x : x = Glue(w, Bar, said)
  OBVIOUS
<1>4. x \in Seq(Symbols) /\ Len(x) = 2 + Len(said) /\ NoNL(x) /\ x[1] = "BROADCAST"
      /\ Len(said) \in Nat
  <2>1. /\ x \in Seq(Symbols) /\ Len(x) = Len(w) + 1 + Len(said)
        /\ Len(w) \in Nat /\ Len(said) \in Nat
        /\ NoNL(w) /\ NoNL(said) => NoNL(x)
        /\ Len(w) > 0 => x[1] = w[1]
    BY <1>2, <1>3, Barred
  <2> QED
    BY <1>2, <1>3, <2>1
<1>6. PICK c : c = Cut(Append(x, NL), MaxMsg - 1)
  OBVIOUS
<1>7. Build(<<w, said>>) = c
  BY <1>2, <1>3, <1>6, BuildIs
<1>8. Len(x) <= MaxMsg - 2 /\ Len(x) > 0
  BY <1>4, Sizes
<1>9. Frame(c) /\ Len(c) = Len(x) + 1 /\ c[Len(c)] = NL /\ c[1] = "BROADCAST"
  BY <1>4, <1>6, <1>8, ClosedLine
<1>10. Command(c)
  BY <1>4, <1>9, Sizes DEF Command
<1> QED
  BY <1>1, <1>7, <1>10

\* What the client sends is a command.
LEMMA ToProtoIs ==
  ASSUME NEW piece \in Seq(Symbols), OnlyLast(piece)
  PROVE  ToProto(piece) = <<>> \/ Command(ToProto(piece))
<1> DEFINE line == SkipSpaces(piece)
<1> DEFINE args == SkipSpaces(Tail(line))
<1> DEFINE dest == Dest(Before(args, Space))
<1> DEFINE said == Text(SkipSpaces(After(args, Space)))
<1>1. CASE line = <<>>
  BY <1>1 DEF ToProto
<1>2. CASE line # <<>>
  <2>1. line \in Seq(Symbols) /\ OnlyLast(line)
    BY SkipIs, PartOnlyLast
  <2>2. Tail(line) \in Seq(Symbols) /\ Len(Tail(line)) = Len(line) - 1
        /\ \A i \in 1 .. Len(Tail(line)) : Tail(line)[i] = line[i + 1]
    BY <1>2, <2>1, HeadTailProperties
  <2>3. OnlyLast(Tail(line))
    BY <2>1, <2>2 DEF OnlyLast
  <2>4. args \in Seq(Symbols) /\ OnlyLast(args)
    BY <2>2, <2>3, SkipIs, PartOnlyLast
  <2> HIDE DEF args
  <2>5. SkipSpaces(After(args, Space)) \in Seq(Symbols)
        /\ OnlyLast(SkipSpaces(After(args, Space)))
    BY <2>4, AfterIs, SkipIs, PartOnlyLast
  <2>6. said \in Seq(Symbols) /\ Len(said) < MaxChat /\ NoNL(said)
    BY <2>5, TextIs
  <2>7. Text(args) \in Seq(Symbols) /\ Len(Text(args)) < MaxChat /\ NoNL(Text(args))
    BY <2>4, TextIs
  <2>8. said # <<>> => dest \in Seq(Symbols) /\ NoNL(dest) /\ Len(dest) <= MaxName - 1
    BY <2>4, DestIs
  <2>9. ToProto(piece) =
          CASE Head(line) = "/list" -> Build(<< <<"LIST">> >>)
            [] Head(line) = "/msg" /\ dest # <<>> /\ said # <<>> ->
                 Build(<< <<"MSG">>, dest, said >>)
            [] Head(line) = "/all" /\ Text(args) # <<>> ->
                 Build(<< <<"BROADCAST">>, Text(args) >>)
            [] OTHER -> <<>>
    BY <1>2, Zenon DEF ToProto, args
  <2>10. Command(Build(<< <<"LIST">> >>))
    BY ListCommand
  <2>11. ASSUME dest # <<>>, said # <<>> PROVE Command(Build(<< <<"MSG">>, dest, said >>))
    BY <2>6, <2>8, <2>11, MsgCommand
  <2>12. Command(Build(<< <<"BROADCAST">>, Text(args) >>))
    BY <2>7, BroadcastCommand
  <2> HIDE DEF line, dest, said
  <2> QED
    BY <2>9, <2>10, <2>11, <2>12, Zenon
<1> QED
  BY <1>1, <1>2

-----------------------------------------------------------------------------
(* Two ways to split one sequence.                                         *)

\* A sequence is its first n elements and the others.
LEMMA Split ==
  ASSUME NEW S, NEW s \in Seq(S), NEW n \in Nat, n <= Len(s)
  PROVE  /\ SubSeq(s, 1, n) \in Seq(S) /\ SubSeq(s, n + 1, Len(s)) \in Seq(S)
         /\ Len(SubSeq(s, 1, n)) = n /\ Len(SubSeq(s, n + 1, Len(s))) = Len(s) - n
         /\ Cat(SubSeq(s, 1, n), SubSeq(s, n + 1, Len(s))) = s
         /\ \A i \in 1 .. n : SubSeq(s, 1, n)[i] = s[i]
<1>1. Len(s) \in Nat /\ n \in 0 .. Len(s) /\ 1 \in 1 .. Len(s) + 1
      /\ n + 1 \in 1 .. Len(s) + 1 /\ Len(s) \in 0 .. Len(s)
  OBVIOUS
<1>2. /\ SubSeq(s, 1, n) \in Seq(S)
      /\ Len(SubSeq(s, 1, n)) = IF 1 <= n THEN n - 1 + 1 ELSE 0
      /\ \A k \in 1 .. n - 1 + 1 : SubSeq(s, 1, n)[k] = s[(1 - 1) + k]
  BY <1>1, SubSeqIs
<1>3. /\ SubSeq(s, n + 1, Len(s)) \in Seq(S)
      /\ Len(SubSeq(s, n + 1, Len(s))) = IF n + 1 <= Len(s) THEN Len(s) - (n + 1) + 1 ELSE 0
  BY <1>1, SubSeqIs
<1>4. n \in 1 - 1 .. Len(s) /\ Len(s) \in n .. Len(s)
  BY <1>1
<1>5. Cat(SubSeq(s, 1, n), SubSeq(s, n + 1, Len(s))) = SubSeq(s, 1, Len(s))
  BY <1>1, <1>4, ConcatAdjacentSubSeq DEF Cat
<1>6. SubSeq(s, 1, Len(s)) = s
  BY SubSeqFull
<1>7. \A k \in 1 .. n : k \in 1 .. n - 1 + 1 /\ (1 - 1) + k = k
  OBVIOUS
<1>8. \A k \in 1 .. n : SubSeq(s, 1, n)[k] = s[k]
  BY <1>2, <1>7
<1>9. Len(SubSeq(s, 1, n)) = n /\ Len(SubSeq(s, n + 1, Len(s))) = Len(s) - n
  BY <1>1, <1>2, <1>3
<1> QED
  BY <1>2, <1>3, <1>5, <1>6, <1>8, <1>9

\* What c holds when it is a and then b.
Joins(c, a, b) ==
  /\ Len(c) = Len(a) + Len(b) /\ Len(a) \in Nat /\ Len(b) \in Nat
  /\ \A i \in 1 .. Len(a) : c[i] = a[i]
  /\ \A i \in 1 .. Len(b) : c[Len(a) + i] = b[i]

\* One sequence after another has the elements of both.
LEMMA CatIs ==
  ASSUME NEW S, NEW a \in Seq(S), NEW b \in Seq(S)
  PROVE  Cat(a, b) \in Seq(S) /\ Joins(Cat(a, b), a, b)
<1>1. /\ Cat(a, b) \in Seq(S) /\ Len(Cat(a, b)) = Len(a) + Len(b)
      /\ \A i \in 1 .. Len(a) + Len(b) :
           Cat(a, b)[i] = IF i <= Len(a) THEN a[i] ELSE b[i - Len(a)]
  BY ConcatProperties DEF Cat
<1>2. Len(a) \in Nat /\ Len(b) \in Nat
  OBVIOUS
<1>3. \A i \in 1 .. Len(a) : Cat(a, b)[i] = a[i]
  BY <1>1, <1>2
<1>4. \A i \in 1 .. Len(b) : Cat(a, b)[Len(a) + i] = b[i]
  <2> TAKE i \in 1 .. Len(b)
  <2>1. Len(a) + i \in 1 .. Len(a) + Len(b) /\ ~(Len(a) + i <= Len(a))
        /\ (Len(a) + i) - Len(a) = i
    BY <1>2
  <2> QED
    BY <1>1, <2>1
<1> QED
  BY <1>1, <1>2, <1>3, <1>4 DEF Joins

\* Two ways to split a sequence agree where both are on the first part,
LEMMA SamePlaces ==
  ASSUME NEW S, NEW a \in Seq(S), NEW b \in Seq(S), NEW c \in Seq(S), NEW d \in Seq(S),
         Cat(a, b) = Cat(c, d)
  PROVE  \A i \in 1 .. Len(a) : i <= Len(c) => a[i] = c[i]
<1>1. Joins(Cat(a, b), a, b) /\ Joins(Cat(c, d), c, d)
  BY CatIs
<1>2. PICK s : s = Cat(a, b)
  OBVIOUS
<1>3. Joins(s, a, b) /\ Joins(s, c, d)
  BY <1>1, <1>2
<1>4. \A i \in 1 .. Len(a) : s[i] = a[i]
  BY <1>3 DEF Joins
<1>5. \A i \in 1 .. Len(c) : s[i] = c[i]
  BY <1>3 DEF Joins
<1>6. Len(a) \in Nat /\ Len(c) \in Nat
  OBVIOUS
<1> QED
  BY <1>4, <1>5, <1>6

\* and everywhere when the first parts are of the same length.
LEMMA SameSplit ==
  ASSUME NEW S, NEW a \in Seq(S), NEW b \in Seq(S), NEW c \in Seq(S), NEW d \in Seq(S),
         Cat(a, b) = Cat(c, d), Len(a) = Len(c)
  PROVE  a = c /\ b = d
<1>1. \A i \in 1 .. Len(a) : i <= Len(c) => a[i] = c[i]
  BY SamePlaces
<1>2. Len(a) \in Nat
  OBVIOUS
<1>3. \A i \in 1 .. Len(a) : a[i] = c[i]
  BY <1>1, <1>2
<1>4. a = c
  BY <1>3, SeqEqual
<1>5. Cat(a, b) = Cat(a, d)
  BY <1>4
<1> QED
  BY <1>4, <1>5, ConcatSimplifications DEF Cat

-----------------------------------------------------------------------------
(* Sequences of strings.                                                   *)

\* What a buffer holds, and lists of it.
Strings == Seq(Symbols)
Texts   == Seq(Strings)

\* The strings of r one after the other.
Same == [l \in Seq(Symbols) |-> l]
Flat(r) == FlatMap(Symbols, Same, r)

\* Of no string, and of one more.
LEMMA FlatIs ==
  ASSUME NEW r \in Texts
  PROVE  /\ Flat(<<>>) = <<>>
         /\ Flat(r) \in Strings
         /\ \A m \in Strings : Flat(Append(r, m)) = Cat(Flat(r), m)
<1>1. Same \in Maps(Strings, Symbols)
  BY DEF Same, Maps, Strings
<1>2. \A m \in Strings : Same[m] = m
  BY DEF Same, Strings
<1>3. /\ FlatMap(Symbols, Same, <<>>) = <<>>
      /\ FlatMap(Symbols, Same, r) \in Strings
      /\ \A m \in Strings : FlatMap(Symbols, Same, Append(r, m)) =
                              Cat(FlatMap(Symbols, Same, r), Same[m])
  BY <1>1, FlatMapAppend DEF Strings, Texts
<1> QED
  BY <1>2, <1>3, Zenon DEF Flat

\* Of two lists of strings,
LEMMA FlatCat ==
  ASSUME NEW q \in Texts, NEW r \in Texts
  PROVE  Flat(Cat(q, r)) = Cat(Flat(q), Flat(r))
<1>1. Same \in Maps(Strings, Symbols)
  BY DEF Same, Maps, Strings
<1> QED
  BY <1>1, FlatMapConcat DEF Strings, Texts, Flat

\* and of one string.
LEMMA FlatOne ==
  ASSUME NEW m \in Strings
  PROVE  Flat(<<m>>) = m
<1>1. Same \in Maps(Strings, Symbols) /\ Same[m] = m
  BY DEF Same, Maps, Strings
<1> QED
  BY <1>1, FlatMapOne, Zenon DEF Flat

\* The first of some strings.
LEMMA FirstOut ==
  ASSUME NEW F, F \subseteq Strings, NEW r \in Seq(F), Len(r) > 0
  PROVE  /\ Head(r) \in F /\ Tail(r) \in Seq(F) /\ r = Cat(<<Head(r)>>, Tail(r))
         /\ Flat(r) = Cat(Head(r), Flat(Tail(r)))
<1>1. PICK h, q : h = Head(r) /\ q = Tail(r)
  OBVIOUS
<1>2. h \in F /\ q \in Seq(F) /\ r = Cat(<<h>>, q)
  <2>1. r # <<>>
    OBVIOUS
  <2> QED
    BY <1>1, <2>1 DEF Cat
<1>3. h \in Strings /\ q \in Texts /\ <<h>> \in Texts
  <2>1. h \in Strings
    BY <1>2
  <2>2. q \in Texts
    BY <1>2, SeqMonotonic DEF Texts
  <2> QED
    BY <2>1, <2>2, Singles DEF Texts
<1>4. Flat(r) = Cat(Flat(<<h>>), Flat(q))
  BY <1>2, <1>3, FlatCat
<1> QED
  BY <1>1, <1>2, <1>3, <1>4, FlatOne

\* What a reader takes for one line.
Frames == {f \in Strings : Frame(f)}

-----------------------------------------------------------------------------
(* Pieces.                                                                 *)

\* What has been cut off q when all of it has been read, and what has not.
NoCuts == [pieces |-> <<>>, open |-> <<>>]
Ended(Whole, q) == Fold(CutAfter(Whole), NoCuts, q).pieces
Begun(Whole, q) == Fold(CutAfter(Whole), NoCuts, q).open

\* The pieces are those cut off and what is left.
LEMMA PiecesAre ==
  \A q, Whole :
    Pieces(q, Whole) = IF Begun(Whole, q) = <<>> THEN Ended(Whole, q)
                       ELSE Append(Ended(Whole, q), Begun(Whole, q))
BY Zenon DEF Pieces, Begun, Ended, NoCuts

\* How r is cut when it is longer than q, and longer is the piece begun.
Extends(Whole, q, r, longer) ==
  /\ longer \in Whole =>
       /\ Ended(Whole, r) = Append(Ended(Whole, q), longer)
       /\ Begun(Whole, r) = <<>>
  /\ longer \notin Whole =>
       /\ Ended(Whole, r) = Ended(Whole, q)
       /\ Begun(Whole, r) = longer

\* Nothing has been cut off before the first symbol, and each symbol ends a piece
\* or makes it longer.
LEMMA CutsAre ==
  ASSUME NEW Whole, NEW q \in Strings
  PROVE  /\ Ended(Whole, <<>>) = <<>> /\ Begun(Whole, <<>>) = <<>>
         /\ Ended(Whole, q) \in Texts /\ Begun(Whole, q) \in Strings
         /\ \A m \in Symbols :
              Extends(Whole, q, Append(q, m), Append(Begun(Whole, q), m))
<1> DEFINE step == CutAfter(Whole)
<1> DEFINE all == Fold(step, NoCuts, q)
<1>1. NoCuts \in Cuts
  BY DEF NoCuts, Cuts
<1>2. \A s \in Cuts, m \in Symbols :
        LET longer == Append(s.open, m)
        IN  /\ longer \in Whole =>
                 /\ step[<<s, m>>].pieces = Append(s.pieces, longer)
                 /\ step[<<s, m>>].open = <<>>
            /\ longer \notin Whole =>
                 /\ step[<<s, m>>].pieces = s.pieces
                 /\ step[<<s, m>>].open = longer
  BY DEF CutAfter, Cuts
<1>3. \A s \in Cuts, m \in Symbols : step[<<s, m>>] \in Cuts
  <2> TAKE s \in Cuts, m \in Symbols
  <2> DEFINE longer == Append(s.open, m)
  <2>1. step[<<s, m>>] = IF longer \in Whole
                         THEN [pieces |-> Append(s.pieces, longer), open |-> <<>>]
                         ELSE [s EXCEPT !.open = longer]
    BY DEF CutAfter
  <2>2. s.pieces \in Seq(Seq(Symbols)) /\ longer \in Seq(Symbols)
    BY DEF Cuts
  <2>3. Append(s.pieces, longer) \in Seq(Seq(Symbols)) /\ <<>> \in Seq(Symbols)
    BY <2>2
  <2> HIDE DEF longer
  <2>4. [s EXCEPT !.open = longer] \in Cuts
    BY <2>2 DEF Cuts
  <2> QED
    BY <2>1, <2>3, <2>4 DEF Cuts
<1> HIDE DEF step
<1>4. q \in Seq(Symbols)
  BY DEF Strings
<1>5. all \in Cuts
  BY <1>1, <1>3, <1>4, FoldType
<1>6. \A m \in Symbols : Fold(step, NoCuts, Append(q, m)) = step[<<all, m>>]
  BY <1>1, <1>3, <1>4, FoldAppend
<1>7. Fold(step, NoCuts, <<>>) = NoCuts
  BY FoldEmpty
<1>8. all.pieces \in Texts /\ all.open \in Strings
  BY <1>5 DEF Cuts, Texts, Strings
<1> HIDE DEF all
<1>9. NoCuts.pieces = <<>> /\ NoCuts.open = <<>>
  BY DEF NoCuts
<1> QED
  BY <1>2, <1>5, <1>6, <1>7, <1>8, <1>9, Zenon DEF Ended, Begun, Extends, step, all

\* One element more at the end of two sequences.
LEMMA CatAppend ==
  ASSUME NEW S, NEW a \in Seq(S), NEW b \in Seq(S), NEW m \in S
  PROVE  Cat(a, Append(b, m)) = Append(Cat(a, b), m)
BY DEF Cat

\* A line in lines.
Closed == {l \in Seq(Symbols) : l[Len(l)] = NL}

\* The lines cut off end in a newline, have no other, and are q with what is left.
LinesSoFar(q) ==
  /\ \A i \in 1 .. Len(Ended(Closed, q)) :
       LET l == Ended(Closed, q)[i]
       IN  Len(l) > 0 /\ Len(l) <= Len(q) /\ l[Len(l)] = NL /\ OnlyLast(l)
  /\ NoNL(Begun(Closed, q))
  /\ Cat(Flat(Ended(Closed, q)), Begun(Closed, q)) = q
  /\ Len(q) > 0 /\ q[Len(q)] = NL => Begun(Closed, q) = <<>>
  /\ NoNL(q) => Ended(Closed, q) = <<>>

\* They do when there is one symbol more,
LEMMA LinesStep ==
  ASSUME NEW q \in Strings, NEW m \in Symbols, LinesSoFar(q)
  PROVE  LinesSoFar(Append(q, m))
<1> DEFINE r == Append(q, m)
<1>1. PICK p, o : p = Ended(Closed, q) /\ o = Begun(Closed, q)
  OBVIOUS
<1>2. PICK pp, oo : pp = Ended(Closed, r) /\ oo = Begun(Closed, r)
  OBVIOUS
<1>3. /\ p \in Texts /\ o \in Strings /\ NoNL(o) /\ Cat(Flat(p), o) = q
      /\ NoNL(q) => p = <<>>
      /\ \A i \in 1 .. Len(p) : Len(p[i]) > 0 /\ Len(p[i]) <= Len(q)
                                /\ p[i][Len(p[i])] = NL /\ OnlyLast(p[i])
  BY <1>1, CutsAre DEF LinesSoFar
<1>4. PICK l : l = Append(o, m)
  OBVIOUS
<1>5. /\ l \in Strings /\ Len(l) = Len(o) + 1 /\ Len(o) \in Nat /\ l[Len(l)] = m
      /\ \A i \in 1 .. Len(o) : l[i] = o[i]
  BY <1>3, <1>4 DEF Strings
<1>6. l \in Closed <=> m = NL
  BY <1>5 DEF Closed, Strings
<1>7. /\ m = NL => pp = Append(p, l) /\ oo = <<>>
      /\ m # NL => pp = p /\ oo = l
  <2>1. Extends(Closed, q, r, l)
    BY <1>1, <1>4, CutsAre
  <2> QED
    BY <1>1, <1>2, <1>6, <2>1 DEF Extends
<1>8. Flat(p) \in Strings /\ Cat(Flat(p), l) = r
  BY <1>3, <1>4, FlatIs, CatAppend DEF Strings
<1>9. /\ r \in Strings /\ Len(r) = Len(q) + 1 /\ Len(q) \in Nat /\ r[Len(r)] = m
      /\ \A i \in 1 .. Len(q) : r[i] = q[i]
  BY DEF Strings
<1>10. Len(l) <= Len(r)
  <2>1. Joins(Cat(Flat(p), l), Flat(p), l)
    BY <1>5, <1>8, CatIs DEF Strings
  <2>2. Joins(r, Flat(p), l)
    BY <1>8, <2>1
  <2> QED
    BY <2>2 DEF Joins
<1> HIDE DEF r
<1>11. CASE m = NL
  <2>1. pp = Append(p, l) /\ oo = <<>> /\ Len(oo) = 0
    BY <1>7, <1>11
  <2>2. Len(pp) = Len(p) + 1 /\ Len(p) \in Nat /\ pp[Len(p) + 1] = l
        /\ \A i \in 1 .. Len(p) : pp[i] = p[i]
    BY <1>3, <1>5, <2>1 DEF Texts
  <2>3. OnlyLast(l) /\ l[Len(l)] = NL /\ Len(l) > 0
    BY <1>3, <1>5, <1>11 DEF OnlyLast, NoNL
  <2>4. ASSUME NEW i \in 1 .. Len(pp)
        PROVE  Len(pp[i]) > 0 /\ Len(pp[i]) <= Len(r) /\ pp[i][Len(pp[i])] = NL
               /\ OnlyLast(pp[i])
    <3>1. CASE i = Len(p) + 1
      BY <1>10, <2>2, <2>3, <3>1
    <3>2. CASE i # Len(p) + 1
      <4>1. i \in 1 .. Len(p) /\ pp[i] = p[i]
        BY <2>2, <3>2
      <4>2. PICK x : x = p[i]
        OBVIOUS
      <4>3. x \in Strings
        BY <1>3, <4>1, <4>2 DEF Texts
      <4>4. Len(x) > 0 /\ Len(x) <= Len(q) /\ x[Len(x)] = NL /\ OnlyLast(x) /\ Len(x) \in Nat
        BY <1>3, <4>1, <4>2, <4>3 DEF Strings
      <4>5. Len(x) <= Len(r)
        BY <1>9, <4>4
      <4> QED
        BY <4>1, <4>2, <4>4, <4>5
    <3> QED
      BY <3>1, <3>2
  <2>5. NoNL(oo)
    BY <2>1 DEF NoNL
  <2>6. Flat(pp) = r
    BY <1>3, <1>5, <1>8, <2>1, FlatIs
  <2>7. Cat(Flat(pp), oo) = r
    BY <1>9, <2>1, <2>6, CatEmpty DEF Strings
  <2>8. ~NoNL(r)
    <3>1. Len(r) \in 1 .. Len(r)
      BY <1>9
    <3> QED
      BY <1>9, <1>11, <3>1 DEF NoNL
  <2> QED
    BY <1>2, <2>1, <2>4, <2>5, <2>7, <2>8 DEF LinesSoFar, r
<1>12. CASE m # NL
  <2>1. pp = p /\ oo = l
    BY <1>7, <1>12
  <2>2. NoNL(l)
    BY <1>3, <1>5, <1>12 DEF NoNL
  <2>4. ASSUME NEW i \in 1 .. Len(pp)
        PROVE  Len(pp[i]) > 0 /\ Len(pp[i]) <= Len(r) /\ pp[i][Len(pp[i])] = NL
               /\ OnlyLast(pp[i])
    <3>1. i \in 1 .. Len(p)
      BY <2>1
    <3>2. PICK x : x = p[i]
      OBVIOUS
    <3>3. x \in Strings
      BY <1>3, <3>1, <3>2 DEF Texts
    <3>4. Len(x) > 0 /\ Len(x) <= Len(q) /\ x[Len(x)] = NL /\ OnlyLast(x) /\ Len(x) \in Nat
      BY <1>3, <3>1, <3>2, <3>3 DEF Strings
    <3>5. Len(x) <= Len(r)
      BY <1>9, <3>4
    <3> QED
      BY <2>1, <3>2, <3>4, <3>5
  <2>5. r[Len(r)] # NL
    BY <1>9, <1>12
  <2>6. NoNL(r) => NoNL(q)
    BY <1>9 DEF NoNL
  <2>7. NoNL(r) => pp = <<>>
    BY <1>3, <2>1, <2>6
  <2>8. Cat(Flat(pp), oo) = r
    BY <1>8, <2>1
  <2> QED
    BY <1>2, <2>1, <2>2, <2>4, <2>5, <2>7, <2>8 DEF LinesSoFar, r
<1> QED
  BY <1>11, <1>12

\* and for every string.
LEMMA LinesAre == \A q \in Strings : LinesSoFar(q)
<1> DEFINE T == {q \in Strings : LinesSoFar(q)}
<1>1. <<>> \in T
  <2>1. PICK e : e = <<>>
    OBVIOUS
  <2>2. e \in Strings /\ Len(e) = 0
    BY <2>1, Singles DEF Strings
  <2>3. Ended(Closed, e) = e /\ Begun(Closed, e) = e
    BY <2>1, <2>2, CutsAre
  <2>4. Flat(e) = e
    BY <2>1, FlatIs, Singles DEF Texts
  <2>5. Cat(e, e) = e
    BY <2>1, <2>2, CatEmpty DEF Strings
  <2>6. NoNL(e)
    BY <2>2 DEF NoNL
  <2>7. LinesSoFar(e)
    BY <2>1, <2>2, <2>3, <2>4, <2>5, <2>6 DEF LinesSoFar
  <2> QED
    BY <2>1, <2>2, <2>7
<1>2. ASSUME NEW q \in Strings, NEW m \in Symbols, q \in T PROVE Append(q, m) \in T
  <2>1. Append(q, m) \in Strings
    BY DEF Strings
  <2> QED
    BY <1>2, <2>1, LinesStep
<1> HIDE DEF T
<1>3. Strings \subseteq T
  BY <1>1, <1>2, SeqSetInduction DEF Strings
<1> QED
  BY <1>3 DEF T

\* What is sent is read as frames.
LEMMA SentFrames ==
  ASSUME NEW line, Sendable(line)
  PROVE  Lines(line) \in Seq(Frames) /\ Flat(Lines(line)) = line
<1>1. PICK p, o : p = Ended(Closed, line) /\ o = Begun(Closed, line)
  OBVIOUS
<1>2. line \in Strings /\ Len(line) > 0 /\ Len(line) <= MaxMsg - 1 /\ Len(line) \in Nat
      /\ (line[Len(line)] = NL \/ (Len(line) = MaxMsg - 1 /\ NoNL(line)))
  BY DEF Sendable, Strings
<1>3. /\ p \in Texts /\ o \in Strings /\ NoNL(o) /\ Cat(Flat(p), o) = line
      /\ line[Len(line)] = NL => o = <<>>
      /\ NoNL(line) => p = <<>>
      /\ \A i \in 1 .. Len(p) : Len(p[i]) > 0 /\ Len(p[i]) <= Len(line)
                                /\ p[i][Len(p[i])] = NL /\ OnlyLast(p[i])
  BY <1>1, <1>2, CutsAre, LinesAre DEF LinesSoFar
<1>4. Lines(line) = IF o = <<>> THEN p ELSE Append(p, o)
  BY <1>1, PiecesAre, Zenon DEF Lines, Closed
<1>5. CASE line[Len(line)] = NL
  <2>1. Lines(line) = p /\ o = <<>>
    BY <1>3, <1>4, <1>5
  <2>2. Flat(p) \in Strings
    BY <1>3, FlatIs
  <2>3. Flat(p) = line
    BY <1>3, <2>1, <2>2, CatEmpty DEF Strings
  <2>4. ASSUME NEW i \in 1 .. Len(p) PROVE p[i] \in Frames
    <3>1. PICK x : x = p[i]
      OBVIOUS
    <3>2. x \in Strings
      BY <1>3, <3>1 DEF Texts
    <3>3. Len(x) > 0 /\ Len(x) <= Len(line) /\ x[Len(x)] = NL /\ OnlyLast(x)
      BY <1>3, <3>1
    <3>4. Len(x) <= MaxMsg - 1
      BY <1>2, <3>2, <3>3, Sizes DEF Strings
    <3>5. Frame(x)
      BY <3>2, <3>3, <3>4 DEF Frame, Sendable, Strings
    <3> QED
      BY <3>1, <3>2, <3>5 DEF Frames
  <2>5. p \in Seq(Frames)
    <3>1. p \in Seq(Strings)
      BY <1>3 DEF Texts
    <3> QED
      BY <2>4, <3>1
  <2> QED
    BY <2>1, <2>3, <2>5
<1>6. CASE Len(line) = MaxMsg - 1 /\ NoNL(line)
  <2>1. p = <<>>
    BY <1>3, <1>6
  <2>2. Flat(p) = <<>>
    BY <2>1, FlatIs, <1>3
  <2>3. o = line
    BY <1>3, <2>2, CatEmpty DEF Strings
  <2>4. o # <<>>
    BY <1>2, <2>3
  <2>5. Lines(line) = Append(p, line)
    BY <1>4, <2>3, <2>4
  <2>6. Append(p, line) = <<line>>
    BY <2>1
  <2>7. Frame(line)
    BY <1>2, <1>6 DEF Frame, Sendable, Strings, NoNL, OnlyLast
  <2>8. line \in Frames
    BY <1>2, <2>7 DEF Frames
  <2> QED
    BY <1>2, <2>5, <2>6, <2>8, FlatOne, Singles
<1> QED
  BY <1>2, <1>5, <1>6

-----------------------------------------------------------------------------
(* What fgets makes of a line.                                             *)

\* As much as the buffer of fgets holds.
Full == {l \in Seq(Symbols) : Len(l) = MaxMsg - 1}

\* As long as nothing is full,
LEMMA NothingFull ==
  \A q \in Strings : Len(q) < MaxMsg - 1 => Ended(Full, q) = <<>> /\ Begun(Full, q) = q
<1> DEFINE T == {q \in Strings :
                   Len(q) < MaxMsg - 1 => Ended(Full, q) = <<>> /\ Begun(Full, q) = q}
<1>1. <<>> \in T
  <2>1. PICK e : e = <<>>
    OBVIOUS
  <2>2. e \in Strings
    BY <2>1, Singles DEF Strings
  <2>3. Ended(Full, e) = e /\ Begun(Full, e) = e
    BY <2>1, <2>2, CutsAre
  <2> QED
    BY <2>1, <2>2, <2>3
<1>2. ASSUME NEW q \in Strings, NEW m \in Symbols, q \in T PROVE Append(q, m) \in T
  <2>1. PICK r : r = Append(q, m)
    OBVIOUS
  <2>2. r \in Strings /\ Len(r) = Len(q) + 1 /\ Len(q) \in Nat
    BY <2>1 DEF Strings
  <2>3. ASSUME Len(r) < MaxMsg - 1 PROVE Ended(Full, r) = <<>> /\ Begun(Full, r) = r
    <3>1. Len(q) < MaxMsg - 1 /\ Len(r) # MaxMsg - 1
      BY <2>2, <2>3, Sizes
    <3>2. Ended(Full, q) = <<>> /\ Begun(Full, q) = q
      BY <1>2, <3>1
    <3>3. r \notin Full
      BY <3>1 DEF Full
    <3>4. Extends(Full, q, r, r)
      BY <2>1, <3>2, CutsAre
    <3> QED
      BY <3>2, <3>3, <3>4 DEF Extends
  <2> QED
    BY <2>1, <2>2, <2>3
<1> HIDE DEF T
<1>3. Strings \subseteq T
  BY <1>1, <1>2, SeqSetInduction DEF Strings
<1> QED
  BY <1>3 DEF T

\* a full piece
LEMMA OneFull ==
  ASSUME NEW piece \in Strings, Len(piece) = MaxMsg - 1
  PROVE  Ended(Full, piece) = <<piece>> /\ Begun(Full, piece) = <<>>
<1>1. piece # <<>>
  BY Sizes DEF Strings
<1>2. PICK q \in Strings, m \in Symbols : piece = Append(q, m)
  BY <1>1, SequenceEmptyOrAppend DEF Strings
<1>3. Len(piece) = Len(q) + 1 /\ Len(q) \in Nat
  BY <1>2 DEF Strings
<1>4. Len(q) < MaxMsg - 1
  BY <1>3, Sizes
<1>5. Ended(Full, q) = <<>> /\ Begun(Full, q) = q
  BY <1>4, NothingFull
<1>6. piece \in Full
  BY DEF Full, Strings
<1>7. Ended(Full, piece) = Append(<<>>, piece) /\ Begun(Full, piece) = <<>>
  <2>1. Extends(Full, q, piece, piece)
    BY <1>2, <1>5, CutsAre
  <2> QED
    BY <1>5, <1>6, <2>1 DEF Extends
<1>8. Append(<<>>, piece) = <<piece>>
  OBVIOUS
<1> QED
  BY <1>7, <1>8

\* is followed by the pieces of the rest.
LEMMA RestPieces ==
  ASSUME NEW piece \in Strings, Len(piece) = MaxMsg - 1
  PROVE  \A x \in Strings : /\ Ended(Full, Cat(piece, x)) = Cat(<<piece>>, Ended(Full, x))
                            /\ Begun(Full, Cat(piece, x)) = Begun(Full, x)
<1> DEFINE T == {x \in Strings : /\ Ended(Full, Cat(piece, x)) = Cat(<<piece>>, Ended(Full, x))
                                 /\ Begun(Full, Cat(piece, x)) = Begun(Full, x)}
<1>0. <<piece>> \in Texts
  BY Singles DEF Texts
<1>1. <<>> \in T
  <2>1. PICK e, one : e = <<>> /\ one = <<piece>>
    OBVIOUS
  <2>2. e \in Strings /\ one \in Texts
    BY <1>0, <2>1, Singles DEF Strings
  <2>3. Ended(Full, e) = e /\ Begun(Full, e) = e
    BY <2>1, <2>2, CutsAre
  <2>4. Cat(piece, e) = piece
    BY <2>1, CatEmpty DEF Strings
  <2>5. Cat(one, e) = one
    BY <2>1, <2>2, CatEmpty DEF Texts
  <2>6. Ended(Full, piece) = one /\ Begun(Full, piece) = e
    BY <2>1, OneFull
  <2> QED
    BY <2>1, <2>2, <2>3, <2>4, <2>5, <2>6
<1>2. ASSUME NEW x \in Strings, NEW m \in Symbols, x \in T PROVE Append(x, m) \in T
  <2>1. PICK y, z, zz : y = Append(x, m) /\ z = Cat(piece, x) /\ zz = Append(z, m)
    OBVIOUS
  <2>2. y \in Strings /\ z \in Strings /\ zz = Cat(piece, y)
    <3>1. y \in Strings /\ z \in Strings
      BY <2>1, CatIs DEF Strings
    <3>2. Cat(piece, Append(x, m)) = Append(Cat(piece, x), m)
      BY CatAppend DEF Strings
    <3> QED
      BY <2>1, <3>1, <3>2
  <2>3. PICK p, o : p = Ended(Full, x) /\ o = Begun(Full, x)
    OBVIOUS
  <2>4. p \in Texts /\ o \in Strings /\ Ended(Full, z) = Cat(<<piece>>, p) /\ Begun(Full, z) = o
    BY <1>2, <2>1, <2>3, CutsAre
  <2>5. PICK l : l = Append(o, m)
    OBVIOUS
  <2>6. l \in Strings
    BY <2>4, <2>5 DEF Strings
  <2>7. /\ l \in Full => Ended(Full, y) = Append(p, l) /\ Begun(Full, y) = <<>>
        /\ l \notin Full => Ended(Full, y) = p /\ Begun(Full, y) = l
    <3>1. Extends(Full, x, y, l)
      BY <2>1, <2>3, <2>5, CutsAre
    <3> QED
      BY <2>3, <3>1 DEF Extends
  <2>8. /\ l \in Full => Ended(Full, zz) = Append(Cat(<<piece>>, p), l) /\ Begun(Full, zz) = <<>>
        /\ l \notin Full => Ended(Full, zz) = Cat(<<piece>>, p) /\ Begun(Full, zz) = l
    <3>1. Extends(Full, z, zz, l)
      BY <2>1, <2>2, <2>4, <2>5, CutsAre
    <3> QED
      BY <2>4, <3>1 DEF Extends
  <2>9. Append(Cat(<<piece>>, p), l) = Cat(<<piece>>, Append(p, l))
    BY <1>0, <2>4, <2>6 DEF Cat, Texts
  <2>10. Ended(Full, zz) = Cat(<<piece>>, Ended(Full, y)) /\ Begun(Full, zz) = Begun(Full, y)
    BY <2>7, <2>8, <2>9
  <2> QED
    BY <2>1, <2>2, <2>10
<1> HIDE DEF T
<1>3. Strings \subseteq T
  BY <1>1, <1>2, SeqSetInduction DEF Strings
<1> QED
  BY <1>3 DEF T

\* fgets takes as much as its buffer holds.
LEMMA FirstPieceIs ==
  ASSUME NEW line \in Strings, Len(line) > 0, OnlyLast(line)
  PROVE  \E n \in Nat : /\ n <= Len(line) /\ n > 0 /\ FirstPiece(line) = SubSeq(line, 1, n)
                        /\ n = MaxMsg - 1 \/ (n = Len(line) /\ n < MaxMsg - 1)
<1>1. Len(line) \in Nat /\ line \in Seq(Symbols)
  BY DEF Strings
<1>2. PICK n : n = IF Len(line) < MaxMsg - 1 THEN Len(line) ELSE MaxMsg - 1
  OBVIOUS
<1>3. /\ n \in 1 .. Len(line) /\ n \in Nat
      /\ n = MaxMsg - 1 \/ (n = Len(line) /\ n < MaxMsg - 1)
  BY <1>1, <1>2, Sizes
<1>4. ASSUME NEW i \in 1 .. Len(line)
      PROVE  /\ Complete(SubSeq(line, 1, i)) => i >= n
             /\ i = MaxMsg - 1 => Complete(SubSeq(line, 1, i))
  <2>1. PICK s : s = SubSeq(line, 1, i)
    OBVIOUS
  <2>2. s \in Seq(Symbols) /\ Len(s) = i /\ i \in 1 .. i /\ i \in Nat
        /\ \A k \in 1 .. i : s[k] = line[k]
    BY <1>1, <2>1, Split
  <2>3. s # <<>> /\ s[Len(s)] = line[i]
    BY <2>2
  <2>4. i < Len(line) => line[i] # NL
    BY <1>1 DEF OnlyLast
  <2>5. Complete(s) => i >= n
    <3>1. CASE i < Len(line)
      BY <1>3, <2>2, <2>3, <2>4, <3>1 DEF Complete
    <3>2. CASE i = Len(line)
      BY <1>1, <1>3, <3>2
    <3> QED
      BY <1>1, <3>1, <3>2
  <2>6. i = MaxMsg - 1 => Complete(s)
    BY <2>2, <2>3 DEF Complete
  <2> QED
    BY <2>1, <2>5, <2>6
<1>5. /\ n = Len(line) \/ Complete(SubSeq(line, 1, n))
      /\ \A j \in 1 .. n - 1 : ~Complete(SubSeq(line, 1, j))
  <2>1. n = Len(line) \/ Complete(SubSeq(line, 1, n))
    BY <1>3, <1>4
  <2>2. ASSUME NEW j \in 1 .. n - 1 PROVE ~Complete(SubSeq(line, 1, j))
    <3>1. j \in 1 .. Len(line) /\ ~(j >= n)
      BY <1>1, <1>3
    <3> QED
      BY <1>4, <3>1
  <2> QED
    BY <2>1, <2>2
<1> DEFINE Is(i) == /\ i = Len(line) \/ Complete(SubSeq(line, 1, i))
                    /\ \A j \in 1 .. i - 1 : ~Complete(SubSeq(line, 1, j))
<1>6. ASSUME NEW i \in 1 .. Len(line), Is(i) PROVE i = n
  <2>1. i >= n
    BY <1>1, <1>3, <1>4, <1>6
  <2>2. CASE i > n
    <3>1. n \in 1 .. i - 1 /\ n # Len(line)
      BY <1>1, <1>3, <2>2
    <3> QED
      BY <1>5, <1>6, <3>1
  <2> QED
    BY <1>3, <2>1, <2>2
<1>7. Is(n)
  BY <1>5
<1>8. FirstPiece(line) = SubSeq(line, 1, CHOOSE i \in 1 .. Len(line) : Is(i))
  BY Zenon DEF FirstPiece
<1> HIDE DEF Is
<1>9. (CHOOSE i \in 1 .. Len(line) : Is(i)) = n
  BY <1>3, <1>6, <1>7, Zenon
<1>10. FirstPiece(line) = SubSeq(line, 1, n)
  BY <1>8, <1>9, Zenon
<1>11. n <= Len(line) /\ n > 0
  BY <1>1, <1>3
<1> QED
  BY <1>3, <1>10, <1>11, Zenon

\* The pieces of a line are the first one and the pieces of the rest.
LEMMA PiecesOf ==
  ASSUME NEW line \in Strings, Len(line) > 0, OnlyLast(line),
         NEW piece, piece = FirstPiece(line),
         NEW rest, rest = SubSeq(line, Len(piece) + 1, Len(line))
  PROVE  /\ piece \in Strings /\ Len(piece) > 0 /\ Len(piece) <= MaxMsg - 1 /\ OnlyLast(piece)
         /\ rest \in Strings /\ OnlyLast(rest)
         /\ Pieces(line, Full) \in Texts /\ Pieces(rest, Full) \in Texts
         /\ Pieces(line, Full) = Cat(<<piece>>, Pieces(rest, Full))
<1>1. PICK n \in Nat : /\ n <= Len(line) /\ n > 0 /\ FirstPiece(line) = SubSeq(line, 1, n)
                       /\ n = MaxMsg - 1 \/ (n = Len(line) /\ n < MaxMsg - 1)
  BY FirstPieceIs
<1>2. piece \in Seq(Symbols) /\ Len(piece) = n /\ \A i \in 1 .. n : piece[i] = line[i]
  BY <1>1, Split DEF Strings
<1>3. Len(line) \in Nat /\ line \in Seq(Symbols)
  BY DEF Strings
<1>4. rest \in Seq(Symbols) /\ Cat(piece, rest) = line /\ Len(rest) = Len(line) - n
  BY <1>1, <1>2, <1>3, Split
<1>5. OnlyLast(piece)
  <2>1. \A i \in 1 .. n - 1 : i \in 1 .. n /\ i \in 1 .. Len(line) - 1
    BY <1>1, <1>3
  <2> QED
    BY <1>2, <2>1 DEF OnlyLast
<1>6. OnlyLast(rest)
  <2>1. Joins(line, piece, rest)
    BY <1>2, <1>4, CatIs
  <2>2. ASSUME NEW i \in 1 .. Len(rest) - 1 PROVE rest[i] # NL
    <3>1. i \in 1 .. Len(rest) /\ n + i \in 1 .. Len(line) - 1
      BY <1>1, <1>3, <1>4
    <3> QED
      BY <1>2, <2>1, <3>1 DEF OnlyLast, Joins
  <2> QED
    BY <2>2 DEF OnlyLast
<1>7. /\ Ended(Full, line) \in Texts /\ Ended(Full, rest) \in Texts
      /\ Begun(Full, line) \in Strings /\ Begun(Full, rest) \in Strings
  BY <1>3, <1>4, CutsAre DEF Strings
<1>8. /\ Pieces(line, Full) = IF Begun(Full, line) = <<>> THEN Ended(Full, line)
                              ELSE Append(Ended(Full, line), Begun(Full, line))
      /\ Pieces(rest, Full) = IF Begun(Full, rest) = <<>> THEN Ended(Full, rest)
                              ELSE Append(Ended(Full, rest), Begun(Full, rest))
  BY PiecesAre
<1>9. Pieces(line, Full) \in Texts /\ Pieces(rest, Full) \in Texts
  <2>1. \A p \in Texts, o \in Strings : Append(p, o) \in Texts
    BY DEF Texts
  <2> QED
    BY <1>7, <1>8, <2>1, Zenon
<1>12. /\ piece \in Strings /\ Len(piece) > 0 /\ Len(piece) <= MaxMsg - 1
       /\ rest \in Strings
  BY <1>1, <1>2, <1>4, Sizes DEF Strings
<1>10. CASE n = MaxMsg - 1
  <2>1. PICK p, o, one : p = Ended(Full, rest) /\ o = Begun(Full, rest) /\ one = <<piece>>
    OBVIOUS
  <2>2. p \in Texts /\ o \in Strings /\ one \in Texts
    BY <1>2, <1>7, <2>1, Singles DEF Texts, Strings
  <2>3. Ended(Full, line) = Cat(one, p) /\ Begun(Full, line) = o
    BY <1>2, <1>4, <1>10, <2>1, RestPieces DEF Strings
  <2>4. Append(Cat(one, p), o) = Cat(one, Append(p, o))
    <3>1. PICK S : S = Strings
      OBVIOUS
    <3>2. p \in Seq(S) /\ o \in S /\ one \in Seq(S)
      BY <2>2, <3>1 DEF Texts
    <3>3. Append(Cat(one, p), o) = Cat(one, Append(p, o))
      BY <3>2, CatAppend
    <3> QED
      BY <3>3
  <2>5. Pieces(line, Full) = Cat(one, Pieces(rest, Full))
    BY <1>8, <2>1, <2>3, <2>4
  <2> QED
    BY <1>5, <1>6, <1>9, <1>12, <2>1, <2>5, Zenon
<1>11. CASE n = Len(line) /\ n < MaxMsg - 1
  <2>1. Len(rest) = 0
    BY <1>4, <1>11
  <2>2. PICK e : e = <<>>
    OBVIOUS
  <2>3. rest = e
    BY <1>4, <2>1, <2>2
  <2>4. e \in Strings /\ e \in Texts
    BY <2>2, Singles DEF Strings, Texts
  <2>5. Ended(Full, rest) = e /\ Begun(Full, rest) = e
    BY <2>2, <2>3, <2>4, CutsAre
  <2>6. Pieces(rest, Full) = e
    BY <1>8, <2>2, <2>5
  <2>7. piece = line
    BY <1>4, <2>3, <2>2, <1>2, CatEmpty
  <2>8. Ended(Full, line) = e /\ Begun(Full, line) = line
    BY <1>11, <2>2, NothingFull
  <2>9. line # <<>>
    OBVIOUS
  <2>10. Pieces(line, Full) = Append(e, line)
    BY <1>8, <2>8, <2>9
  <2>11. Append(e, line) = <<piece>>
    BY <2>2, <2>7
  <2>12. <<piece>> \in Texts
    BY <1>2, Singles DEF Texts, Strings
  <2>13. Cat(<<piece>>, e) = <<piece>>
    BY <2>2, <2>12, CatEmpty DEF Texts
  <2> QED
    BY <1>5, <1>6, <1>9, <1>12, <2>6, <2>10, <2>11, <2>13, Zenon
<1> QED
  BY <1>1, <1>10, <1>11

-----------------------------------------------------------------------------
(* What parse_message makes of a command.                                  *)

\* The states of a scan that can go on.
Scans == {st \in Turns : st.stopped \/ st.at <= 3}

\* st with one more symbol in its field.
IsPut(st, tt, d) ==
  /\ tt.at = st.at /\ tt.stopped = st.stopped /\ tt.escaped = FALSE
  /\ tt.fields \in [1 .. 3 -> Seq(Symbols)]
  /\ tt.fields[st.at] = Append(st.fields[st.at], d)
  /\ \A i \in 1 .. 3 : i # st.at => tt.fields[i] = st.fields[i]

\* st with the same fields.
IsPast(st, tt) ==
  /\ tt.fields = st.fields
  /\ \/ tt.at = st.at /\ (tt.escaped => st.escaped)
     \/ tt.at = st.at /\ tt.escaped /\ ~st.escaped /\ ~st.stopped
     \/ tt.at = st.at + 1 /\ tt.escaped = st.escaped /\ ~st.stopped

\* Put adds a symbol.
LEMMA PutIs ==
  ASSUME NEW st \in Scans, ~st.stopped, NEW d \in Symbols
  PROVE  Put(st, d) \in Scans /\ IsPut(st, Put(st, d), d)
<1>1. /\ st.fields \in [1 .. 3 -> Seq(Symbols)] /\ st.at \in 1 .. 3
      /\ st.escaped \in BOOLEAN /\ st.stopped = FALSE
  BY DEF Scans, Turns
<1>2. PICK f : f = [st.fields EXCEPT ![st.at] = Append(@, d)]
  OBVIOUS
<1>3. /\ f \in [1 .. 3 -> Seq(Symbols)] /\ f[st.at] = Append(st.fields[st.at], d)
      /\ \A i \in 1 .. 3 : i # st.at => f[i] = st.fields[i]
  BY <1>1, <1>2
<1>4. PICK tt : tt = Put(st, d)
  OBVIOUS
<1>5. tt = [fields |-> f, at |-> st.at, escaped |-> FALSE, stopped |-> FALSE]
  BY <1>1, <1>2, <1>4 DEF Put, Scans, Turns
<1>6. tt \in Scans
  BY <1>1, <1>3, <1>5 DEF Scans, Turns
<1>7. IsPut(st, tt, d)
  BY <1>1, <1>3, <1>5 DEF IsPut
<1> QED
  BY <1>4, <1>6, <1>7

\* One step of parse_message adds at most one symbol.
LEMMA ScanIs ==
  ASSUME NEW st \in Scans, NEW ch \in Symbols
  PROVE  /\ Scan(st, ch) \in Scans
         /\ \/ IsPast(st, Scan(st, ch))
            \/ ~st.stopped /\ \E d \in Symbols : IsPut(st, Scan(st, ch), d)
         /\ ch = NL /\ ~st.escaped => Scan(st, ch).fields = st.fields /\ Scan(st, ch).at = st.at
<1> DEFINE tt == Scan(st, ch)
<1>1. /\ st.fields \in [1 .. 3 -> Seq(Symbols)] /\ st.at \in 1 .. 4
      /\ st.escaped \in BOOLEAN /\ st.stopped \in BOOLEAN
      /\ st.stopped \/ st.at \in 1 .. 3
      /\ st = [fields |-> st.fields, at |-> st.at, escaped |-> st.escaped,
               stopped |-> st.stopped]
  BY DEF Scans, Turns
<1> SUFFICES /\ tt \in Scans
             /\ \/ IsPast(st, tt)
                \/ ~st.stopped /\ \E d \in Symbols : IsPut(st, tt, d)
             /\ ch = NL /\ ~st.escaped => tt.fields = st.fields /\ tt.at = st.at
  OBVIOUS
<1> HIDE DEF tt
<1>2. CASE st.stopped
  <2>1. tt = st
    BY <1>2, Zenon DEF Scan, tt
  <2> QED
    BY <1>1, <2>1 DEF IsPast
<1>3. CASE ~st.stopped /\ st.escaped
  <2>1. PICK d : d = IF ch = "n" THEN NL ELSE ch
    OBVIOUS
  <2>2. d \in Symbols
    BY <2>1, SymbolsAre
  <2>3. tt = Put(st, d)
    BY <1>3, <2>1, Zenon DEF Scan, tt
  <2> QED
    BY <1>3, <2>2, <2>3, PutIs
<1>4. CASE ~st.stopped /\ ~st.escaped
  <2>1. tt = CASE ch = NL -> [st EXCEPT !.stopped = TRUE]
               [] ch = Backslash -> [st EXCEPT !.escaped = TRUE]
               [] ch = Bar -> [st EXCEPT !.at = @ + 1, !.stopped = st.at = 3]
               [] OTHER -> IF Len(st.fields[st.at]) < MaxMsg - 1
                           THEN Put(st, ch) ELSE st
    BY <1>4, Zenon DEF Scan, tt
  <2>2. NL # Backslash /\ NL # Bar /\ Backslash # Bar
    BY Zenon DEF NL, Backslash, Bar
  <2>3. CASE ch = NL
    <3>1. tt = [st EXCEPT !.stopped = TRUE]
      BY <2>1, <2>2, <2>3, Zenon
    <3>2. tt = [fields |-> st.fields, at |-> st.at, escaped |-> st.escaped, stopped |-> TRUE]
      BY <1>1, <3>1
    <3> QED
      BY <1>1, <3>2 DEF IsPast, Scans, Turns
  <2>4. CASE ch = Backslash
    <3>1. tt = [st EXCEPT !.escaped = TRUE]
      BY <2>1, <2>2, <2>4, Zenon
    <3>2. tt = [fields |-> st.fields, at |-> st.at, escaped |-> TRUE, stopped |-> st.stopped]
      BY <1>1, <3>1
    <3>3. tt \in Scans
      BY <1>1, <1>4, <3>2 DEF Scans, Turns
    <3>4. IsPast(st, tt)
      BY <1>1, <1>4, <3>2 DEF IsPast
    <3> QED
      BY <2>2, <2>4, <3>3, <3>4
  <2>5. CASE ch = Bar
    <3>1. tt = [st EXCEPT !.at = @ + 1, !.stopped = st.at = 3]
      BY <2>1, <2>2, <2>5, Zenon
    <3>2. tt = [fields |-> st.fields, at |-> st.at + 1, escaped |-> st.escaped,
                stopped |-> st.at = 3]
      BY <1>1, <3>1
    <3>3. /\ tt.fields = st.fields /\ tt.at = st.at + 1 /\ tt.escaped = st.escaped
          /\ tt.stopped = (st.at = 3)
      BY <3>2
    <3>4. IsPast(st, tt)
      BY <1>4, <3>3 DEF IsPast
    <3>5. tt \in Scans
      <4>1. PICK b \in BOOLEAN : b = (st.at = 3)
        OBVIOUS
      <4>2. tt = [fields |-> st.fields, at |-> st.at + 1, escaped |-> st.escaped,
                  stopped |-> b]
        BY <3>2, <4>1, Zenon
      <4>3. st.at \in 1 .. 3
        BY <1>1, <1>4
      <4>4. b \/ st.at + 1 <= 3
        <5>1. CASE st.at = 3
          BY <4>1, <5>1, Zenon
        <5>2. CASE st.at # 3
          BY <4>3, <5>2
        <5> QED
          BY <5>1, <5>2
      <4>5. st.at + 1 \in 1 .. 4
        BY <4>3
      <4>6. tt \in Turns
        BY <1>1, <4>2, <4>5 DEF Turns
      <4> QED
        BY <4>2, <4>4, <4>6 DEF Scans
    <3> QED
      BY <2>2, <2>5, <3>4, <3>5
  <2>6. CASE ch # NL /\ ch # Backslash /\ ch # Bar
    <3>1. tt = IF Len(st.fields[st.at]) < MaxMsg - 1 THEN Put(st, ch) ELSE st
      BY <2>1, <2>6, Zenon
    <3>2. CASE tt = st
      BY <1>1, <2>6, <3>2 DEF IsPast
    <3>3. CASE tt = Put(st, ch)
      BY <1>4, <2>6, <3>3, PutIs
    <3> QED
      BY <3>1, <3>2, <3>3
  <2> QED
    BY <2>3, <2>4, <2>5, <2>6
<1> QED
  BY <1>1, <1>2, <1>3, <1>4

\* What there is after the symbols q.
Turned(q, st) ==
  /\ st \in Scans
  /\ Len(st.fields[1]) + Len(st.fields[2]) + Len(st.fields[3]) + (st.at - 1)
       + (IF st.escaped THEN 1 ELSE 0) <= Len(q)
  /\ Len(st.fields[3]) > 0 => st.at >= 3

\* The types of the parts of a scan.
LEMMA Shapes ==
  ASSUME NEW st \in Scans
  PROVE  /\ st.fields \in [1 .. 3 -> Seq(Symbols)]
         /\ st.at \in 1 .. 4 /\ (st.stopped \/ st.at \in 1 .. 3)
         /\ st.escaped \in BOOLEAN /\ st.stopped \in BOOLEAN
         /\ Len(st.fields[1]) \in Nat /\ Len(st.fields[2]) \in Nat
         /\ Len(st.fields[3]) \in Nat
<1>1. /\ st.fields \in [1 .. 3 -> Seq(Symbols)] /\ st.at \in 1 .. 4
      /\ (st.stopped \/ st.at \in 1 .. 3)
      /\ st.escaped \in BOOLEAN /\ st.stopped \in BOOLEAN
  BY DEF Scans, Turns
<1>2. \A i \in 1 .. 3 : st.fields[i] \in Seq(Symbols)
  BY <1>1
<1>3. Len(st.fields[1]) \in Nat /\ Len(st.fields[2]) \in Nat /\ Len(st.fields[3]) \in Nat
  BY <1>2
<1> QED
  BY <1>1, <1>3

\* One symbol more of the command.
LEMMA TurnedStep ==
  ASSUME NEW q \in Strings, NEW m \in Symbols, NEW st, Turned(q, st)
  PROVE  Turned(Append(q, m), Scan(st, m))
<1>1. PICK r, tt : r = Append(q, m) /\ tt = Scan(st, m)
  OBVIOUS
<1>2. Len(r) = Len(q) + 1 /\ Len(q) \in Nat
  BY <1>1 DEF Strings
<1>3. st \in Scans
  BY DEF Turned
<1>4. /\ tt \in Scans
      /\ IsPast(st, tt) \/ (~st.stopped /\ \E d \in Symbols : IsPut(st, tt, d))
  BY <1>1, <1>3, ScanIs
<1>5. PICK a, b, c, k, e, f :
        /\ a = Len(st.fields[1]) /\ b = Len(st.fields[2]) /\ c = Len(st.fields[3])
        /\ k = st.at /\ e = st.escaped /\ f = st.fields
  OBVIOUS
<1>6. /\ a \in Nat /\ b \in Nat /\ c \in Nat /\ k \in 1 .. 4
      /\ a + b + c + (k - 1) + (IF e THEN 1 ELSE 0) <= Len(q)
      /\ c > 0 => k >= 3
  BY <1>3, <1>5, Shapes DEF Turned
<1>7. CASE IsPast(st, tt)
  <2>1. /\ Len(tt.fields[1]) = a /\ Len(tt.fields[2]) = b /\ Len(tt.fields[3]) = c
    BY <1>5, <1>7 DEF IsPast
  <2>2. \/ tt.at = k /\ (tt.escaped => e)
        \/ tt.at = k /\ tt.escaped /\ ~e
        \/ tt.at = k + 1 /\ tt.escaped = e
    BY <1>5, <1>7 DEF IsPast
  <2>3. a + b + c + (tt.at - 1) + (IF tt.escaped THEN 1 ELSE 0) <= Len(r)
        /\ tt.at >= k
    BY <1>2, <1>6, <2>2
  <2>4. c > 0 => tt.at >= 3
    BY <1>6, <2>2
  <2> QED
    BY <1>1, <1>4, <2>1, <2>3, <2>4 DEF Turned
<1>8. CASE ~st.stopped /\ \E d \in Symbols : IsPut(st, tt, d)
  <2>1. PICK d \in Symbols : IsPut(st, tt, d)
    BY <1>8
  <2>2. k \in 1 .. 3
    BY <1>3, <1>5, <1>8, Shapes
  <2>3. Len(Append(f[k], d)) = Len(f[k]) + 1
    BY <1>3, <1>5, <2>2, Shapes
  <2>4. /\ tt.at = k /\ tt.escaped = FALSE /\ Len(tt.fields[k]) = Len(f[k]) + 1
        /\ \A i \in 1 .. 3 : i # k => tt.fields[i] = f[i]
    BY <1>5, <2>1, <2>3 DEF IsPut
  <2>5. PICK x, y, z : /\ x = Len(tt.fields[1]) /\ y = Len(tt.fields[2])
                       /\ z = Len(tt.fields[3])
    OBVIOUS
  <2>6. /\ k = 1 => x = a + 1 /\ y = b /\ z = c
        /\ k = 2 => x = a /\ y = b + 1 /\ z = c
        /\ k = 3 => x = a /\ y = b /\ z = c + 1
    <3>1. CASE k = 1
      <4>1. x = a + 1 /\ y = b /\ z = c
        BY <1>5, <2>4, <2>5, <3>1
      <4> QED
        BY <3>1, <4>1
    <3>2. CASE k = 2
      <4>1. x = a /\ y = b + 1 /\ z = c
        BY <1>5, <2>4, <2>5, <3>2
      <4> QED
        BY <3>2, <4>1
    <3>3. CASE k = 3
      <4>1. x = a /\ y = b /\ z = c + 1
        BY <1>5, <2>4, <2>5, <3>3
      <4> QED
        BY <3>3, <4>1
    <3> QED
      BY <2>2, <3>1, <3>2, <3>3
  <2>7. k = 1 \/ k = 2 \/ k = 3
    BY <2>2
  <2>8. x + y + z = a + b + c + 1 /\ (z > 0 => k >= 3)
    BY <1>6, <2>6, <2>7
  <2>9. x \in Nat /\ y \in Nat /\ z \in Nat
    BY <1>6, <2>6, <2>7
  <2>10. x + y + z + (k - 1) <= Len(r)
    <3>1. a + b + c + (k - 1) <= Len(q)
      BY <1>2, <1>6
    <3>2. a + b + c + 1 + (k - 1) <= Len(q) + 1
      BY <1>2, <1>6, <3>1
    <3>3. x + y + z + (k - 1) = a + b + c + 1 + (k - 1)
      BY <2>8
    <3> QED
      BY <1>2, <3>2, <3>3
  <2>11. x + y + z + (tt.at - 1) + (IF tt.escaped THEN 1 ELSE 0) <= Len(r)
    BY <1>2, <1>6, <2>4, <2>9, <2>10
  <2> QED
    BY <1>1, <1>4, <2>4, <2>5, <2>8, <2>11 DEF Turned
<1> QED
  BY <1>4, <1>7, <1>8

\* The first symbol of a command.
LEMMA ScanStart ==
  /\ Turned(<<>>, Start)
  /\ \A m \in Words : Scan(Start, m).fields[1] = <<m>>
<1>1. /\ Start.fields = << <<>>, <<>>, <<>> >> /\ Start.at = 1
      /\ Start.escaped = FALSE /\ Start.stopped = FALSE
  BY DEF Start
<1>2. PICK e, f : e = <<>> /\ f = Start.fields
  OBVIOUS
<1>3. /\ e \in Seq(Symbols) /\ Len(e) = 0
      /\ f \in [1 .. 3 -> Seq(Symbols)] /\ f[1] = e /\ f[2] = e /\ f[3] = e
  <2>1. e \in Seq(Symbols) /\ Len(e) = 0
    BY <1>2, Singles
  <2>2. f = <<e, e, e>>
    BY <1>1, <1>2
  <2>3. f[1] = e /\ f[2] = e /\ f[3] = e
    BY <2>2
  <2>4. PICK S : S = Seq(Symbols)
    OBVIOUS
  <2>5. e \in S
    BY <2>1, <2>4
  <2>6. <<e, e, e>> \in [1 .. 3 -> S]
    BY <2>5
  <2> QED
    BY <2>1, <2>2, <2>3, <2>4, <2>6
<1>4. Start \in Scans
  <2>1. Start = [fields |-> f, at |-> 1, escaped |-> FALSE, stopped |-> FALSE]
    BY <1>2 DEF Start
  <2>2. Start \in Turns
    BY <1>3, <2>1 DEF Turns
  <2> QED
    BY <1>1, <2>2 DEF Scans
<1>5. Turned(e, Start)
  BY <1>1, <1>2, <1>3, <1>4 DEF Turned
<1>6. ASSUME NEW m \in Words PROVE Scan(Start, m).fields[1] = <<m>>
  <2>1. m # NL /\ m # Bar /\ m # Backslash /\ m \in Symbols
    <3>1. m # NL /\ m # Bar /\ m # Backslash
      BY WordsAre
    <3> QED
      BY <3>1, Zenon DEF Symbols, Words
  <2>2. Len(f[1]) < MaxMsg - 1
    BY <1>3, Sizes
  <2>3. Scan(Start, m) = Put(Start, m)
    <3>1. Len(Start.fields[Start.at]) < MaxMsg - 1
      BY <1>1, <1>2, <2>2
    <3>2. ~Start.stopped /\ ~Start.escaped
      BY <1>1
    <3> QED
      BY <2>1, <3>1, <3>2, Zenon DEF Scan
  <2>4. IsPut(Start, Put(Start, m), m)
    BY <1>1, <1>4, <2>1, PutIs
  <2>5. Put(Start, m).fields[1] = Append(f[1], m)
    BY <1>1, <1>2, <2>4 DEF IsPut
  <2> QED
    BY <1>2, <1>3, <2>3, <2>5
<1> QED
  BY <1>2, <1>5, <1>6

\* What a step adds.
Used(st) ==
  Len(st.fields[1]) + Len(st.fields[2]) + Len(st.fields[3]) + (st.at - 1)

\* At most one.
LEMMA UsedStep ==
  ASSUME NEW st \in Scans, NEW ch \in Symbols
  PROVE  /\ Used(Scan(st, ch)) <= Used(st) + 1
         /\ Used(st) \in Int /\ Used(Scan(st, ch)) \in Int
<1>1. PICK tt : tt = Scan(st, ch)
  OBVIOUS
<1>2. /\ tt \in Scans
      /\ IsPast(st, tt) \/ (~st.stopped /\ \E d \in Symbols : IsPut(st, tt, d))
  BY <1>1, ScanIs
<1>3. PICK a, b, c, k, f :
        /\ a = Len(st.fields[1]) /\ b = Len(st.fields[2]) /\ c = Len(st.fields[3])
        /\ k = st.at /\ f = st.fields
  OBVIOUS
<1>4. a \in Nat /\ b \in Nat /\ c \in Nat /\ k \in 1 .. 4
  BY <1>3, Shapes
<1>5. PICK x, y, z : x = Len(tt.fields[1]) /\ y = Len(tt.fields[2]) /\ z = Len(tt.fields[3])
  OBVIOUS
<1>6. x \in Nat /\ y \in Nat /\ z \in Nat /\ tt.at \in 1 .. 4
  BY <1>2, <1>5, Shapes
<1>7. x + y + z + (tt.at - 1) <= a + b + c + (k - 1) + 1
  <2>1. CASE IsPast(st, tt)
    <3>1. x = a /\ y = b /\ z = c
      BY <1>3, <1>5, <2>1 DEF IsPast
    <3>2. tt.at = k \/ tt.at = k + 1
      BY <1>3, <2>1 DEF IsPast
    <3> QED
      BY <1>4, <1>6, <3>1, <3>2
  <2>2. CASE ~st.stopped /\ \E d \in Symbols : IsPut(st, tt, d)
    <3>1. PICK d \in Symbols : IsPut(st, tt, d)
      BY <2>2
    <3>2. k \in 1 .. 3
      BY <1>3, <2>2, Shapes
    <3>3. Len(Append(f[k], d)) = Len(f[k]) + 1
      BY <1>3, <3>2, Shapes
    <3>4. /\ tt.at = k /\ Len(tt.fields[k]) = Len(f[k]) + 1
          /\ \A i \in 1 .. 3 : i # k => tt.fields[i] = f[i]
      BY <1>3, <3>1, <3>3 DEF IsPut
    <3>5. CASE k = 1
      <4>1. x = a + 1 /\ y = b /\ z = c
        BY <1>3, <1>5, <3>4, <3>5
      <4> QED
        BY <1>4, <1>6, <3>4, <4>1
    <3>6. CASE k = 2
      <4>1. x = a /\ y = b + 1 /\ z = c
        BY <1>3, <1>5, <3>4, <3>6
      <4> QED
        BY <1>4, <1>6, <3>4, <4>1
    <3>7. CASE k = 3
      <4>1. x = a /\ y = b /\ z = c + 1
        BY <1>3, <1>5, <3>4, <3>7
      <4> QED
        BY <1>4, <1>6, <3>4, <4>1
    <3> QED
      BY <3>2, <3>5, <3>6, <3>7
  <2> QED
    BY <1>2, <2>1, <2>2
<1>8. a + b + c + (k - 1) \in Int /\ x + y + z + (tt.at - 1) \in Int
  BY <1>4, <1>6
<1> QED
  BY <1>1, <1>3, <1>5, <1>7, <1>8 DEF Used

\* ParseMessage as a fold of its steps.
Scanning == [p \in Turns \X Symbols |-> Scan(p[1], p[2])]
Scanned(q) == Fold(Scanning, Start, q)

\* The first state, and one symbol more.
LEMMA ScannedAppend ==
  /\ Scanned(<<>>) = Start
  /\ \A q \in Strings, m \in Symbols : Scanned(Append(q, m)) = Scan(Scanned(q), m)
<1>1. \A s \in Scans, m \in Symbols : Scanning[<<s, m>>] = Scan(s, m)
  BY DEF Scanning, Scans
<1>2. \A s \in Scans, m \in Symbols : Scanning[<<s, m>>] \in Scans
  BY <1>1, ScanIs
<1>3. Start \in Scans
  BY ScanStart DEF Turned
<1>4. \A q \in Strings : Scanned(q) \in Scans
  BY <1>2, <1>3, FoldType DEF Scanned, Strings
<1>5. \A q \in Strings, m \in Symbols :
        Fold(Scanning, Start, Append(q, m)) = Scanning[<<Fold(Scanning, Start, q), m>>]
  BY <1>2, <1>3, FoldAppend DEF Strings
<1>6. Scanned(<<>>) = Start
  BY FoldEmpty DEF Scanned
<1> QED
  BY <1>1, <1>4, <1>5, <1>6 DEF Scanned

\* The type starts with the first symbol.
Starts(q, st) ==
  Len(q) > 0 /\ q[1] \in Words => Len(st.fields[1]) > 0 /\ st.fields[1][1] = q[1]

\* It goes on to start with it.
LEMMA StartsStep ==
  ASSUME NEW q \in Strings, NEW m \in Symbols, NEW st, Turned(q, st), Starts(q, st),
         Len(q) = 0 => st = Start
  PROVE  Starts(Append(q, m), Scan(st, m))
<1>1. PICK r, tt : r = Append(q, m) /\ tt = Scan(st, m)
  OBVIOUS
<1>2. /\ Len(r) = Len(q) + 1 /\ Len(q) \in Nat
      /\ Len(q) > 0 => r[1] = q[1]
      /\ Len(q) = 0 => r[1] = m
  BY <1>1 DEF Strings
<1>3. SUFFICES ASSUME r[1] \in Words
               PROVE  Len(tt.fields[1]) > 0 /\ tt.fields[1][1] = r[1]
  BY <1>1 DEF Starts
<1>4. CASE Len(q) = 0
  <2>1. tt.fields[1] = <<m>>
    BY <1>1, <1>2, <1>3, <1>4, ScanStart
  <2> QED
    BY <1>2, <1>4, <2>1
<1>5. CASE Len(q) > 0
  <2>1. st \in Scans
    BY DEF Turned
  <2>2. PICK a, b : a = st.fields[1] /\ b = tt.fields[1]
    OBVIOUS
  <2>3. a \in Seq(Symbols) /\ Len(a) > 0 /\ a[1] = r[1]
    BY <1>2, <1>3, <1>5, <2>1, <2>2, Shapes DEF Starts
  <2>4. IsPast(st, tt) \/ (~st.stopped /\ \E d \in Symbols : IsPut(st, tt, d))
    BY <1>1, <2>1, ScanIs
  <2>5. b = a \/ \E d \in Symbols : b = Append(a, d)
    <3>1. CASE IsPast(st, tt)
      BY <2>2, <3>1 DEF IsPast
    <3>2. CASE ~st.stopped /\ \E d \in Symbols : IsPut(st, tt, d)
      <4>1. PICK d \in Symbols : IsPut(st, tt, d)
        BY <3>2
      <4>2. CASE st.at = 1
        BY <2>2, <4>1, <4>2 DEF IsPut
      <4>3. CASE st.at # 1
        <5>1. 1 \in 1 .. 3 /\ 1 # st.at
          BY <4>3
        <5> QED
          BY <2>2, <4>1, <5>1 DEF IsPut
      <4> QED
        BY <4>2, <4>3
    <3> QED
      BY <2>4, <3>1, <3>2
  <2>6. CASE b = a
    BY <2>2, <2>3, <2>6
  <2>7. CASE \E d \in Symbols : b = Append(a, d)
    <3>1. PICK d \in Symbols : b = Append(a, d)
      BY <2>7
    <3>2. Len(b) > 0 /\ b[1] = a[1]
      BY <2>3, <3>1
    <3> QED
      BY <2>2, <2>3, <3>2
  <2> QED
    BY <2>5, <2>6, <2>7
<1> QED
  BY <1>2, <1>4, <1>5

\* Both hold when the whole command has been scanned.
LEMMA ScannedIs == \A q \in Strings : Turned(q, Scanned(q)) /\ Starts(q, Scanned(q))
<1> DEFINE T == {q \in Strings : Turned(q, Scanned(q)) /\ Starts(q, Scanned(q))}
<1>1. <<>> \in T
  <2>1. PICK e : e = <<>>
    OBVIOUS
  <2>2. e \in Strings /\ Len(e) = 0
    BY <2>1, Singles DEF Strings
  <2>3. Turned(e, Scanned(e))
    BY <2>1, ScanStart, ScannedAppend
  <2>4. Starts(e, Scanned(e))
    BY <2>2 DEF Starts
  <2> QED
    BY <2>1, <2>2, <2>3, <2>4
<1>2. ASSUME NEW q \in Strings, NEW m \in Symbols, q \in T PROVE Append(q, m) \in T
  <2>1. PICK st, r : st = Scanned(q) /\ r = Append(q, m)
    OBVIOUS
  <2>2. Turned(q, st) /\ Starts(q, st) /\ Scanned(r) = Scan(st, m)
    BY <1>2, <2>1, ScannedAppend
  <2>3. Len(q) = 0 => st = Start
    <3>1. Len(q) = 0 => q = <<>>
      BY DEF Strings
    <3> QED
      BY <2>1, <3>1, ScannedAppend
  <2>4. Turned(r, Scanned(r)) /\ Starts(r, Scanned(r))
    BY <2>1, <2>2, <2>3, TurnedStep, StartsStep
  <2>5. r \in Strings
    BY <2>1 DEF Strings
  <2> QED
    BY <2>1, <2>4, <2>5
<1> HIDE DEF T
<1>3. Strings \subseteq T
  BY <1>1, <1>2, SeqSetInduction DEF Strings
<1> QED
  BY <1>3 DEF T

\* What the server makes of a command is short enough to be sent on.
LEMMA ParsedIs ==
  ASSUME NEW c, Command(c), NEW msg, msg = ParseMessage(c)
  PROVE  /\ msg.type \in Strings /\ msg.arg1 \in Strings /\ msg.arg2 \in Strings
         /\ msg.arg1 \in Online => Len(msg.arg2) <= MaxName + MaxChat - 3
         /\ msg.type = <<"BROADCAST">> => Len(msg.arg2) <= MaxChat - 2
<1>1. PICK st : st = Scanned(c)
  OBVIOUS
<1>2. msg.type = st.fields[1] /\ msg.arg1 = st.fields[2] /\ msg.arg2 = st.fields[3]
  <2>1. ParseMessage(c) = [type |-> st.fields[1], arg1 |-> st.fields[2],
                           arg2 |-> st.fields[3]]
    BY <1>1, Zenon DEF ParseMessage, Scanned, Scanning
  <2> QED
    BY <2>1
<1>3. /\ c \in Strings /\ Len(c) >= 2 /\ Len(c) \in Nat /\ c[Len(c)] = NL
      /\ c[1] \in Words /\ Len(c) <= MaxName + MaxChat + 2
      /\ c[1] = "BROADCAST" => Len(c) <= MaxChat + 2
  BY DEF Command, Frame, Sendable, Strings, Words
<1>4. Starts(c, st) /\ Turned(c, st)
  BY <1>1, <1>3, ScannedIs
<1>5. PICK q \in Strings, m \in Symbols : c = Append(q, m)
  <2>1. c # <<>>
    BY <1>3
  <2> QED
    BY <1>3, <2>1, SequenceEmptyOrAppend DEF Strings
<1>6. m = NL /\ Len(c) = Len(q) + 1 /\ Len(q) \in Nat
  BY <1>3, <1>5 DEF Strings
<1>7. PICK s : s = Scanned(q)
  OBVIOUS
<1>8. Turned(q, s) /\ s \in Scans /\ st = Scan(s, NL) /\ st \in Scans
  BY <1>1, <1>4, <1>5, <1>6, <1>7, ScannedIs, ScannedAppend DEF Turned
<1>9. PICK x, y, z : /\ x = Len(st.fields[1]) /\ y = Len(st.fields[2])
                     /\ z = Len(st.fields[3])
  OBVIOUS
<1>10. x \in Nat /\ y \in Nat /\ z \in Nat /\ st.at \in 1 .. 4
  BY <1>8, <1>9, Shapes
<1>11. z > 0 => st.at >= 3
  BY <1>4, <1>9 DEF Turned
<1>12. x + y + z + (st.at - 1) <= Len(q)
  <2>1. CASE s.escaped
    <3>1. Used(s) + 1 <= Len(q)
      BY <1>8, <2>1 DEF Turned, Used
    <3>2. Used(st) <= Used(s) + 1 /\ Used(s) \in Int /\ Used(st) \in Int
      BY <1>8, SymbolsAre, UsedStep
    <3>3. Used(st) <= Len(q)
      BY <1>6, <3>1, <3>2
    <3> QED
      BY <1>9, <3>3 DEF Used
  <2>2. CASE ~s.escaped
    <3>1. st.fields = s.fields /\ st.at = s.at
      BY <1>8, <2>2, SymbolsAre, ScanIs
    <3>2. x + y + z + (st.at - 1) + 0 <= Len(q)
      BY <1>8, <1>9, <2>2, <3>1 DEF Turned
    <3> QED
      BY <1>6, <1>10, <3>2
  <2> QED
    BY <2>1, <2>2
<1>13. /\ msg.type \in Strings /\ msg.arg1 \in Strings /\ msg.arg2 \in Strings
       /\ Len(msg.arg1) = y /\ Len(msg.arg2) = z
  BY <1>2, <1>8, <1>9, Shapes DEF Strings
<1>14. x > 0
  BY <1>3, <1>4, <1>9 DEF Starts
<1>15. ASSUME msg.arg1 \in Online PROVE z <= MaxName + MaxChat - 3
  <2>1. PICK i \in DOMAIN Seats : msg.arg1 = Seats[i]
    BY <1>15 DEF Online
  <2>2. Len(Seats[i]) \in 1 .. MaxName
    BY SeatsAssumption DEF AreNames
  <2>3. y >= 1
    BY <1>13, <2>1, <2>2
  <2> QED
    BY <1>3, <1>6, <1>10, <1>11, <1>12, <1>14, <2>3, Sizes
<1>16. ASSUME msg.type = <<"BROADCAST">> PROVE z <= MaxChat - 2
  <2>1. c[1] = "BROADCAST"
    BY <1>2, <1>3, <1>4, <1>16 DEF Starts
  <2> QED
    BY <1>3, <1>6, <1>10, <1>11, <1>12, <1>14, <2>1, Sizes
<1> QED
  BY <1>13, <1>15, <1>16

-----------------------------------------------------------------------------
(* What the server sends.                                                  *)

\* A name has no newline and is not too long.
LEMMA NameIs ==
  ASSUME NEW u \in Online
  PROVE  u \in Seq(Symbols) /\ NoNL(u) /\ Len(u) \in 1 .. MaxName /\ u \in Strings
<1>1. PICK i \in DOMAIN Seats : u = Seats[i]
  BY DEF Online
<1>2. u \in Seq(Alphabet \ {Bar, Semicolon, Space, Backslash}) /\ Len(u) \in 1 .. MaxName
  BY <1>1, SeatsAssumption DEF AreNames
<1>3. PICK A : A = Alphabet \ {Bar, Semicolon, Space, Backslash}
  OBVIOUS
<1>4. A \subseteq Symbols /\ NL \notin A
  BY <1>3, SymbolsAre, AlphabetAssumption
<1>5. u \in Seq(Symbols)
  BY <1>2, <1>3, <1>4, SeqMonotonic
<1>6. NoNL(u)
  <2>1. u \in Seq(A)
    BY <1>2, <1>3
  <2> QED
    BY <1>4, <2>1 DEF NoNL
<1> QED
  BY <1>2, <1>5, <1>6 DEF Strings

\* The list has none either.
LEMMA ListIs == ListUsernames \in Seq(Symbols) /\ NoNL(ListUsernames)
<1> DEFINE S == {x \in Seq(Symbols) : NoNL(x)}
<1>1. Semicolon \in Symbols /\ Semicolon # NL
  BY SymbolsAre
<1>2. \A s, t \in S : Gluing(Semicolon)[<<s, t>>] \in S
  <2>1. \A s, t \in Seq(Symbols) : Gluing(Semicolon)[<<s, t>>] = Glue(s, Semicolon, t)
    BY DEF Glue, Gluing
  <2>2. \A s, t \in S : Glue(s, Semicolon, t) \in S
    BY <1>1, Glued
  <2> QED
    BY <2>1, <2>2
<1>3. Seats \in Seq(S) /\ Seats # <<>>
  <2>1. \A i \in DOMAIN Seats : Seats[i] \in Online
    BY DEF Online
  <2>2. \A i \in DOMAIN Seats : Seats[i] \in S
    BY <2>1, NameIs
  <2>3. PICK R : Seats \in Seq(R) /\ Seats # <<>>
    BY SeatsAssumption DEF AreNames
  <2> HIDE DEF S
  <2> QED
    BY <2>2, <2>3
<1> HIDE DEF S
<1>4. Head(Seats) \in S /\ Tail(Seats) \in Seq(S)
  BY <1>3
<1>5. Fold(Gluing(Semicolon), Head(Seats), Tail(Seats)) \in S
  BY <1>2, <1>4, FoldType
<1>6. PICK j : j = Join(Seats, Semicolon)
  OBVIOUS
<1>7. j \in Seq(Symbols) /\ NoNL(j)
  <2>1. j = Fold(Gluing(Semicolon), Head(Seats), Tail(Seats))
    BY <1>6, Zenon DEF Join, Gluing
  <2> QED
    BY <1>5, <2>1 DEF S
<1>8. PICK n \in Nat : n = MaxMsg - 1
  BY Sizes
<1>9. /\ Cut(j, n) \in Seq(Symbols) /\ Len(Cut(j, n)) <= Len(j)
      /\ \A i \in 1 .. Len(Cut(j, n)) : Cut(j, n)[i] = j[i]
  BY <1>7, <1>8, CutIs
<1>10. NoNL(Cut(j, n))
  BY <1>7, <1>9 DEF NoNL
<1> QED
  BY <1>6, <1>8, <1>9, <1>10 DEF ListUsernames

\* Lines of one, two and three fields.
LEMMA OneField ==
  ASSUME NEW w \in Words
  PROVE  Sendable(Build(<< <<w>> >>))
<1>1. PICK x : x = <<w>>
  OBVIOUS
<1>2. x \in Seq(Symbols) /\ NoNL(x)
  BY <1>1, WordsAre
<1>3. Frame(Cut(Append(x, NL), MaxMsg - 1))
  BY <1>2, ClosedLine
<1> QED
  BY <1>1, <1>2, <1>3, BuildIs DEF Frame

\* with the second one anything that has no newline,
LEMMA TwoFields ==
  ASSUME NEW w \in Words, NEW b \in Seq(Symbols), NoNL(b)
  PROVE  Sendable(Build(<< <<w>>, b >>))
<1>1. PICK x, y : x = <<w>> /\ y = Glue(x, Bar, b)
  OBVIOUS
<1>2. x \in Seq(Symbols) /\ NoNL(x)
  BY <1>1, WordsAre
<1>3. y \in Seq(Symbols) /\ NoNL(y)
  BY <1>1, <1>2, Barred
<1>4. Frame(Cut(Append(y, NL), MaxMsg - 1))
  BY <1>3, ClosedLine
<1> QED
  BY <1>1, <1>2, <1>4, BuildIs DEF Frame

\* and with the last two short enough.
LEMMA ThreeFields ==
  ASSUME NEW w \in Words, NEW b \in Seq(Symbols), NEW c \in Seq(Symbols),
         Len(b) + Len(c) <= MaxMsg - 5
  PROVE  Sendable(Build(<< <<w>>, b, c >>))
<1>1. PICK x, y, z : x = <<w>> /\ y = Glue(x, Bar, b) /\ z = Glue(y, Bar, c)
  OBVIOUS
<1>2. x \in Seq(Symbols) /\ Len(x) = 1
  BY <1>1, WordsAre
<1>3. /\ y \in Seq(Symbols) /\ Len(y) = Len(x) + 1 + Len(b) /\ Len(b) \in Nat
  BY <1>1, <1>2, Barred
<1>4. z \in Seq(Symbols) /\ Len(z) = Len(y) + 1 + Len(c) /\ Len(c) \in Nat
  BY <1>1, <1>3, Barred
<1>5. Len(z) <= MaxMsg - 2
  BY <1>2, <1>3, <1>4, Sizes
<1>6. Sendable(Cut(Append(z, NL), MaxMsg - 1))
  BY <1>4, <1>5, ClosedLine
<1>7. Build(<<x, b, c>>) = Cut(Append(z, NL), MaxMsg - 1)
  BY <1>1, <1>2, BuildIs
<1> QED
  BY <1>1, <1>6, <1>7

\* A line nothing has been sent of yet.
Fresh(U) == [to : U, line : {l \in Strings : Sendable(l)}, begun : {FALSE}]

\* Such a line is to one client.
LEMMA ToIs ==
  ASSUME NEW U, NEW v \in U, NEW l, Sendable(l)
  PROVE  To(v, l) \in Fresh(U)
BY DEF To, Fresh, Sendable, Strings

\* The answers and messages of a handler.
LEMMA HandleIs ==
  ASSUME NEW u \in Online, NEW c, Command(c)
  PROVE  Handle(u, c) \in Seq(Fresh(Online))
<1>1. PICK msg : msg = ParseMessage(c)
  OBVIOUS
<1>2. /\ msg.type \in Strings /\ msg.arg1 \in Strings /\ msg.arg2 \in Strings
      /\ msg.arg1 \in Online => Len(msg.arg2) <= MaxName + MaxChat - 3
      /\ msg.type = <<"BROADCAST">> => Len(msg.arg2) <= MaxChat - 2
  BY <1>1, ParsedIs
<1>3. PICK S : S = Fresh(Online)
  OBVIOUS
<1>4. \A v \in Online : \A l : Sendable(l) => To(v, l) \in S
  BY <1>3, ToIs
<1>5. u \in Seq(Symbols) /\ Len(u) \in 1 .. MaxName /\ msg.arg2 \in Seq(Symbols)
      /\ Len(msg.arg2) \in Nat
  <2>1. msg.arg2 \in Seq(Symbols)
    BY <1>2 DEF Strings
  <2> QED
    BY <2>1, NameIs
<1>6. \A w \in {"LIST_OK", "MSG_OK", "DELIVER", "BROADCAST_OK", "BROADCAST_FROM", "ERROR",
                "PROTO", "MSG", "NOT_IMPLEMENTED", "USER_NOT_FOUND"} : w \in Words
  BY Zenon DEF Words
<1> DEFINE list == << To(u, Build(<< <<"LIST_OK">>, ListUsernames >>)) >>
           told == << To(msg.arg1, Build(<< <<"DELIVER">>, u, msg.arg2 >>)),
                      To(u, Build(<< <<"MSG_OK">>, msg.arg1 >>)) >>
           lost == << To(u, Build(<< <<"ERROR">>, <<"MSG">>, <<"USER_NOT_FOUND">> >>)) >>
           all  == Append([i \in DOMAIN Seats |->
                             To(Seats[i], Build(<< <<"BROADCAST_FROM">>, u, msg.arg2 >>))],
                          To(u, Build(<< <<"BROADCAST_OK">> >>)))
           bad  == << To(u, Build(<< <<"ERROR">>, <<"PROTO">>, <<"NOT_IMPLEMENTED">> >>)) >>
<1>7. Handle(u, c) = CASE msg.type = <<"LIST">> -> list
                       [] msg.type = <<"MSG">> /\ msg.arg1 \in Online -> told
                       [] msg.type = <<"MSG">> /\ msg.arg1 \notin Online -> lost
                       [] msg.type = <<"BROADCAST">> -> all
                       [] OTHER -> bad
  BY <1>1, Zenon DEF Handle
<1>8. list \in Seq(S)
  <2>1. Sendable(Build(<< <<"LIST_OK">>, ListUsernames >>))
    BY <1>6, ListIs, TwoFields
  <2>2. To(u, Build(<< <<"LIST_OK">>, ListUsernames >>)) \in S
    BY <1>4, <2>1
  <2> QED
    BY <2>2, Singles
<1>9. ASSUME msg.arg1 \in Online PROVE told \in Seq(S)
  <2>1. Len(u) + Len(msg.arg2) <= MaxMsg - 5
    BY <1>2, <1>5, <1>9, Sizes
  <2>2. Sendable(Build(<< <<"DELIVER">>, u, msg.arg2 >>))
    BY <1>5, <1>6, <2>1, ThreeFields
  <2>3. Sendable(Build(<< <<"MSG_OK">>, msg.arg1 >>))
    BY <1>6, <1>9, NameIs, TwoFields
  <2>4. PICK a, b : /\ a = To(msg.arg1, Build(<< <<"DELIVER">>, u, msg.arg2 >>))
                    /\ b = To(u, Build(<< <<"MSG_OK">>, msg.arg1 >>))
    OBVIOUS
  <2>5. a \in S /\ b \in S
    BY <1>4, <1>9, <2>2, <2>3, <2>4
  <2>6. <<a, b>> \in Seq(S)
    BY <2>5
  <2> QED
    BY <2>4, <2>6
<1>10. ASSUME NEW w \in Words, NEW x \in Words
       PROVE  << To(u, Build(<< <<"ERROR">>, <<w>>, <<x>> >>)) >> \in Seq(S)
  <2>1. /\ <<w>> \in Seq(Symbols) /\ <<x>> \in Seq(Symbols)
        /\ Len(<<w>>) = 1 /\ Len(<<x>>) = 1
    BY WordsAre
  <2>2. Len(<<w>>) + Len(<<x>>) <= MaxMsg - 5
    BY <2>1, Sizes
  <2>3. Sendable(Build(<< <<"ERROR">>, <<w>>, <<x>> >>))
    BY <1>6, <2>1, <2>2, ThreeFields
  <2>4. To(u, Build(<< <<"ERROR">>, <<w>>, <<x>> >>)) \in S
    BY <1>4, <2>3
  <2> QED
    BY <2>4, Singles
<1>11. ASSUME msg.type = <<"BROADCAST">> PROVE all \in Seq(S)
  <2>1. Len(u) + Len(msg.arg2) <= MaxMsg - 5
    BY <1>2, <1>5, <1>11, Sizes
  <2>2. Sendable(Build(<< <<"BROADCAST_FROM">>, u, msg.arg2 >>))
    BY <1>5, <1>6, <2>1, ThreeFields
  <2>3. PICK l, b : /\ l = Build(<< <<"BROADCAST_FROM">>, u, msg.arg2 >>)
                    /\ b = To(u, Build(<< <<"BROADCAST_OK">> >>))
    OBVIOUS
  <2>4. b \in S
    BY <1>4, <1>6, <2>3, OneField
  <2>5. \A i \in DOMAIN Seats : To(Seats[i], l) \in S
    BY <1>4, <2>2, <2>3 DEF Online
  <2>6. [i \in DOMAIN Seats |-> To(Seats[i], l)] \in Seq(S)
    <3>1. PICK n \in Nat : DOMAIN Seats = 1 .. n
      BY SeatsAssumption DEF AreNames
    <3> QED
      BY <2>5, <3>1
  <2>7. Append([i \in DOMAIN Seats |-> To(Seats[i], l)], b) \in Seq(S)
    BY <2>4, <2>6
  <2> QED
    BY <2>3, <2>7
<1>12. lost \in Seq(S) /\ bad \in Seq(S)
  BY <1>6, <1>10
<1> HIDE DEF list, told, lost, all, bad
<1> QED
  BY <1>3, <1>7, <1>8, <1>9, <1>11, <1>12, Zenon

\* Those of them that the model follows.
LEMMA ModelledIs ==
  ASSUME NEW u \in Users, NEW c, Command(c)
  PROVE  Modelled[Handle(u, c)] \in Seq(Fresh(Users))
<1>1. PICK q : q = Handle(u, c)
  OBVIOUS
<1>2. q \in Seq(Fresh(Online))
  BY <1>1, HandleIs, UsersAssumption
<1> DEFINE D == {i \in DOMAIN q : q[i].to \in Users}
<1>3. ASSUME NEW n \in DOMAIN q \cap D PROVE q[n] \in Fresh(Users)
  <2>1. PICK j : j = q[n]
    OBVIOUS
  <2>2. j \in Fresh(Online)
    BY <1>2, <2>1
  <2>3. j.to \in Users
    BY <2>1
  <2> QED
    BY <2>1, <2>2, <2>3 DEF Fresh
<1>4. Picked(q, D) \in Seq(Fresh(Users))
  BY <1>2, <1>3, PickedType
<1>5. Fresh(Online) \subseteq [to : Online, line : Seq(Symbols), begun : BOOLEAN]
  BY DEF Fresh, Strings
<1>6. q \in Seq([to : Online, line : Seq(Symbols), begun : BOOLEAN])
  BY <1>2, <1>5, SeqMonotonic
<1> QED
  BY <1>1, <1>4, <1>6 DEF Modelled

\* The monitor's notice.
LEMMA NoticeIs ==
  ASSUME NEW u \in Users
  PROVE  << To(u, Build(<< <<"STATUS_CHANGED">>, u, <<"INACTIVO">> >>)) >> \in Seq(Fresh(Users))
<1>1. "STATUS_CHANGED" \in Words /\ "INACTIVO" \in Words
  BY Zenon DEF Words
<1>2. PICK w, x : w = "STATUS_CHANGED" /\ x = <<"INACTIVO">>
  OBVIOUS
<1>3. w \in Words /\ x \in Seq(Symbols) /\ Len(x) = 1
  BY <1>1, <1>2, WordsAre
<1>4. u \in Seq(Symbols) /\ Len(u) \in 1 .. MaxName
  BY NameIs, UsersAssumption
<1>5. Len(u) + Len(x) <= MaxMsg - 5
  BY <1>3, <1>4, Sizes
<1>6. Sendable(Build(<< <<w>>, u, x >>))
  BY <1>3, <1>4, <1>5, ThreeFields
<1>7. To(u, Build(<< <<w>>, u, x >>)) \in Fresh(Users)
  BY <1>6, ToIs
<1> QED
  BY <1>2, <1>7, Singles

-----------------------------------------------------------------------------
(* What a user meant to send.                                              *)

\* Texts, lines and commands are strings, whatever has been typed.
LEMMA TextType ==
  ASSUME NEW s \in Strings
  PROVE  Text(s) \in Strings
<1>1. PICK n \in Nat : n = MaxChat - 1
  BY Sizes
<1>2. PICK x : x = Cut(s, n)
  OBVIOUS
<1>3. x \in Seq(Symbols) /\ Len(x) \in Nat
  BY <1>1, <1>2, CutIs DEF Strings
<1>4. Text(s) = x \/ (x # <<>> /\ Text(s) = SubSeq(x, 1, Len(x) - 1))
  BY <1>1, <1>2 DEF Text, TrimNewline
<1>5. CASE Text(s) = x
  BY <1>3, <1>5 DEF Strings
<1>6. CASE x # <<>> /\ Text(s) = SubSeq(x, 1, Len(x) - 1)
  <2>1. PICK k : k = Len(x) - 1
    OBVIOUS
  <2>2. k \in Nat /\ k <= Len(x)
    BY <1>3, <1>6, <2>1
  <2>3. SubSeq(x, 1, k) \in Seq(Symbols)
    BY <1>3, <2>2, Split
  <2> QED
    BY <1>6, <2>1, <2>3 DEF Strings
<1> QED
  BY <1>4, <1>5, <1>6

\* Lines built of strings.
LEMMA BuildType ==
  ASSUME NEW a \in Strings, NEW b \in Strings, NEW c \in Strings
  PROVE  Build(<<a>>) \in Strings /\ Build(<<a, b>>) \in Strings
         /\ Build(<<a, b, c>>) \in Strings
<1>1. PICK n \in Nat : n = MaxMsg - 1
  BY Sizes
<1>2. ASSUME NEW x \in Seq(Symbols) PROVE Cut(Append(x, NL), n) \in Strings
  <2>1. Append(x, NL) \in Seq(Symbols)
    BY SymbolsAre
  <2> QED
    BY <2>1, CutIs DEF Strings
<1>3. a \in Seq(Symbols) /\ b \in Seq(Symbols) /\ c \in Seq(Symbols)
  BY DEF Strings
<1>4. Glue(a, Bar, b) \in Seq(Symbols)
  BY <1>3, Barred
<1>5. Glue(Glue(a, Bar, b), Bar, c) \in Seq(Symbols)
  BY <1>3, <1>4, Barred
<1> QED
  BY <1>1, <1>2, <1>3, <1>4, <1>5, BuildIs

\* Commands.
LEMMA ToProtoType ==
  ASSUME NEW piece \in Strings
  PROVE  ToProto(piece) \in Strings
<1> DEFINE line == SkipSpaces(piece)
<1> DEFINE args == SkipSpaces(Tail(line))
<1> DEFINE dest == Dest(Before(args, Space))
<1> DEFINE said == Text(SkipSpaces(After(args, Space)))
<1>0. <<>> \in Strings
  BY Singles DEF Strings
<1>1. CASE line = <<>>
  BY <1>0, <1>1 DEF ToProto
<1>2. CASE line # <<>>
  <2>1. line \in Seq(Symbols)
    BY SkipIs DEF Strings
  <2>2. Tail(line) \in Seq(Symbols)
    BY <1>2, <2>1, HeadTailProperties
  <2>3. args \in Seq(Symbols)
    BY <2>2, SkipIs
  <2> HIDE DEF args
  <2>4. SkipSpaces(After(args, Space)) \in Seq(Symbols)
    BY <2>3, AfterIs, SkipIs
  <2>5. said \in Strings /\ Text(args) \in Strings
    BY <2>3, <2>4, TextType DEF Strings
  <2>6. dest \in Strings
    <3>1. PICK n \in Nat : n = MaxName - 1
      BY Sizes
    <3>2. Before(args, Space) \in Seq(Symbols)
      BY <2>3, BeforeIs
    <3>3. Cut(Before(args, Space), n) \in Seq(Symbols)
      BY <3>1, <3>2, CutIs
    <3> QED
      BY <3>1, <3>3 DEF Dest, Strings
  <2>7. ToProto(piece) =
          CASE Head(line) = "/list" -> Build(<< <<"LIST">> >>)
            [] Head(line) = "/msg" /\ dest # <<>> /\ said # <<>> ->
                 Build(<< <<"MSG">>, dest, said >>)
            [] Head(line) = "/all" /\ Text(args) # <<>> ->
                 Build(<< <<"BROADCAST">>, Text(args) >>)
            [] OTHER -> <<>>
    BY <1>2, Zenon DEF ToProto, args
  <2>8. <<"LIST">> \in Strings /\ <<"MSG">> \in Strings /\ <<"BROADCAST">> \in Strings
    BY WordsAre DEF Words, Strings
  <2> HIDE DEF line, dest, said
  <2>9. /\ Build(<< <<"LIST">> >>) \in Strings
        /\ Build(<< <<"MSG">>, dest, said >>) \in Strings
        /\ Build(<< <<"BROADCAST">>, Text(args) >>) \in Strings
    BY <2>5, <2>6, <2>8, BuildType
  <2> QED
    BY <1>0, <2>7, <2>9, Zenon
<1> QED
  BY <1>1, <1>2

\* Pieces.
LEMMA PiecesType ==
  ASSUME NEW q \in Strings, NEW Whole
  PROVE  Pieces(q, Whole) \in Texts /\ Pieces(<<>>, Whole) = <<>>
<1>1. Ended(Whole, q) \in Texts /\ Begun(Whole, q) \in Strings
  BY CutsAre
<1>2. Pieces(q, Whole) = IF Begun(Whole, q) = <<>> THEN Ended(Whole, q)
                         ELSE Append(Ended(Whole, q), Begun(Whole, q))
  BY PiecesAre
<1>3. \A p \in Texts, o \in Strings : Append(p, o) \in Texts
  BY DEF Texts
<1>4. Pieces(q, Whole) \in Texts
  BY <1>1, <1>2, <1>3, Zenon
<1>5. Ended(Whole, <<>>) = <<>> /\ Begun(Whole, <<>>) = <<>>
  BY CutsAre
<1>6. Pieces(<<>>, Whole) = <<>>
  BY <1>5, PiecesAre
<1> QED
  BY <1>4, <1>6

\* The command that a piece stands for, if it stands for one.
Ordered == [l \in Seq(Symbols) |-> IF ToProto(l) = <<>> THEN <<>> ELSE <<ToProto(l)>>]

\* Commands are those of each piece.
LEMMA OrderedIs ==
  /\ Ordered \in Maps(Strings, Strings)
  /\ \A q : Commands(q) = FlatMap(Strings, Ordered, Pieces(q, Full))
<1>1. \A l \in Strings : Ordered[l] \in Texts
  <2>1. TAKE l \in Strings
  <2>2. PICK c \in Strings : c = ToProto(l)
    BY ToProtoType
  <2>3. Ordered[l] = IF c = <<>> THEN <<>> ELSE <<c>>
    BY <2>2 DEF Ordered, Strings
  <2>4. <<>> \in Texts /\ <<c>> \in Texts
    BY Singles DEF Texts
  <2> QED
    BY <2>3, <2>4
<1>2. Ordered \in [Strings -> Seq(Strings)]
  <2>1. Ordered = [l \in Strings |-> IF ToProto(l) = <<>> THEN <<>> ELSE <<ToProto(l)>>]
    BY Zenon DEF Ordered, Strings
  <2>2. ASSUME NEW l \in Strings
        PROVE  (IF ToProto(l) = <<>> THEN <<>> ELSE <<ToProto(l)>>) \in Texts
    BY <1>1, <2>1
  <2>3. [l \in Strings |-> IF ToProto(l) = <<>> THEN <<>> ELSE <<ToProto(l)>>]
          \in [Strings -> Texts]
    BY <2>2, Zenon
  <2> QED
    BY <2>1, <2>3, Zenon DEF Texts
<1> QED
  BY <1>2, Zenon DEF Maps, Commands, FgetsPieces, Ordered, Full, Strings

\* They are strings, and nothing typed is no command.
LEMMA CommandsAre ==
  ASSUME NEW q \in Strings
  PROVE  Commands(q) \in Texts /\ Commands(<<>>) = <<>>
<1>1. Pieces(q, Full) \in Seq(Strings) /\ Pieces(<<>>, Full) = <<>>
  BY PiecesType DEF Texts
<1>2. FlatMap(Strings, Ordered, Pieces(q, Full)) \in Seq(Strings)
      /\ FlatMap(Strings, Ordered, <<>>) = <<>>
  BY <1>1, OrderedIs, FlatMapAppend
<1> QED
  BY <1>1, <1>2, OrderedIs DEF Texts

\* One call of fgets.
Fgets(piece, rest, line) ==
  /\ piece \in Strings /\ rest \in Strings /\ OnlyLast(rest)
  /\ \/ ToProto(piece) = <<>> /\ Commands(line) = Commands(rest)
     \/ Command(ToProto(piece)) /\ Commands(line) = Cat(<<ToProto(piece)>>, Commands(rest))

\* The first piece of a line gives its command, and the rest gives the others.
LEMMA FgetsIs ==
  ASSUME NEW line \in Strings, Len(line) > 0, OnlyLast(line)
  PROVE  Fgets(FirstPiece(line), SubSeq(line, Len(FirstPiece(line)) + 1, Len(line)), line)
<1>1. PICK piece, rest : /\ piece = FirstPiece(line)
                         /\ rest = SubSeq(line, Len(piece) + 1, Len(line))
  OBVIOUS
<1>2. /\ piece \in Strings /\ OnlyLast(piece) /\ rest \in Strings /\ OnlyLast(rest)
      /\ Pieces(rest, Full) \in Texts
      /\ Pieces(line, Full) = Cat(<<piece>>, Pieces(rest, Full))
  BY <1>1, PiecesOf
<1>3. <<piece>> \in Seq(Strings) /\ Pieces(rest, Full) \in Seq(Strings)
  BY <1>2, Singles DEF Texts
<1>4. FlatMap(Strings, Ordered, Cat(<<piece>>, Pieces(rest, Full))) =
        Cat(FlatMap(Strings, Ordered, <<piece>>),
            FlatMap(Strings, Ordered, Pieces(rest, Full)))
  <2>1. PICK a, b : a = <<piece>> /\ b = Pieces(rest, Full)
    OBVIOUS
  <2>2. a \in Seq(Strings) /\ b \in Seq(Strings)
    BY <1>3, <2>1
  <2>3. FlatMap(Strings, Ordered, Cat(a, b)) =
          Cat(FlatMap(Strings, Ordered, a), FlatMap(Strings, Ordered, b))
    BY <2>2, OrderedIs, FlatMapConcat
  <2> QED
    BY <2>1, <2>3
<1>5. FlatMap(Strings, Ordered, <<piece>>) = Ordered[piece]
  BY <1>2, OrderedIs, FlatMapOne
<1>6. Commands(line) = Cat(Ordered[piece], Commands(rest))
  BY <1>2, <1>4, <1>5, OrderedIs
<1>7. Ordered[piece] = IF ToProto(piece) = <<>> THEN <<>> ELSE <<ToProto(piece)>>
  BY <1>2 DEF Ordered, Strings
<1>8. ToProto(piece) = <<>> \/ Command(ToProto(piece))
  BY <1>2, ToProtoIs DEF Strings
<1>9. Commands(rest) \in Texts
  BY <1>2, CommandsAre
<1>10. CASE ToProto(piece) = <<>>
  <2>1. Commands(line) = Commands(rest)
    BY <1>6, <1>7, <1>9, <1>10, CatEmpty DEF Texts
  <2> QED
    BY <1>1, <1>2, <1>10, <2>1 DEF Fgets
<1>11. CASE ToProto(piece) # <<>>
  <2>1. Commands(line) = Cat(<<ToProto(piece)>>, Commands(rest))
    BY <1>6, <1>7, <1>11
  <2> QED
    BY <1>1, <1>2, <1>8, <1>11, <2>1 DEF Fgets
<1> QED
  BY <1>10, <1>11

\* All commands of some lines.
CommandsOf == [l \in Seq(Symbols) |-> Commands(l)]
AllCommands(q) == FlatMap(Seq(Symbols), CommandsOf, q)

\* One line more.
LEMMA AllCommandsAre ==
  ASSUME NEW q \in Texts
  PROVE  /\ AllCommands(<<>>) = <<>> /\ AllCommands(q) \in Texts
         /\ \A l \in Strings : AllCommands(Append(q, l)) = Cat(AllCommands(q), Commands(l))
<1>1. \A l \in Strings : CommandsOf[l] = Commands(l) /\ Commands(l) \in Texts
  BY CommandsAre DEF CommandsOf, Strings
<1>2. CommandsOf \in Maps(Strings, Strings)
  <2>1. CommandsOf = [l \in Strings |-> Commands(l)]
    BY Zenon DEF CommandsOf, Strings
  <2> QED
    BY <1>1, <2>1 DEF Maps, Texts
<1>3. /\ FlatMap(Strings, CommandsOf, <<>>) = <<>>
      /\ FlatMap(Strings, CommandsOf, q) \in Seq(Strings)
      /\ \A l \in Strings : FlatMap(Strings, CommandsOf, Append(q, l)) =
                              Cat(FlatMap(Strings, CommandsOf, q), CommandsOf[l])
  BY <1>2, FlatMapAppend DEF Texts
<1> QED
  BY <1>1, <1>3, Zenon DEF AllCommands, Strings, Texts

\* All frames of some lines.
LinesOf == [l \in Seq(Symbols) |-> Lines(l)]

\* One line more.
LEMMA AllLinesAre ==
  ASSUME NEW q \in Texts
  PROVE  /\ AllLines(<<>>) = <<>> /\ AllLines(q) \in Texts
         /\ \A l \in Strings : AllLines(Append(q, l)) = Cat(AllLines(q), Lines(l))
<1>1. \A l \in Strings : LinesOf[l] = Lines(l) /\ Lines(l) \in Texts
  BY PiecesType DEF LinesOf, Lines, Strings
<1>2. LinesOf \in Maps(Strings, Strings)
  <2>1. LinesOf = [l \in Strings |-> Lines(l)]
    BY Zenon DEF LinesOf, Strings
  <2> QED
    BY <1>1, <2>1 DEF Maps, Texts
<1>3. /\ FlatMap(Strings, LinesOf, <<>>) = <<>>
      /\ FlatMap(Strings, LinesOf, q) \in Seq(Strings)
      /\ \A l \in Strings : FlatMap(Strings, LinesOf, Append(q, l)) =
                              Cat(FlatMap(Strings, LinesOf, q), LinesOf[l])
  BY <1>2, FlatMapAppend DEF Texts
<1> QED
  BY <1>1, <1>3, Zenon DEF AllLines, LinesOf, Strings, Texts

-----------------------------------------------------------------------------
(* Lines without a keyword that nobody types.                              *)

\* K is the keyword of a list or of an error, and nobody types it.
Untyped(K) == K \in {"LIST_OK", "ERROR"} /\ K \notin Alphabet

\* What lines without it are made of.
Plain(K) == Symbols \ {K}

\* The symbols that are typed, the marks and the other keywords.
LEMMA PlainIs ==
  ASSUME NEW K, Untyped(K)
  PROVE  /\ Plain(K) \subseteq Symbols /\ Seq(Plain(K)) \subseteq Strings /\ K \notin Plain(K)
         /\ Alphabet \subseteq Plain(K) /\ {Bar, Semicolon, NL} \subseteq Plain(K)
         /\ \A w \in Words : w # K => w \in Plain(K)
<1>1. Plain(K) \subseteq Symbols /\ K \notin Plain(K)
  BY Zenon DEF Plain
<1>2. Seq(Plain(K)) \subseteq Strings
  BY <1>1, SeqMonotonic DEF Strings
<1>3. Alphabet \subseteq Plain(K)
  BY SymbolsAre DEF Untyped, Plain
<1>4. Bar # K /\ Semicolon # K /\ NL # K
  BY DEF Untyped, Bar, Semicolon, NL
<1>5. {Bar, Semicolon, NL} \subseteq Plain(K)
  BY <1>4, SymbolsAre DEF Plain
<1>6. Words \subseteq Symbols
  BY Zenon DEF Words, Symbols
<1>7. \A w \in Words : w # K => w \in Plain(K)
  BY <1>6, Zenon DEF Plain
<1> QED
  BY <1>1, <1>2, <1>3, <1>5, <1>7

\* What is cut off a text.
LEMMA TextKeeps ==
  ASSUME NEW S, NEW s \in Seq(S)
  PROVE  Text(s) \in Seq(S) /\ TrimNewline(s) \in Seq(S)
<1>1. \A x \in Seq(S) : TrimNewline(x) \in Seq(S)
  <2>1. TAKE x \in Seq(S)
  <2>2. CASE x # <<>> /\ x[Len(x)] = NL
    <3>1. PICK k : k = Len(x) - 1
      OBVIOUS
    <3>2. k \in Nat /\ k <= Len(x)
      BY <2>2, <3>1
    <3>3. SubSeq(x, 1, k) \in Seq(S)
      BY <3>2, Split
    <3> QED
      BY <2>2, <3>1, <3>3 DEF TrimNewline
  <2>3. CASE ~(x # <<>> /\ x[Len(x)] = NL)
    BY <2>3 DEF TrimNewline
  <2> QED
    BY <2>2, <2>3
<1>2. PICK n \in Nat : n = MaxChat - 1
  BY Sizes
<1>3. Cut(s, n) \in Seq(S)
  BY CutIs
<1> QED
  BY <1>1, <1>2, <1>3 DEF Text

\* Lines built of plain strings.
LEMMA BuildPlain ==
  ASSUME NEW K, Untyped(K), NEW a \in Seq(Plain(K)), NEW b \in Seq(Plain(K)), NEW c \in Seq(Plain(K))
  PROVE  Build(<<a>>) \in Seq(Plain(K)) /\ Build(<<a, b>>) \in Seq(Plain(K))
         /\ Build(<<a, b, c>>) \in Seq(Plain(K))
<1>1. PICK n \in Nat : n = MaxMsg - 1
  BY Sizes
<1>2. ASSUME NEW x \in Seq(Plain(K)) PROVE Cut(Append(x, NL), n) \in Seq(Plain(K))
  <2>1. Append(x, NL) \in Seq(Plain(K))
    BY PlainIs
  <2> QED
    BY <2>1, CutIs
<1>3. a \in Seq(Symbols) /\ b \in Seq(Symbols) /\ c \in Seq(Symbols)
  BY PlainIs DEF Strings
<1>4. \A x, y \in Seq(Plain(K)) : Glue(x, Bar, y) \in Seq(Plain(K))
  BY PlainIs DEF Glue
<1> QED
  BY <1>1, <1>2, <1>3, <1>4, BuildIs

\* Commands of plain pieces.
LEMMA ToProtoPlain ==
  ASSUME NEW K, Untyped(K), NEW piece \in Seq(Plain(K))
  PROVE  ToProto(piece) \in Seq(Plain(K))
<1> DEFINE line == SkipSpaces(piece)
<1> DEFINE args == SkipSpaces(Tail(line))
<1> DEFINE dest == Dest(Before(args, Space))
<1> DEFINE said == Text(SkipSpaces(After(args, Space)))
<1>0. <<>> \in Seq(Plain(K))
  OBVIOUS
<1>1. CASE line = <<>>
  BY <1>0, <1>1 DEF ToProto
<1>2. CASE line # <<>>
  <2>1. line \in Seq(Plain(K))
    BY SkipIs
  <2>2. Tail(line) \in Seq(Plain(K))
    BY <1>2, <2>1, HeadTailProperties
  <2>3. args \in Seq(Plain(K))
    BY <2>2, SkipIs
  <2> HIDE DEF args
  <2>4. SkipSpaces(After(args, Space)) \in Seq(Plain(K))
    BY <2>3, AfterIs, SkipIs
  <2>5. said \in Seq(Plain(K)) /\ Text(args) \in Seq(Plain(K))
    BY <2>3, <2>4, TextKeeps
  <2>6. dest \in Seq(Plain(K))
    <3>1. PICK n \in Nat : n = MaxName - 1
      BY Sizes
    <3>2. Before(args, Space) \in Seq(Plain(K))
      BY <2>3, BeforeIs
    <3>3. Cut(Before(args, Space), n) \in Seq(Plain(K))
      BY <3>2, CutIs
    <3> QED
      BY <3>1, <3>3 DEF Dest
  <2>7. ToProto(piece) =
          CASE Head(line) = "/list" -> Build(<< <<"LIST">> >>)
            [] Head(line) = "/msg" /\ dest # <<>> /\ said # <<>> ->
                 Build(<< <<"MSG">>, dest, said >>)
            [] Head(line) = "/all" /\ Text(args) # <<>> ->
                 Build(<< <<"BROADCAST">>, Text(args) >>)
            [] OTHER -> <<>>
    BY <1>2, Zenon DEF ToProto, args
  <2>8. <<"LIST">> \in Seq(Plain(K)) /\ <<"MSG">> \in Seq(Plain(K)) /\ <<"BROADCAST">> \in Seq(Plain(K))
    BY PlainIs, Singles DEF Words, Untyped
  <2> HIDE DEF line, dest, said
  <2>9. /\ Build(<< <<"LIST">> >>) \in Seq(Plain(K))
        /\ Build(<< <<"MSG">>, dest, said >>) \in Seq(Plain(K))
        /\ Build(<< <<"BROADCAST">>, Text(args) >>) \in Seq(Plain(K))
    BY <2>5, <2>6, <2>8, BuildPlain
  <2> QED
    BY <1>0, <2>7, <2>9, Zenon
<1> QED
  BY <1>1, <1>2

\* The pieces of a string over S.
LEMMA PiecesKeep ==
  ASSUME NEW S, S \subseteq Symbols, NEW q \in Seq(S), NEW Whole
  PROVE  Pieces(q, Whole) \in Seq(Seq(S))
<1> DEFINE C == [pieces : Seq(Seq(S)), open : Seq(S)]
<1> DEFINE step == CutAfter(Whole)
<1>1. NoCuts \in C
  BY DEF NoCuts
<1>2. Seq(S) \subseteq Seq(Symbols)
  BY SeqMonotonic
<1>3. Seq(Seq(S)) \subseteq Seq(Seq(Symbols))
  BY <1>2, SeqMonotonic
<1>4. C \subseteq Cuts
  BY <1>2, <1>3 DEF Cuts
<1>5. \A s \in C, m \in S : step[<<s, m>>] \in C
  <2> TAKE s \in C, m \in S
  <2> DEFINE longer == Append(s.open, m)
  <2>0. s \in Cuts /\ m \in Symbols
    BY <1>4
  <2>1. step[<<s, m>>] = IF longer \in Whole
                         THEN [pieces |-> Append(s.pieces, longer), open |-> <<>>]
                         ELSE [s EXCEPT !.open = longer]
    BY <2>0 DEF CutAfter
  <2>2. s.pieces \in Seq(Seq(S)) /\ longer \in Seq(S)
    OBVIOUS
  <2>3. Append(s.pieces, longer) \in Seq(Seq(S)) /\ <<>> \in Seq(S)
    BY <2>2
  <2> HIDE DEF longer
  <2>4. [s EXCEPT !.open = longer] \in C
    BY <2>2
  <2> QED
    BY <2>1, <2>3, <2>4
<1> HIDE DEF step
<1>6. Fold(step, NoCuts, q) \in C
  <2> HIDE DEF C
  <2> QED
    BY <1>1, <1>5, FoldType
<1>7. Ended(Whole, q) \in Seq(Seq(S)) /\ Begun(Whole, q) \in Seq(S)
  BY <1>6 DEF Ended, Begun, step
<1>8. \A p \in Seq(Seq(S)), o \in Seq(S) : Append(p, o) \in Seq(Seq(S))
  OBVIOUS
<1> QED
  BY <1>7, <1>8, PiecesAre, Zenon

\* FlatMap gives elements of F when g does of each element.
LEMMA FlatMapKeeps ==
  ASSUME NEW S, NEW D, NEW g \in Maps(D, S), NEW E, E \subseteq D, NEW F, F \subseteq S,
         \A d \in E : g[d] \in Seq(F), NEW q \in Seq(E)
  PROVE  FlatMap(S, g, q) \in Seq(F)
<1> DEFINE step == [p \in Seq(S) \X DOMAIN g |-> p[1] \o g[p[2]]]
<1>1. Seq(F) \subseteq Seq(S)
  BY SeqMonotonic
<1>2. \A s \in Seq(F), t \in E : s \in Seq(S) /\ t \in DOMAIN g
  BY <1>1 DEF Maps
<1>3. \A s \in Seq(F), t \in E : step[<<s, t>>] = s \o g[t]
  BY <1>2
<1>4. \A s \in Seq(F), t \in E : s \o g[t] \in Seq(F)
  OBVIOUS
<1>5. \A s \in Seq(F), t \in E : step[<<s, t>>] \in Seq(F)
  BY <1>3, <1>4
<1>6. PICK R, b : R = Seq(F) /\ b = <<>>
  OBVIOUS
<1>7. FlatMap(S, g, q) = Fold(step, b, q)
  BY <1>6 DEF FlatMap
<1>8. b \in R
  BY <1>6
<1> HIDE DEF step
<1>9. Fold(step, b, q) \in R
  BY <1>5, <1>6, <1>8, FoldType
<1> QED
  BY <1>6, <1>7, <1>9

\* The commands of plain lines.
LEMMA MeantPlain ==
  ASSUME NEW K, Untyped(K), NEW q \in Seq(Seq(Plain(K)))
  PROVE  AllCommands(q) \in Seq(Seq(Plain(K)))
<1>1. Seq(Plain(K)) \subseteq Strings /\ Plain(K) \subseteq Symbols
  BY PlainIs
<1>2. ASSUME NEW l \in Seq(Plain(K)) PROVE Commands(l) \in Seq(Seq(Plain(K)))
  <2>1. Pieces(l, Full) \in Seq(Seq(Plain(K)))
    BY <1>1, PiecesKeep
  <2>2. ASSUME NEW d \in Seq(Plain(K)) PROVE Ordered[d] \in Seq(Seq(Plain(K)))
    <3>1. PICK c \in Seq(Plain(K)) : c = ToProto(d)
      BY ToProtoPlain
    <3>2. d \in Seq(Symbols)
      BY <1>1 DEF Strings
    <3>3. Ordered[d] = IF c = <<>> THEN <<>> ELSE <<c>>
      BY <3>1, <3>2 DEF Ordered
    <3> QED
      BY <3>3, Singles
  <2>3. FlatMap(Strings, Ordered, Pieces(l, Full)) \in Seq(Seq(Plain(K)))
    BY <1>1, <2>1, <2>2, OrderedIs, FlatMapKeeps
  <2> QED
    BY <2>3, OrderedIs
<1>3. \A l \in Strings : CommandsOf[l] = Commands(l) /\ Commands(l) \in Texts
  BY CommandsAre DEF CommandsOf, Strings
<1>4. CommandsOf \in Maps(Strings, Strings)
  <2>1. CommandsOf = [l \in Strings |-> Commands(l)]
    BY Zenon DEF CommandsOf, Strings
  <2> QED
    BY <1>3, <2>1 DEF Maps, Texts
<1>5. \A l \in Seq(Plain(K)) : CommandsOf[l] \in Seq(Seq(Plain(K)))
  BY <1>1, <1>2, <1>3
<1>6. FlatMap(Strings, CommandsOf, q) \in Seq(Seq(Plain(K)))
  BY <1>1, <1>4, <1>5, FlatMapKeeps
<1> QED
  BY <1>6 DEF AllCommands, Strings

\* A symbol of a line goes into a field or is dropped, but a new line may go there.
LEMMA ScanKeeps ==
  ASSUME NEW S, S \subseteq Symbols, NL \in S, NEW st \in Scans,
         st.fields \in [1 .. 3 -> Seq(S)], NEW ch \in S
  PROVE  Scan(st, ch) \in Scans /\ Scan(st, ch).fields \in [1 .. 3 -> Seq(S)]
<1> DEFINE tt == Scan(st, ch)
<1>1. tt \in Scans
  BY ScanIs
<1>2. tt.fields = st.fields \/ (~st.stopped /\ \E d \in S : tt = Put(st, d))
  <2>1. CASE st.stopped
    BY <2>1, Zenon DEF Scan
  <2>2. CASE ~st.stopped /\ st.escaped
    BY <2>2, Zenon DEF Scan
  <2>3. CASE ~st.stopped /\ ~st.escaped
    <3>1. tt = CASE ch = NL -> [st EXCEPT !.stopped = TRUE]
                 [] ch = Backslash -> [st EXCEPT !.escaped = TRUE]
                 [] ch = Bar -> [st EXCEPT !.at = @ + 1, !.stopped = st.at = 3]
                 [] OTHER -> IF Len(st.fields[st.at]) < MaxMsg - 1
                             THEN Put(st, ch) ELSE st
      BY <2>3, Zenon DEF Scan
    <3>2. /\ [st EXCEPT !.stopped = TRUE].fields = st.fields
          /\ [st EXCEPT !.escaped = TRUE].fields = st.fields
          /\ [st EXCEPT !.at = @ + 1, !.stopped = st.at = 3].fields = st.fields
      BY DEF Scans, Turns
    <3> HIDE DEF tt
    <3>3. PICK a, b, d, e :
            /\ a = [st EXCEPT !.stopped = TRUE] /\ b = [st EXCEPT !.escaped = TRUE]
            /\ d = [st EXCEPT !.at = @ + 1, !.stopped = st.at = 3] /\ e = Put(st, ch)
      BY Zenon
    <3>4. tt = CASE ch = NL -> a
                 [] ch = Backslash -> b
                 [] ch = Bar -> d
                 [] OTHER -> IF Len(st.fields[st.at]) < MaxMsg - 1 THEN e ELSE st
      BY <3>1, <3>3, Zenon
    <3>5. tt \in {a, b, d, e, st}
      BY <3>4
    <3> QED
      BY <2>3, <3>2, <3>3, <3>5
  <2> QED
    BY <2>1, <2>2, <2>3
<1>3. ASSUME NEW d \in S, ~st.stopped PROVE Put(st, d).fields \in [1 .. 3 -> Seq(S)]
  <2>1. st.at \in 1 .. 3
    BY <1>3 DEF Scans, Turns
  <2>2. Put(st, d).fields = [st.fields EXCEPT ![st.at] = Append(@, d)]
    BY DEF Put, Scans, Turns
  <2>3. Append(st.fields[st.at], d) \in Seq(S)
    BY <2>1
  <2> QED
    BY <2>1, <2>2, <2>3
<1> HIDE DEF tt
<1> QED
  BY <1>1, <1>2, <1>3 DEF tt

\* What the server makes of a plain line.
LEMMA ParsedPlain ==
  ASSUME NEW K, Untyped(K), NEW c \in Seq(Plain(K))
  PROVE  LET msg == ParseMessage(c)
         IN  msg.type \in Seq(Plain(K)) /\ msg.arg1 \in Seq(Plain(K)) /\ msg.arg2 \in Seq(Plain(K))
<1> DEFINE R == {st \in Scans : st.fields \in [1 .. 3 -> Seq(Plain(K))]}
<1>1. Start \in R
  <2>1. Start \in Scans
    BY ScanStart DEF Turned
  <2>2. PICK e : e = <<>>
    OBVIOUS
  <2>3. e \in Seq(Plain(K)) /\ Start.fields = <<e, e, e>>
    BY <2>2 DEF Start
  <2>4. <<e, e, e>> \in [1 .. 3 -> Seq(Plain(K))]
    BY <2>3
  <2> QED
    BY <2>1, <2>3, <2>4
<1>2. \A s \in R, m \in Plain(K) : Scanning[<<s, m>>] \in R
  <2> TAKE s \in R, m \in Plain(K)
  <2>1. s \in Turns /\ m \in Symbols
    BY PlainIs DEF Scans
  <2>2. Scanning[<<s, m>>] = Scan(s, m)
    BY <2>1 DEF Scanning
  <2>3. Scan(s, m) \in R
    BY PlainIs, ScanKeeps
  <2> QED
    BY <2>2, <2>3
<1> HIDE DEF R
<1>3. Scanned(c) \in R
  BY <1>1, <1>2, FoldType DEF Scanned
<1>4. PICK f : f = Scanned(c).fields
  OBVIOUS
<1>5. f[1] \in Seq(Plain(K)) /\ f[2] \in Seq(Plain(K)) /\ f[3] \in Seq(Plain(K))
  BY <1>3, <1>4 DEF R
<1>6. ParseMessage(c) = [type |-> f[1], arg1 |-> f[2], arg2 |-> f[3]]
  BY <1>4, Zenon DEF ParseMessage, Scanned, Scanning
<1> QED
  BY <1>5, <1>6

\* The list of names as the server sends it, and what it can send else.
TheList == Build(<< <<"LIST_OK">>, ListUsernames >>)
Good    == Seq(Plain("LIST_OK")) \cup {TheList}

\* Names are plain.
LEMMA NamePlain ==
  ASSUME NEW K, Untyped(K), NEW u \in Online
  PROVE  u \in Seq(Plain(K))
<1>1. PICK i \in DOMAIN Seats : u = Seats[i]
  BY DEF Online
<1>2. u \in Seq(Alphabet \ {Bar, Semicolon, Space, Backslash})
  BY <1>1, SeatsAssumption DEF AreNames
<1>3. Alphabet \ {Bar, Semicolon, Space, Backslash} \subseteq Plain(K)
  BY PlainIs
<1> QED
  BY <1>2, <1>3, SeqMonotonic

\* A command that the server does what it says for.
Served(c) ==
  LET msg == ParseMessage(c)
  IN  msg.type \in {<<"LIST">>, <<"BROADCAST">>}
      \/ (msg.type = <<"MSG">> /\ msg.arg1 \in Online)

\* A line of L to be sent.
Tells(L) == [to : Strings, line : L, begun : BOOLEAN]

\* The handlers send the list or what is plain, an error only if they must.
LEMMA HandleTells ==
  ASSUME NEW K, Untyped(K), NEW u \in Online, NEW c \in Seq(Plain(K)),
         NEW L, Seq(Plain(K)) \subseteq L, TheList \in L, K = "ERROR" => Served(c)
  PROVE  Handle(u, c) \in Seq(Tells(L))
<1>1. PICK msg : msg = ParseMessage(c)
  OBVIOUS
<1>2. msg.arg1 \in Seq(Plain(K)) /\ msg.arg2 \in Seq(Plain(K)) /\ u \in Seq(Plain(K))
  BY <1>1, ParsedPlain, NamePlain
<1>3. \A w \in {"MSG_OK", "DELIVER", "BROADCAST_OK", "BROADCAST_FROM",
                "PROTO", "MSG", "NOT_IMPLEMENTED", "USER_NOT_FOUND"} : <<w>> \in Seq(Plain(K))
  <2>1. \A w \in {"MSG_OK", "DELIVER", "BROADCAST_OK", "BROADCAST_FROM",
                "PROTO", "MSG", "NOT_IMPLEMENTED", "USER_NOT_FOUND"} :
          w \in Words /\ w # K
    BY DEF Words, Untyped
  <2> QED
    BY <2>1, PlainIs, Singles
<1>4. PICK S : S = Tells(L)
  OBVIOUS
<1>5. \A v \in Seq(Plain(K)), l \in L : To(v, l) \in S
  BY <1>4, PlainIs DEF To, Tells
<1>6. TheList \in L /\ Seq(Plain(K)) \subseteq L
  OBVIOUS
<1>7. \A a, b, d \in Seq(Plain(K)) :
        Build(<<a>>) \in L /\ Build(<<a, b>>) \in L /\ Build(<<a, b, d>>) \in L
  BY <1>6, BuildPlain
<1> DEFINE list == << To(u, Build(<< <<"LIST_OK">>, ListUsernames >>)) >>
           told == << To(msg.arg1, Build(<< <<"DELIVER">>, u, msg.arg2 >>)),
                      To(u, Build(<< <<"MSG_OK">>, msg.arg1 >>)) >>
           lost == << To(u, Build(<< <<"ERROR">>, <<"MSG">>, <<"USER_NOT_FOUND">> >>)) >>
           all  == Append([i \in DOMAIN Seats |->
                             To(Seats[i], Build(<< <<"BROADCAST_FROM">>, u, msg.arg2 >>))],
                          To(u, Build(<< <<"BROADCAST_OK">> >>)))
           bad  == << To(u, Build(<< <<"ERROR">>, <<"PROTO">>, <<"NOT_IMPLEMENTED">> >>)) >>
<1>8. Handle(u, c) = CASE msg.type = <<"LIST">> -> list
                       [] msg.type = <<"MSG">> /\ msg.arg1 \in Online -> told
                       [] msg.type = <<"MSG">> /\ msg.arg1 \notin Online -> lost
                       [] msg.type = <<"BROADCAST">> -> all
                       [] OTHER -> bad
  BY <1>1, Zenon DEF Handle
<1>9. list \in Seq(S)
  <2>1. To(u, TheList) \in S
    BY <1>2, <1>5, <1>6
  <2> QED
    BY <2>1, Singles DEF TheList
<1>10. told \in Seq(S)
  <2>1. PICK a, b : /\ a = To(msg.arg1, Build(<< <<"DELIVER">>, u, msg.arg2 >>))
                    /\ b = To(u, Build(<< <<"MSG_OK">>, msg.arg1 >>))
    OBVIOUS
  <2>2. a \in S /\ b \in S
    BY <1>2, <1>3, <1>5, <1>7, <2>1
  <2>3. <<a, b>> \in Seq(S)
    BY <2>2
  <2> QED
    BY <2>1, <2>3
<1>11. ASSUME K # "ERROR" PROVE lost \in Seq(S) /\ bad \in Seq(S)
  <2>0. <<"ERROR">> \in Seq(Plain(K))
    BY <1>11, PlainIs, Singles DEF Words
  <2>1. /\ To(u, Build(<< <<"ERROR">>, <<"MSG">>, <<"USER_NOT_FOUND">> >>)) \in S
        /\ To(u, Build(<< <<"ERROR">>, <<"PROTO">>, <<"NOT_IMPLEMENTED">> >>)) \in S
    BY <1>2, <1>3, <1>5, <1>7, <2>0
  <2> QED
    BY <2>1, Singles
<1>12. all \in Seq(S)
  <2>1. PICK l, b : /\ l = Build(<< <<"BROADCAST_FROM">>, u, msg.arg2 >>)
                    /\ b = To(u, Build(<< <<"BROADCAST_OK">> >>))
    OBVIOUS
  <2>2. l \in L /\ b \in S
    BY <1>2, <1>3, <1>5, <1>7, <2>1
  <2>3. \A i \in DOMAIN Seats : To(Seats[i], l) \in S
    <3>1. \A i \in DOMAIN Seats : Seats[i] \in Seq(Plain(K))
      BY NamePlain DEF Online
    <3> QED
      BY <1>5, <2>2, <3>1
  <2>4. [i \in DOMAIN Seats |-> To(Seats[i], l)] \in Seq(S)
    <3>1. PICK n \in Nat : DOMAIN Seats = 1 .. n
      BY SeatsAssumption DEF AreNames
    <3> QED
      BY <2>3, <3>1
  <2>5. Append([i \in DOMAIN Seats |-> To(Seats[i], l)], b) \in Seq(S)
    BY <2>2, <2>4
  <2> QED
    BY <2>1, <2>5
<1>13. K = "ERROR" => \/ msg.type = <<"LIST">> \/ msg.type = <<"BROADCAST">>
                      \/ msg.type = <<"MSG">> /\ msg.arg1 \in Online
  BY <1>1, Zenon DEF Served
<1> HIDE DEF list, told, lost, all, bad
<1>14. CASE K # "ERROR"
  BY <1>4, <1>8, <1>9, <1>10, <1>11, <1>12, <1>14, Zenon
<1>15. CASE K = "ERROR"
  <2>1. <<"LIST">> # <<"MSG">> /\ <<"LIST">> # <<"BROADCAST">> /\ <<"MSG">> # <<"BROADCAST">>
    OBVIOUS
  <2>2. Handle(u, c) \in {list, told, all}
    BY <1>8, <1>13, <1>15, <2>1, Zenon
  <2> QED
    BY <1>4, <1>9, <1>10, <1>12, <2>2, Zenon
<1> QED
  BY <1>14, <1>15

\* Those of a handler's lines that the model follows.
LEMMA ModelledTells ==
  ASSUME NEW P, NEW q \in Seq(P), q \in Seq(Fresh(Online))
  PROVE  Modelled[q] \in Seq(P)
<1> DEFINE D == {i \in DOMAIN q : q[i].to \in Users}
<1>1. \A n \in DOMAIN q \cap D : q[n] \in P
  OBVIOUS
<1>2. Picked(q, D) \in Seq(P)
  BY <1>1, PickedType
<1>3. Fresh(Online) \subseteq [to : Online, line : Seq(Symbols), begun : BOOLEAN]
  BY DEF Fresh, Strings
<1>4. q \in Seq([to : Online, line : Seq(Symbols), begun : BOOLEAN])
  BY <1>3, SeqMonotonic
<1> QED
  BY <1>2, <1>4 DEF Modelled

\* What is done for an unserved command, an error for its sender only.
LEMMA HandleError ==
  ASSUME NEW u, NEW c, ~Served(c)
  PROVE  \E l : Handle(u, c) = << To(u, l) >>
<1>1. PICK msg : msg = ParseMessage(c)
  OBVIOUS
<1>2. msg.type # <<"LIST">> /\ msg.type # <<"BROADCAST">>
      /\ (msg.type = <<"MSG">> => msg.arg1 \notin Online)
  BY <1>1, Zenon DEF Served
<1> QED
  BY <1>1, <1>2, Zenon DEF Handle

\* The monitor's notice.
LEMMA NoticeTells ==
  ASSUME NEW K, Untyped(K), NEW u \in Users, NEW L, Seq(Plain(K)) \subseteq L
  PROVE  << To(u, Build(<< <<"STATUS_CHANGED">>, u, <<"INACTIVO">> >>)) >> \in Seq(Tells(L))
<1>1. \A w \in {"STATUS_CHANGED", "INACTIVO"} : w \in Words /\ w # K
  BY DEF Words, Untyped
<1>2. <<"STATUS_CHANGED">> \in Seq(Plain(K)) /\ <<"INACTIVO">> \in Seq(Plain(K))
  BY <1>1, PlainIs, Singles
<1>3. u \in Seq(Plain(K)) /\ u \in Strings
  BY NamePlain, NameIs, UsersAssumption
<1>4. Build(<< <<"STATUS_CHANGED">>, u, <<"INACTIVO">> >>) \in L
  BY <1>2, <1>3, BuildPlain
<1>5. To(u, Build(<< <<"STATUS_CHANGED">>, u, <<"INACTIVO">> >>)) \in Tells(L)
  BY <1>3, <1>4 DEF To, Tells
<1> QED
  BY <1>5, Singles

-----------------------------------------------------------------------------
(* strtok over a line.                                                     *)

\* strtok over a line: the names found so far, and the one begun.
NoToken == [names |-> <<>>, open |-> <<>>]
TokenStates == [names : Seq(Seq(Symbols)), open : Seq(Symbols)]
Token(acc, ch) ==
  IF ch # Semicolon THEN [acc EXCEPT !.open = Append(@, ch)]
  ELSE IF acc.open = <<>> THEN acc
  ELSE [names |-> Append(acc.names, acc.open), open |-> <<>>]
Tokenizing == [p \in TokenStates \X Symbols |-> Token(p[1], p[2])]
Tokens(q)  == Fold(Tokenizing, NoToken, q)

\* ui.c's strtok over the text after the keyword finds the tokens up to its end.
LEMMA NamesAre == \A piece : Names(piece) = Tokens(Append(Rest(piece), Semicolon)).names
BY Zenon DEF Names, Tokens, Tokenizing, Token, TokenStates, NoToken

\* Nothing is found in nothing, and each symbol gives one token more or makes it longer.
LEMMA TokensAre ==
  ASSUME NEW q \in Strings
  PROVE  /\ Tokens(<<>>) = NoToken /\ Tokens(q) \in TokenStates
         /\ \A m \in Symbols : Tokens(Append(q, m)) = Token(Tokens(q), m)
<1>1. ASSUME NEW s \in TokenStates, NEW m \in Symbols
      PROVE  Token(s, m) \in TokenStates
  <2>1. /\ s.names \in Seq(Seq(Symbols)) /\ s.open \in Seq(Symbols)
        /\ Append(s.open, m) \in Seq(Symbols)
    BY DEF TokenStates
  <2>2. Append(s.names, s.open) \in Seq(Seq(Symbols)) /\ <<>> \in Seq(Symbols)
    BY <2>1
  <2>3. [s EXCEPT !.open = Append(@, m)] \in TokenStates
    BY <2>1 DEF TokenStates
  <2>4. [names |-> Append(s.names, s.open), open |-> <<>>] \in TokenStates
    BY <2>2 DEF TokenStates
  <2> QED
    BY <2>3, <2>4 DEF Token
<1>2. \A s \in TokenStates, m \in Symbols : Tokenizing[<<s, m>>] = Token(s, m)
  BY DEF Tokenizing
<1>3. \A s \in TokenStates, m \in Symbols : Tokenizing[<<s, m>>] \in TokenStates
  BY <1>1, <1>2
<1>4. NoToken \in TokenStates
  BY DEF NoToken, TokenStates
<1>5. q \in Seq(Symbols)
  BY DEF Strings
<1>6. Tokens(q) \in TokenStates
  BY <1>3, <1>4, <1>5, FoldType DEF Tokens
<1>7. \A m \in Symbols : Tokens(Append(q, m)) = Tokenizing[<<Tokens(q), m>>]
  BY <1>3, <1>4, <1>5, FoldAppend DEF Tokens
<1>8. Tokens(<<>>) = NoToken
  BY FoldEmpty DEF Tokens
<1> QED
  BY <1>2, <1>6, <1>7, <1>8

\* The names ns and the open one.
Found(q, ns, o) == Tokens(q).names = ns /\ Tokens(q).open = o

\* A separator ends a name that has been begun.
LEMMA FoundEnd ==
  ASSUME NEW x \in Strings, NEW ns, NEW o, Found(x, ns, o)
  PROVE  /\ o # <<>> => Found(Append(x, Semicolon), Append(ns, o), <<>>)
         /\ o = <<>> => Found(Append(x, Semicolon), ns, <<>>)
<1>1. Tokens(Append(x, Semicolon)) = Token(Tokens(x), Semicolon)
  BY TokensAre, SymbolsAre
<1> QED
  BY <1>1 DEF Found, Token

\* Anything else makes it longer.
LEMMA FoundMore ==
  ASSUME NEW x \in Strings, NEW ns, Found(x, ns, <<>>), NEW s \in Seq(Symbols \ {Semicolon})
  PROVE  Found(Cat(x, s), ns, s)
<1> DEFINE T == {y \in Seq(Symbols \ {Semicolon}) : Found(Cat(x, y), ns, y)}
<1>1. <<>> \in T
  <2>1. Cat(x, <<>>) = x
    BY CatEmpty DEF Strings
  <2> QED
    BY <2>1
<1>2. ASSUME NEW y \in Seq(Symbols \ {Semicolon}), NEW m \in Symbols \ {Semicolon}, y \in T
      PROVE  Append(y, m) \in T
  <2>0. Symbols \ {Semicolon} \subseteq Symbols
    OBVIOUS
  <2>1. y \in Seq(Symbols)
    BY <2>0, SeqMonotonic
  <2>2. Cat(x, Append(y, m)) = Append(Cat(x, y), m) /\ Cat(x, y) \in Strings
    BY <2>1, CatAppend, CatIs DEF Strings
  <2>3. Tokens(Append(Cat(x, y), m)) = Token(Tokens(Cat(x, y)), m)
    BY <2>2, TokensAre
  <2>4. Token(Tokens(Cat(x, y)), m) = [Tokens(Cat(x, y)) EXCEPT !.open = Append(@, m)]
    BY DEF Token
  <2>5. Tokens(Cat(x, y)) \in TokenStates
    BY <2>2, TokensAre
  <2>6. Found(Append(Cat(x, y), m), ns, Append(y, m))
    BY <1>2, <2>3, <2>4, <2>5 DEF Found, TokenStates
  <2>7. Append(y, m) \in Seq(Symbols \ {Semicolon})
    OBVIOUS
  <2> QED
    BY <2>2, <2>6, <2>7
<1> HIDE DEF T
<1>3. Seq(Symbols \ {Semicolon}) \subseteq T
  BY <1>1, <1>2, SeqSetInduction
<1> QED
  BY <1>3 DEF T

\* The start of two sequences.
LEMMA CatStart ==
  ASSUME NEW S, NEW a \in Seq(S), NEW b \in Seq(S), NEW n \in Nat, n <= Len(a) + Len(b)
  PROVE  /\ n <= Len(a) => SubSeq(Cat(a, b), 1, n) = SubSeq(a, 1, n)
         /\ n >= Len(a) => SubSeq(Cat(a, b), 1, n) = Cat(a, SubSeq(b, 1, n - Len(a)))
<1>1. PICK c, x : c = Cat(a, b) /\ x = SubSeq(c, 1, n)
  OBVIOUS
<1>2. c \in Seq(S) /\ Joins(c, a, b)
  BY <1>1, CatIs
<1>3. x \in Seq(S) /\ Len(x) = n /\ \A i \in 1 .. n : x[i] = c[i]
  BY <1>1, <1>2, Split DEF Joins
<1>4. ASSUME n <= Len(a) PROVE x = SubSeq(a, 1, n)
  <2>1. PICK y : y = SubSeq(a, 1, n)
    OBVIOUS
  <2>2. y \in Seq(S) /\ Len(y) = n /\ \A i \in 1 .. n : y[i] = a[i]
    BY <1>4, <2>1, Split
  <2>3. ASSUME NEW i \in 1 .. n PROVE x[i] = y[i]
    <3>1. i \in 1 .. Len(a)
      BY <1>2, <1>4 DEF Joins
    <3> QED
      BY <1>2, <1>3, <2>2, <3>1 DEF Joins
  <2> QED
    BY <1>3, <2>1, <2>2, <2>3, SeqEqual
<1>5. ASSUME n >= Len(a) PROVE x = Cat(a, SubSeq(b, 1, n - Len(a)))
  <2>1. PICK k : k = n - Len(a)
    OBVIOUS
  <2>2. k \in Nat /\ k <= Len(b) /\ Len(a) \in Nat /\ n = Len(a) + k
    BY <1>2, <1>5, <2>1 DEF Joins
  <2>3. PICK y, z : y = SubSeq(b, 1, k) /\ z = Cat(a, y)
    OBVIOUS
  <2>4. y \in Seq(S) /\ Len(y) = k /\ \A i \in 1 .. k : y[i] = b[i]
    BY <2>2, <2>3, Split
  <2>5. z \in Seq(S) /\ Joins(z, a, y)
    BY <2>3, <2>4, CatIs
  <2>6. Len(z) = n
    BY <2>2, <2>4, <2>5 DEF Joins
  <2>7. ASSUME NEW i \in 1 .. n PROVE x[i] = z[i]
    <3>1. CASE i <= Len(a)
      BY <1>2, <1>3, <2>2, <2>5, <3>1 DEF Joins
    <3>2. CASE i > Len(a)
      <4>1. PICK j : j = i - Len(a)
        OBVIOUS
      <4>2. j \in 1 .. k /\ i = Len(a) + j
        BY <2>2, <3>2, <4>1
      <4>3. c[i] = b[j] /\ z[i] = y[j]
        BY <1>2, <2>2, <2>4, <2>5, <4>2 DEF Joins
      <4> QED
        BY <1>3, <2>4, <4>2, <4>3
    <3> QED
      BY <2>2, <3>1, <3>2
  <2>8. x = z
    BY <1>3, <2>5, <2>6, <2>7, SeqEqual
  <2> QED
    BY <2>1, <2>3, <2>8
<1> QED
  BY <1>1, <1>4, <1>5
-----------------------------------------------------------------------------
(* The list of names: what is built, cut at the buffer and found again.    *)

\* The registered names.
LEMMA SeatsAre ==
  /\ Len(Seats) \in Nat /\ Len(Seats) > 0 /\ Seats \in Texts
  /\ \A i \in 1 .. Len(Seats) :
       /\ Seats[i] \in Seq(Symbols \ {Semicolon}) /\ Seats[i] \in Strings
       /\ Len(Seats[i]) > 0 /\ Len(Seats[i]) \in Nat /\ Seats[i] # <<>> /\ NoNL(Seats[i])
<1>1. PICK A : A = Alphabet \ {Bar, Semicolon, Space, Backslash}
  OBVIOUS
<1>2. Seats \in Seq(Seq(A)) /\ Seats # <<>>
  BY <1>1, SeatsAssumption DEF AreNames
<1>3. Len(Seats) \in Nat /\ Len(Seats) > 0 /\ DOMAIN Seats = 1 .. Len(Seats)
  BY <1>2
<1>4. A \subseteq Symbols \ {Semicolon}
  BY <1>1, SymbolsAre
<1>5. ASSUME NEW i \in 1 .. Len(Seats)
      PROVE  /\ Seats[i] \in Seq(Symbols \ {Semicolon}) /\ Seats[i] \in Strings
             /\ Len(Seats[i]) > 0 /\ Len(Seats[i]) \in Nat /\ NoNL(Seats[i])
  <2>1. Seats[i] \in Seq(A)
    BY <1>2, <1>3
  <2>2. Seats[i] \in Seq(Symbols \ {Semicolon})
    BY <1>4, <2>1, SeqMonotonic
  <2>3. Seats[i] \in Online
    BY <1>3 DEF Online
  <2> QED
    BY <2>2, <2>3, NameIs
<1>6. Seats \in Texts
  BY <1>2, <1>3, <1>5 DEF Texts
<1> QED
  BY <1>3, <1>5, <1>6

\* The first k names with separators.
Joined(k) == Fold(Gluing(Semicolon), Seats[1], SubSeq(Seats, 2, k))

\* One name, one more, and all.
LEMMA JoinedIs ==
  /\ Joined(1) = Seats[1] /\ Joined(Len(Seats)) = Join(Seats, Semicolon)
  /\ \A k \in 1 .. Len(Seats) : Joined(k) \in Strings
  /\ \A k \in 1 .. Len(Seats) - 1 :
       Joined(k + 1) = Cat(Append(Joined(k), Semicolon), Seats[k + 1])
<1>1. /\ Len(Seats) \in Nat /\ Len(Seats) > 0 /\ Seats \in Seq(Seq(Symbols))
      /\ Semicolon \in Symbols /\ Seats[1] \in Seq(Symbols)
  BY SeatsAre, SymbolsAre DEF Texts, Strings
<1>2. ASSUME NEW k \in 1 .. Len(Seats) PROVE SubSeq(Seats, 2, k) \in Seq(Seq(Symbols))
  BY <1>1, SubSeqIs
<1>3. \A k \in 1 .. Len(Seats) : Joined(k) \in Strings
  BY <1>1, <1>2, JoinAppend DEF Joined, Strings
<1>4. Joined(1) = Seats[1]
  <2>1. SubSeq(Seats, 2, 1) = <<>>
    BY <1>1
  <2> QED
    BY <2>1, FoldEmpty DEF Joined
<1>5. Joined(Len(Seats)) = Join(Seats, Semicolon)
  <2>1. Head(Seats) = Seats[1] /\ Tail(Seats) = SubSeq(Seats, 2, Len(Seats))
    BY <1>1
  <2> QED
    BY <2>1, Zenon DEF Joined, Join, Gluing
<1>6. ASSUME NEW k \in 1 .. Len(Seats) - 1
      PROVE  Joined(k + 1) = Cat(Append(Joined(k), Semicolon), Seats[k + 1])
  <2>1. k \in 1 .. Len(Seats) /\ k + 1 \in 1 .. Len(Seats)
    BY <1>1
  <2>2. PICK q, b : q = SubSeq(Seats, 2, k) /\ b = Seats[k + 1]
    OBVIOUS
  <2>3. q \in Seq(Seq(Symbols)) /\ b \in Seq(Symbols)
    BY <1>1, <1>2, <2>1, <2>2
  <2>4. SubSeq(Seats, 2, k + 1) = Append(q, b)
    BY <1>1, <2>1, <2>2
  <2>5. Joined(k + 1) = Glue(Joined(k), Semicolon, b)
    <3>1. PICK a : a = Seats[1]
      OBVIOUS
    <3>2. Fold(Gluing(Semicolon), a, Append(q, b)) =
            Glue(Fold(Gluing(Semicolon), a, q), Semicolon, b)
      BY <1>1, <2>3, <3>1, JoinAppend
    <3> QED
      BY <2>2, <2>4, <3>1, <3>2, Zenon DEF Joined
  <2>6. Joined(k) \in Seq(Symbols)
    BY <1>3, <2>1 DEF Strings
  <2>7. Glue(Joined(k), Semicolon, b) = Cat(Append(Joined(k), Semicolon), b)
    <3>1. PICK x : x = Joined(k)
      OBVIOUS
    <3>2. x \o <<Semicolon>> = Append(x, Semicolon)
      BY <1>1, <2>6, <3>1
    <3> QED
      BY <3>1, <3>2, Zenon DEF Glue, Cat
  <2> QED
    BY <2>2, <2>5, <2>7
<1> QED
  BY <1>3, <1>4, <1>5, <1>6

\* The names found in x are the first m and i symbols of the next.
Reached(x, m, i) ==
  /\ m \in Nat /\ m < Len(Seats) /\ i \in Nat /\ i <= Len(Seats[m + 1])
  /\ Found(x, SubSeq(Seats, 1, m), SubSeq(Seats[m + 1], 1, i))

\* What is found in the first n symbols of all names.
Starting(k) ==
  /\ Found(Joined(k), SubSeq(Seats, 1, k - 1), Seats[k])
  /\ \A n \in 0 .. Len(Joined(k)) :
       \E m, i \in Nat : Reached(SubSeq(Joined(k), 1, n), m, i) /\ (n > 0 => m + i > 0)

\* Of one name,
LEMMA StartingOne == Starting(1)
<1>1. /\ Seats[1] \in Seq(Symbols \ {Semicolon}) /\ Seats[1] \in Strings
      /\ Len(Seats[1]) \in Nat /\ Len(Seats) > 0 /\ Len(Seats) \in Nat
      /\ Joined(1) = Seats[1] /\ Seats \in Texts
  BY SeatsAre, JoinedIs
<1>2. PICK e : e = <<>>
  OBVIOUS
<1>3. e \in Strings /\ Found(e, e, e) /\ SubSeq(Seats, 1, 0) = e
  <2>1. e \in Strings
    BY <1>2, Singles DEF Strings
  <2>2. Tokens(e) = NoToken
    BY <1>2, <2>1, TokensAre
  <2>3. SubSeq(Seats, 1, 0) = e
    BY <1>2
  <2> QED
    BY <1>2, <2>1, <2>2, <2>3 DEF Found, NoToken
<1>4. ASSUME NEW s \in Seq(Symbols \ {Semicolon}) PROVE Found(s, e, s)
  <2>1. Found(Cat(e, s), e, s)
    BY <1>2, <1>3, FoundMore
  <2>2. Cat(e, s) = s
    BY <1>2, CatEmpty
  <2> QED
    BY <2>1, <2>2
<1>5. ASSUME NEW n \in 0 .. Len(Joined(1))
      PROVE  \E m, i \in Nat : Reached(SubSeq(Joined(1), 1, n), m, i) /\ (n > 0 => m + i > 0)
  <2>1. n \in Nat /\ n <= Len(Seats[1])
    BY <1>1
  <2>2. SubSeq(Seats[1], 1, n) \in Seq(Symbols \ {Semicolon})
    BY <1>1, <2>1, Split
  <2>3. Found(SubSeq(Seats[1], 1, n), e, SubSeq(Seats[1], 1, n))
    BY <1>4, <2>2
  <2>4. 0 + 1 = 1 /\ 0 + n = n
    BY <2>1
  <2>5. Reached(SubSeq(Joined(1), 1, n), 0, n)
    BY <1>1, <1>3, <2>1, <2>3, <2>4 DEF Reached
  <2> QED
    BY <2>1, <2>4, <2>5
<1>6. Found(Joined(1), SubSeq(Seats, 1, 1 - 1), Seats[1])
  <2>1. 1 - 1 = 0
    OBVIOUS
  <2> QED
    BY <1>1, <1>3, <1>4, <2>1, Zenon
<1> QED
  BY <1>5, <1>6 DEF Starting

\* and of one more.
LEMMA StartingNext ==
  ASSUME NEW k \in 1 .. Len(Seats) - 1, Starting(k)
  PROVE  Starting(k + 1)
<1>1. /\ k \in Nat /\ k > 0 /\ k < Len(Seats) /\ k + 1 \in 1 .. Len(Seats) /\ k \in 1 .. Len(Seats)
      /\ (k + 1) - 1 = k /\ Seats \in Texts /\ Len(Seats) \in Nat
  BY SeatsAre
<1>2. PICK j, a, s, w : /\ j = Joined(k) /\ a = Append(j, Semicolon) /\ s = Seats[k + 1]
                        /\ w = Joined(k + 1)
  OBVIOUS
<1>3. /\ j \in Strings /\ w = Cat(a, s) /\ s \in Seq(Symbols \ {Semicolon}) /\ s \in Strings
      /\ Seats[k] # <<>> /\ Len(s) \in Nat
  BY <1>1, <1>2, SeatsAre, JoinedIs
<1>4. a \in Strings /\ Len(a) = Len(j) + 1 /\ Len(j) \in Nat
  BY <1>2, <1>3, SymbolsAre DEF Strings
<1>5. Found(a, SubSeq(Seats, 1, k), <<>>)
  <2>1. Found(j, SubSeq(Seats, 1, k - 1), Seats[k])
    BY <1>2 DEF Starting
  <2>2. Found(a, Append(SubSeq(Seats, 1, k - 1), Seats[k]), <<>>)
    BY <1>2, <1>3, <2>1, FoundEnd
  <2>3. Append(SubSeq(Seats, 1, k - 1), Seats[k]) = SubSeq(Seats, 1, k)
    BY <1>1 DEF Texts
  <2> QED
    BY <2>2, <2>3
<1>6. Found(w, SubSeq(Seats, 1, k), s)
  BY <1>3, <1>4, <1>5, FoundMore
<1>7. Len(w) = Len(a) + Len(s)
  BY <1>3, <1>4, CatIs DEF Joins, Strings
<1>8. ASSUME NEW n \in 0 .. Len(w)
      PROVE  \E m, i \in Nat : Reached(SubSeq(w, 1, n), m, i) /\ (n > 0 => m + i > 0)
  <2>1. n \in Nat /\ n <= Len(a) + Len(s)
    BY <1>4, <1>3, <1>7
  <2>2. CASE n <= Len(j)
    <3>1. SubSeq(w, 1, n) = SubSeq(a, 1, n)
      <4>1. n <= Len(a)
        BY <1>4, <2>1, <2>2
      <4> QED
        BY <1>3, <1>4, <2>1, <4>1, CatStart DEF Strings
    <3>2. SubSeq(a, 1, n) = SubSeq(j, 1, n)
      <4>1. a = Cat(j, <<Semicolon>>)
        BY <1>2, <1>3 DEF Cat, Strings
      <4>2. <<Semicolon>> \in Strings /\ Len(<<Semicolon>>) = 1
        BY Singles, SymbolsAre DEF Strings
      <4>3. n <= Len(j) + Len(<<Semicolon>>)
        BY <1>4, <2>1, <2>2, <4>2
      <4> QED
        BY <1>3, <2>1, <2>2, <4>1, <4>2, <4>3, CatStart DEF Strings
    <3>3. n \in 0 .. Len(j)
      BY <2>1, <2>2, <1>4
    <3> QED
      BY <1>2, <3>1, <3>2, <3>3 DEF Starting
  <2>3. CASE n > Len(j)
    <3>1. PICK i : i = n - Len(a)
      OBVIOUS
    <3>2. i \in Nat /\ i <= Len(s) /\ n >= Len(a)
      BY <1>3, <1>4, <2>1, <2>3, <3>1
    <3>3. SubSeq(w, 1, n) = Cat(a, SubSeq(s, 1, i))
      BY <1>3, <1>4, <2>1, <3>1, <3>2, CatStart DEF Strings
    <3>4. SubSeq(s, 1, i) \in Seq(Symbols \ {Semicolon})
      BY <1>3, <3>2, Split
    <3>5. Found(SubSeq(w, 1, n), SubSeq(Seats, 1, k), SubSeq(s, 1, i))
      BY <1>4, <1>5, <3>3, <3>4, FoundMore
    <3>6. Reached(SubSeq(w, 1, n), k, i)
      BY <1>1, <1>2, <3>2, <3>5 DEF Reached
    <3>7. k + i > 0
      BY <1>1, <3>2
    <3> QED
      BY <1>1, <3>2, <3>6, <3>7
  <2> QED
    BY <1>4, <2>1, <2>2, <2>3
<1> QED
  BY <1>1, <1>2, <1>6, <1>8 DEF Starting

\* Of all.
LEMMA StartingAll == Starting(Len(Seats))
<1> DEFINE T == {n \in Nat : n < Len(Seats) => Starting(n + 1)}
<1>1. 0 \in T
  <2>1. 0 + 1 = 1
    OBVIOUS
  <2> QED
    BY <2>1, StartingOne
<1>2. ASSUME NEW n \in Nat, n \in T PROVE n + 1 \in T
  <2>1. n + 1 < Len(Seats) => n + 1 \in 1 .. Len(Seats) - 1 /\ n < Len(Seats)
    BY SeatsAre
  <2> QED
    BY <1>2, <2>1, StartingNext
<1> HIDE DEF T
<1>3. Nat \subseteq T
  BY <1>1, <1>2, NatSetInduction
<1>4. Len(Seats) - 1 \in T /\ Len(Seats) - 1 < Len(Seats) /\ (Len(Seats) - 1) + 1 = Len(Seats)
  BY <1>3, SeatsAre
<1> QED
  BY <1>4 DEF T

\* The names and their separators have no newline.
LEMMA AllNames ==
  /\ Join(Seats, Semicolon) \in Strings /\ NoNL(Join(Seats, Semicolon))
  /\ Len(Join(Seats, Semicolon)) \in Nat /\ Len(Join(Seats, Semicolon)) > 0
<1> DEFINE T == {n \in Nat : n < Len(Seats) => NoNL(Joined(n + 1)) /\ Len(Joined(n + 1)) > 0}
<1>1. 0 \in T
  <2>1. 0 + 1 = 1 /\ 1 \in 1 .. Len(Seats)
    BY SeatsAre
  <2> QED
    BY <2>1, SeatsAre, JoinedIs
<1>2. ASSUME NEW n \in Nat, n \in T PROVE n + 1 \in T
  <2> SUFFICES ASSUME n + 1 < Len(Seats)
               PROVE  NoNL(Joined((n + 1) + 1)) /\ Len(Joined((n + 1) + 1)) > 0
    OBVIOUS
  <2>1. PICK j, a, s, w : /\ j = Joined(n + 1) /\ a = Append(j, Semicolon)
                          /\ s = Seats[(n + 1) + 1] /\ w = Joined((n + 1) + 1)
    OBVIOUS
  <2>2. n + 1 \in 1 .. Len(Seats) - 1 /\ n + 1 \in 1 .. Len(Seats)
        /\ (n + 1) + 1 \in 1 .. Len(Seats) /\ n < Len(Seats)
    BY SeatsAre
  <2>3. j \in Strings /\ w = Cat(a, s) /\ s \in Strings /\ NoNL(s) /\ NoNL(j)
    BY <1>2, <2>1, <2>2, SeatsAre, JoinedIs
  <2>4. a \in Strings /\ NoNL(a) /\ Len(a) > 0
    BY <2>1, <2>3, SymbolsAre DEF Strings, NoNL
  <2>5. Joins(w, a, s)
    BY <2>3, <2>4, CatIs DEF Strings
  <2>6. ASSUME NEW i \in 1 .. Len(w) PROVE w[i] # NL
    <3>1. CASE i <= Len(a)
      BY <2>4, <2>5, <3>1 DEF Joins, NoNL
    <3>2. CASE i > Len(a)
      <4>1. PICK k : k = i - Len(a)
        OBVIOUS
      <4>2. k \in 1 .. Len(s) /\ i = Len(a) + k
        BY <2>5, <3>2, <4>1 DEF Joins
      <4> QED
        BY <2>3, <2>5, <4>2 DEF Joins, NoNL
    <3> QED
      BY <2>5, <3>1, <3>2 DEF Joins
  <2>7. Len(w) > 0
    BY <2>4, <2>5 DEF Joins
  <2> QED
    BY <2>1, <2>6, <2>7 DEF NoNL
<1> HIDE DEF T
<1>3. Nat \subseteq T
  BY <1>1, <1>2, NatSetInduction
<1>4. Len(Seats) - 1 \in T /\ Len(Seats) - 1 < Len(Seats) /\ (Len(Seats) - 1) + 1 = Len(Seats)
  BY <1>3, SeatsAre
<1>5. NoNL(Joined(Len(Seats))) /\ Len(Joined(Len(Seats))) > 0
  BY <1>4 DEF T
<1>6. Joined(Len(Seats)) \in Strings
  BY JoinedIs, SeatsAre
<1> QED
  BY <1>5, <1>6, JoinedIs DEF Strings

\* A line whose first symbol is w, then a bar, then the first n symbols of j.
Listed(x, w, j, n) ==
  /\ x \in Strings /\ Len(x) = n + 2 /\ x[1] = w /\ x[2] = Bar
  /\ \A i \in 1 .. n : x[i + 2] = j[i]

\* What follows the bar.
LEMMA ListedRest ==
  ASSUME NEW w \in Words, NEW j \in Strings, NEW n \in Nat, n <= Len(j), NEW x, Listed(x, w, j, n)
  PROVE  After(x, Bar) = SubSeq(j, 1, n)
<1>1. x \in Seq(Symbols) /\ Len(x) = n + 2 /\ x[1] = w /\ x[2] = Bar /\ w # Bar
      /\ j \in Seq(Symbols)
  BY WordsAre DEF Listed, Strings
<1>2. PICK f : f = First(x, {Bar})
  OBVIOUS
<1>3. /\ f \in 0 .. Len(x)
      /\ f = 0 => \A i \in 1 .. Len(x) : x[i] \notin {Bar}
      /\ f # 0 => x[f] \in {Bar} /\ \A i \in 1 .. f - 1 : x[i] \notin {Bar}
  BY <1>1, <1>2, FirstIs
<1>4. f = 2
  <2>1. 2 \in 1 .. Len(x)
    BY <1>1
  <2>2. f # 0 /\ f # 1
    BY <1>1, <1>3, <2>1
  <2>3. ~(2 \in 1 .. f - 1)
    BY <1>1, <1>3, <2>2
  <2> QED
    BY <1>1, <1>3, <2>2, <2>3
<1>5. After(x, Bar) = SubSeq(x, 3, Len(x))
  <2>1. Find(x, Bar) = 2
    BY <1>2, <1>4, Zenon DEF Find
  <2>2. Find(x, Bar) + 1 = 3 /\ Find(x, Bar) # 0
    BY <2>1
  <2> QED
    BY <2>2, Zenon DEF After
<1>6. PICK y, z : y = SubSeq(x, 3, Len(x)) /\ z = SubSeq(j, 1, n)
  OBVIOUS
<1>7. /\ y \in Seq(Symbols) /\ Len(y) = n /\ \A k \in 1 .. n : y[k] = x[k + 2]
  <2>1. 3 \in 1 .. Len(x) + 1 /\ Len(x) \in 0 .. Len(x)
    BY <1>1
  <2>2. /\ y \in Seq(Symbols) /\ Len(y) = IF 3 <= Len(x) THEN Len(x) - 3 + 1 ELSE 0
        /\ \A k \in 1 .. Len(x) - 3 + 1 : y[k] = x[(3 - 1) + k]
    BY <1>1, <1>6, <2>1, SubSeqIs
  <2> QED
    BY <1>1, <2>2
<1>8. z \in Seq(Symbols) /\ Len(z) = n /\ \A k \in 1 .. n : z[k] = j[k]
  BY <1>1, <1>6, Split
<1>9. \A k \in 1 .. n : y[k] = z[k]
  BY <1>7, <1>8 DEF Listed
<1>10. y = z
  BY <1>7, <1>8, <1>9, SeqEqual
<1> QED
  BY <1>5, <1>6, <1>10

\* The first n symbols of the names that the list has room for.
ListRoom ==
  IF Len(Join(Seats, Semicolon)) <= MaxMsg - 3 THEN Len(Join(Seats, Semicolon)) ELSE MaxMsg - 3

\* The line of the list.
LEMMA TheListIs ==
  /\ Frame(TheList) /\ ListRoom \in Nat /\ ListRoom > 0
  /\ Rest(TheList) = SubSeq(Join(Seats, Semicolon), 1, ListRoom)
<1>0. PICK w : w = <<"LIST_OK">>
  OBVIOUS
<1>1. PICK j, m, l, g : /\ j = Join(Seats, Semicolon) /\ m = MaxMsg - 1 /\ l = ListUsernames
                        /\ g = Glue(w, Bar, l)
  OBVIOUS
<1>2. j \in Strings /\ NoNL(j) /\ Len(j) \in Nat /\ Len(j) > 0 /\ m \in Nat /\ m >= 6
      /\ MaxMsg \in Nat
  BY <1>1, AllNames, Sizes
<1>3. /\ l \in Strings /\ NoNL(l) /\ Len(l) \in Nat
      /\ Len(l) <= Len(j) /\ (Len(j) <= m => l = j) /\ (Len(j) >= m => Len(l) = m)
      /\ \A i \in 1 .. Len(l) : l[i] = j[i]
  <2>1. l = Cut(j, m)
    BY <1>1 DEF ListUsernames
  <2>2. l \in Seq(Symbols) /\ NoNL(l)
    BY <1>1, ListIs
  <2>3. j \in Seq(Symbols)
    BY <1>2 DEF Strings
  <2>4. /\ Len(l) <= Len(j) /\ (Len(j) <= m => l = j) /\ (Len(j) >= m => Len(l) = m)
        /\ \A i \in 1 .. Len(l) : l[i] = j[i]
    <3>1. /\ Len(Cut(j, m)) <= Len(j) /\ Len(Cut(j, m)) <= m
          /\ (Len(j) <= m => Cut(j, m) = j) /\ (Len(j) >= m => Len(Cut(j, m)) = m)
          /\ \A i \in 1 .. Len(Cut(j, m)) : Cut(j, m)[i] = j[i]
      BY <1>2, <2>3, CutIs
    <3> QED
      BY <2>1, <3>1
  <2> QED
    BY <2>2, <2>4 DEF Strings
<1>4. "LIST_OK" \in Words
  BY Zenon DEF Words
<1>5. w \in Seq(Symbols) /\ NoNL(w) /\ Len(w) = 1 /\ w[1] = "LIST_OK"
  BY <1>0, <1>4, WordsAre
<1>6. /\ g \in Seq(Symbols) /\ Len(g) = Len(l) + 2 /\ NoNL(g)
      /\ g[1] = "LIST_OK" /\ g[2] = Bar /\ \A i \in 1 .. Len(l) : g[i + 2] = l[i]
  <2>1. g \in Seq(Symbols) /\ Len(g) = Len(w) + 1 + Len(l) /\ NoNL(g) /\ g[1] = w[1]
    <3>1. l \in Seq(Symbols)
      BY <1>3 DEF Strings
    <3> QED
      <4>1. /\ Glue(w, Bar, l) \in Seq(Symbols)
            /\ Len(Glue(w, Bar, l)) = Len(w) + 1 + Len(l)
            /\ NoNL(Glue(w, Bar, l)) /\ Glue(w, Bar, l)[1] = w[1]
        <5>1. w \in Seq(Symbols) /\ NoNL(w) /\ NoNL(l) /\ Len(w) > 0
          BY <1>3, <1>5
        <5> QED
          BY <3>1, <5>1, Barred
      <4>2. g = Glue(w, Bar, l)
        BY <1>1
      <4> QED
        BY <4>1, <4>2
  <2>2. PICK b, d : b = <<Bar>> /\ d = Cat(b, l)
    OBVIOUS
  <2>3. b \in Seq(Symbols) /\ Len(b) = 1 /\ b[1] = Bar
    BY <2>2, SymbolsAre
  <2>4. g = Cat(w, d)
    <3>1. l \in Seq(Symbols) /\ w \in Seq(Symbols)
      BY <1>3, <1>5 DEF Strings
    <3>2. Cat(Cat(w, b), l) = Cat(w, Cat(b, l))
      BY <2>3, <3>1, Regroup
    <3>3. g = Cat(Cat(w, b), l)
      BY <1>1, <2>2, Zenon DEF Glue, Cat
    <3> QED
      BY <2>2, <3>2, <3>3
  <2>5. d \in Seq(Symbols) /\ Joins(d, b, l)
    BY <1>3, <2>2, <2>3, CatIs DEF Strings
  <2>6. Joins(g, w, d)
    BY <1>5, <2>4, <2>5, CatIs
  <2>7. g[1 + 1] = d[1] /\ d[1] = Bar
    BY <1>5, <2>3, <2>5, <2>6 DEF Joins
  <2>8. ASSUME NEW i \in 1 .. Len(l) PROVE g[i + 2] = l[i]
    <3>1. 1 + i \in 1 .. Len(d) /\ d[1 + i] = l[i]
      BY <2>3, <2>5 DEF Joins
    <3>2. g[1 + (1 + i)] = d[1 + i]
      BY <1>5, <2>6, <3>1 DEF Joins
    <3>3. 1 + (1 + i) = i + 2
      OBVIOUS
    <3> QED
      BY <3>1, <3>2, <3>3
  <2> QED
    BY <1>3, <1>5, <2>1, <2>7, <2>8
<1>7. PICK f, t : f = Append(g, NL) /\ t = TheList
  OBVIOUS
<1>8. t = Cut(f, m)
  <2>1. Build(<<w, l>>) = Cut(f, m)
    BY <1>1, <1>3, <1>5, <1>7, BuildIs DEF Strings
  <2> QED
    BY <1>0, <1>1, <1>7, <2>1, Zenon DEF TheList
<1>9. Frame(t)
  BY <1>1, <1>6, <1>7, <1>8, ClosedLine
<1>10. f \in Seq(Symbols) /\ Len(f) = Len(l) + 3 /\ f[Len(l) + 3] = NL
       /\ \A i \in 1 .. Len(l) + 2 : f[i] = g[i]
  BY <1>3, <1>6, <1>7, SymbolsAre
<1>11. PICK n : n = ListRoom
  OBVIOUS
<1>12. n \in Nat /\ n > 0 /\ n <= Len(j) /\ n <= Len(l) /\ n = (IF Len(j) <= m - 2 THEN Len(j) ELSE m - 2)
  BY <1>1, <1>2, <1>3, <1>11 DEF ListRoom
<1>13. ASSUME NEW x \in Seq(Symbols), Len(x) = n + 2, \A i \in 1 .. n + 2 : x[i] = g[i]
       PROVE  Listed(x, "LIST_OK", j, n)
  <2>1. 1 \in 1 .. n + 2 /\ 2 \in 1 .. n + 2
    BY <1>12
  <2>2. x[1] = "LIST_OK" /\ x[2] = Bar
    BY <1>6, <1>13, <2>1
  <2>3. ASSUME NEW i \in 1 .. n PROVE x[i + 2] = j[i]
    <3>1. i + 2 \in 1 .. n + 2 /\ i \in 1 .. Len(l)
      BY <1>3, <1>12
    <3> QED
      BY <1>3, <1>6, <1>13, <3>1
  <2> QED
    BY <1>13, <2>2, <2>3 DEF Listed, Strings
<1>14. Listed(TrimNewline(t), "LIST_OK", j, n)
  <2>1. CASE Len(j) <= m - 3
    <3>1. l = j /\ Len(f) <= m /\ n = Len(l)
      BY <1>2, <1>3, <1>10, <1>12, <2>1
    <3>2. t = f
      BY <1>2, <1>8, <1>10, <3>1, CutIs
    <3>3. PICK k : k = Len(f) - 1
      OBVIOUS
    <3>4. k \in Nat /\ k <= Len(f) /\ k = n + 2
      BY <1>3, <1>10, <3>1, <3>3
    <3>5. TrimNewline(f) = SubSeq(f, 1, k)
      BY <1>10, <1>3, <3>3 DEF TrimNewline
    <3>6. PICK x : x = SubSeq(f, 1, k)
      OBVIOUS
    <3>7. x \in Seq(Symbols) /\ Len(x) = k /\ \A i \in 1 .. k : x[i] = f[i]
      BY <1>10, <3>4, <3>6, Split
    <3>8. \A i \in 1 .. n + 2 : x[i] = g[i]
      BY <1>10, <3>1, <3>4, <3>7
    <3> QED
      BY <1>13, <3>2, <3>4, <3>5, <3>6, <3>7, <3>8
  <2>2. CASE Len(j) > m - 3
    <3>1. n = m - 2 /\ Len(f) >= m /\ n + 2 = m /\ m <= Len(l) + 2
      <4>1. Len(l) >= m - 2
        BY <1>2, <1>3, <2>2
      <4> QED
        BY <1>2, <1>3, <1>10, <1>12, <2>2, <4>1
    <3>2. t \in Seq(Symbols) /\ Len(t) = m /\ \A i \in 1 .. m : t[i] = f[i]
      BY <1>2, <1>8, <1>10, <3>1, CutIs
    <3>3. ASSUME NEW i \in 1 .. m PROVE t[i] = g[i] /\ g[i] # NL
      <4>1. i \in 1 .. Len(l) + 2 /\ i \in 1 .. Len(g)
        BY <1>2, <1>3, <1>6, <3>1
      <4> QED
        BY <1>6, <1>10, <3>2, <4>1 DEF NoNL
    <3>4. t[Len(t)] # NL
      BY <1>2, <3>2, <3>3
    <3>5. TrimNewline(t) = t
      BY <3>4 DEF TrimNewline
    <3> QED
      BY <1>13, <3>1, <3>2, <3>3, <3>5
  <2> QED
    BY <1>2, <2>1, <2>2
<1>15. After(TrimNewline(t), Bar) = SubSeq(j, 1, n)
  BY <1>2, <1>4, <1>12, <1>14, ListedRest
<1> QED
  BY <1>1, <1>7, <1>9, <1>11, <1>12, <1>15 DEF Rest

\* One frame is one line.
LEMMA FrameLine ==
  ASSUME NEW f, Frame(f)
  PROVE  Lines(f) = <<f>>
<1>1. /\ f \in Strings /\ Len(f) > 0 /\ Len(f) \in Nat /\ OnlyLast(f) /\ f # <<>>
      /\ f[Len(f)] = NL \/ NoNL(f)
  BY DEF Frame, Sendable, Strings
<1>2. Lines(f) = IF Begun(Closed, f) = <<>> THEN Ended(Closed, f)
                 ELSE Append(Ended(Closed, f), Begun(Closed, f))
  BY PiecesAre, Zenon DEF Lines, Closed
<1>3. ASSUME NEW q \in Strings, NoNL(q)
      PROVE  Ended(Closed, q) = <<>> /\ Begun(Closed, q) = q
  <2>1. PICK p, o : p = Ended(Closed, q) /\ o = Begun(Closed, q)
    OBVIOUS
  <2>2. p = <<>> /\ o \in Strings /\ Cat(Flat(p), o) = q /\ p \in Texts
    BY <1>3, <2>1, LinesAre, CutsAre DEF LinesSoFar
  <2>3. Flat(p) = <<>>
    BY <2>2, FlatIs
  <2> QED
    BY <2>1, <2>2, <2>3, CatEmpty DEF Strings
<1>4. CASE NoNL(f)
  <2>1. Lines(f) = Append(<<>>, f)
    BY <1>1, <1>2, <1>3, <1>4
  <2> QED
    BY <2>1
<1>5. CASE f[Len(f)] = NL
  <2>1. PICK q \in Strings, m \in Symbols : f = Append(q, m)
    BY <1>1, SequenceEmptyOrAppend DEF Strings
  <2>2. NoNL(q)
    BY <1>1, <2>1 DEF Strings, OnlyLast, NoNL
  <2>3. Extends(Closed, q, f, f)
    BY <1>3, <2>1, <2>2, CutsAre
  <2>4. f \in Closed
    BY <1>1, <1>5 DEF Closed, Strings
  <2>5. Ended(Closed, f) = Append(<<>>, f) /\ Begun(Closed, f) = <<>>
    BY <1>3, <2>2, <2>3, <2>4 DEF Extends
  <2> QED
    BY <1>2, <2>5
<1> QED
  BY <1>1, <1>4, <1>5

\* What is read of lines of G is in G, when that holds for each of them.
LEMMA ReadKeeps ==
  ASSUME NEW G, G \subseteq Strings, \A l \in G : Lines(l) \in Seq(G), NEW q \in Seq(G)
  PROVE  AllLines(q) \in Seq(G)
<1>1. \A l \in Strings : LinesOf[l] = Lines(l) /\ Lines(l) \in Texts
  BY PiecesType DEF LinesOf, Lines, Strings
<1>2. LinesOf \in Maps(Strings, Strings)
  <2>1. LinesOf = [l \in Strings |-> Lines(l)]
    BY Zenon DEF LinesOf, Strings
  <2> QED
    BY <1>1, <2>1 DEF Maps, Texts
<1>3. \A l \in G : LinesOf[l] \in Seq(G)
  BY <1>1
<1>4. FlatMap(Strings, LinesOf, q) \in Seq(G)
  BY <1>2, <1>3, FlatMapKeeps
<1> QED
  BY <1>4, Zenon DEF AllLines, LinesOf, Strings

\* What a client reads of plain lines is plain,
LEMMA ReadPlain ==
  ASSUME NEW K, Untyped(K), NEW q \in Seq(Seq(Plain(K)))
  PROVE  AllLines(q) \in Seq(Seq(Plain(K)))
<1>1. Seq(Plain(K)) \subseteq Strings /\ Plain(K) \subseteq Symbols
  BY PlainIs
<1>2. \A l \in Seq(Plain(K)) : Lines(l) \in Seq(Seq(Plain(K)))
  BY <1>1, PiecesKeep DEF Lines
<1> QED
  BY <1>1, <1>2, ReadKeeps

\* and of others it is the list or plain.
LEMMA ReadGood ==
  ASSUME Untyped("LIST_OK"), NEW q \in Seq(Good)
  PROVE  AllLines(q) \in Seq(Good)
<1>1. PICK P : P = Plain("LIST_OK")
  OBVIOUS
<1>2. Seq(P) \subseteq Strings /\ P \subseteq Symbols /\ Seq(P) \subseteq Good
      /\ TheList \in Good
  BY <1>1, PlainIs DEF Good
<1>3. Frame(TheList) /\ TheList \in Strings
  BY TheListIs DEF Frame, Sendable, Strings
<1>4. Good \subseteq Strings
  BY <1>1, <1>2, <1>3 DEF Good
<1>5. ASSUME NEW l \in Good PROVE Lines(l) \in Seq(Good)
  <2>1. CASE l \in Seq(P)
    <3>1. Lines(l) \in Seq(Seq(P))
      BY <1>2, <2>1, PiecesKeep DEF Lines
    <3> QED
      BY <1>2, <3>1, SeqMonotonic
  <2>2. CASE l = TheList
    BY <1>2, <1>3, <2>2, FrameLine, Singles
  <2> QED
    BY <1>1, <2>1, <2>2 DEF Good
<1> QED
  BY <1>4, <1>5, ReadKeeps

\* The type of a plain line is no keyword that nobody types.
LEMMA PlainType ==
  ASSUME NEW K, Untyped(K), NEW l \in Seq(Plain(K))
  PROVE  Type(l) # <<K>>
<1>1. PICK t : t = Type(l)
  OBVIOUS
<1>2. t \in Seq(Plain(K))
  BY <1>1, TextKeeps, BeforeIs DEF Type
<1>3. Len(t) > 0 => t[1] # K
  BY <1>2, PlainIs
<1> QED
  BY <1>1, <1>3

\* The names that the client finds in the list.
ShownNames == Names(TheList)

\* They are registered, in order, and none is missing if there is room.
LEMMA ShownAre ==
  /\ 0 < Len(ShownNames) /\ Len(ShownNames) <= Len(Seats)
  /\ \A i \in 1 .. Len(ShownNames) - 1 : ShownNames[i] = Seats[i]
  /\ IsPrefix(ShownNames[Len(ShownNames)], Seats[Len(ShownNames)])
  /\ ShownNames # Seats =>
       Len(Join(Seats, Semicolon)) + Len(<<"LIST_OK", Bar>>) > MaxMsg - 1
<1>1. PICK j, n, r, ns, N :
        /\ j = Join(Seats, Semicolon) /\ n = ListRoom /\ r = SubSeq(j, 1, n)
        /\ ns = ShownNames /\ N = Len(Seats)
  OBVIOUS
<1>2. j \in Strings /\ Len(j) \in Nat /\ Len(j) > 0 /\ j = Joined(N)
  BY <1>1, AllNames, JoinedIs
<1>3. /\ N \in Nat /\ N > 0 /\ Seats \in Texts /\ DOMAIN Seats = 1 .. N
      /\ \A i \in 1 .. N : Seats[i] \in Strings /\ Len(Seats[i]) \in Nat /\ Seats[i] # <<>>
  BY <1>1, SeatsAre DEF Texts
<1>4. n \in Nat /\ n > 0 /\ n <= Len(j) /\ Rest(TheList) = r /\ MaxMsg \in Nat
      /\ n = IF Len(j) <= MaxMsg - 3 THEN Len(j) ELSE MaxMsg - 3
  <2>1. n = IF Len(j) <= MaxMsg - 3 THEN Len(j) ELSE MaxMsg - 3
    BY <1>1, Zenon DEF ListRoom
  <2>2. MaxMsg \in Nat
    BY Sizes
  <2>3. n \in Nat /\ n > 0
    BY <1>1, TheListIs
  <2>4. Rest(TheList) = r
    BY <1>1, TheListIs, Zenon
  <2> QED
    BY <1>2, <2>1, <2>2, <2>3, <2>4
<1>5. r \in Strings
  BY <1>1, <1>2, <1>4, Split DEF Strings
<1>6. ns = Tokens(Append(r, Semicolon)).names
  BY <1>1, <1>4, NamesAre DEF ShownNames
<1>7. Starting(N)
  BY <1>1, StartingAll
<1>8. PICK m \in Nat, i \in Nat : Reached(r, m, i) /\ m + i > 0
  <2>1. n \in 0 .. Len(j)
    BY <1>2, <1>4
  <2> QED
    BY <1>1, <1>2, <1>4, <1>7, <2>1 DEF Starting
<1>9. PICK s, o : s = SubSeq(Seats, 1, m) /\ o = SubSeq(Seats[m + 1], 1, i)
  OBVIOUS
<1>10. /\ m < N /\ m + 1 \in 1 .. N /\ i <= Len(Seats[m + 1]) /\ Found(r, s, o)
  BY <1>1, <1>3, <1>8, <1>9 DEF Reached
<1>11. /\ s \in Texts /\ Len(s) = m /\ \A k \in 1 .. m : s[k] = Seats[k]
  BY <1>1, <1>3, <1>8, <1>9, <1>10, Split DEF Texts
<1>12. o \in Strings /\ Len(o) = i
  BY <1>3, <1>8, <1>9, <1>10, Split DEF Strings
<1>13. ASSUME NEW K \in 1 .. N, NEW c \in Nat, Len(ns) = K, c <= Len(Seats[K]),
              \A k \in 1 .. K - 1 : ns[k] = Seats[k], ns[K] = SubSeq(Seats[K], 1, c)
       PROVE  /\ 0 < Len(ns) /\ Len(ns) <= N
              /\ \A k \in 1 .. Len(ns) - 1 : ns[k] = Seats[k]
              /\ IsPrefix(ns[Len(ns)], Seats[Len(ns)])
  <2>1. PICK a, b : a = Seats[K] /\ b = ns[K]
    OBVIOUS
  <2>2. a \in Strings /\ b = SubSeq(a, 1, c) /\ c <= Len(a)
    BY <1>3, <1>13, <2>1
  <2>3. b \in Strings /\ Len(b) = c /\ Len(a) \in Nat
    BY <2>2, Split DEF Strings
  <2>4. SubSeq(b, 1, c) = b
    BY <2>3 DEF Strings
  <2>5. IsPrefix(b, a)
    BY <2>2, <2>3, <2>4 DEF IsPrefix
  <2> QED
    BY <1>3, <1>13, <2>1, <2>5
<1>14. /\ 0 < Len(ns) /\ Len(ns) <= N
       /\ \A k \in 1 .. Len(ns) - 1 : ns[k] = Seats[k]
       /\ IsPrefix(ns[Len(ns)], Seats[Len(ns)])
  <2>1. CASE i = 0
    <3>1. o = <<>>
      BY <1>12, <2>1 DEF Strings
    <3>2. ns = s
      BY <1>5, <1>6, <1>10, <3>1, FoundEnd DEF Found
    <3>3. m \in 1 .. N /\ m > 0
      BY <1>8, <1>10, <1>3, <2>1
    <3>4. PICK a : a = Seats[m]
      OBVIOUS
    <3>5. a \in Seq(Symbols)
      BY <1>3, <3>3, <3>4 DEF Strings
    <3>6. ns[m] = SubSeq(Seats[m], 1, Len(Seats[m])) /\ Len(Seats[m]) \in Nat
      BY <1>11, <3>2, <3>3, <3>4, <3>5
    <3>7. \A k \in 1 .. m - 1 : ns[k] = Seats[k]
      BY <1>11, <3>2, <3>3
    <3>8. Len(ns) = m /\ Len(Seats[m]) <= Len(Seats[m])
      BY <1>11, <3>2, <3>6
    <3> QED
      BY <1>13, <3>3, <3>6, <3>7, <3>8
  <2>2. CASE i > 0
    <3>1. o # <<>>
      BY <1>12, <2>2
    <3>2. ns = Append(s, o)
      BY <1>5, <1>6, <1>10, <3>1, FoundEnd DEF Found
    <3>3. /\ Len(ns) = m + 1 /\ ns[m + 1] = o /\ \A k \in 1 .. m : ns[k] = s[k]
      BY <1>11, <1>12, <3>2 DEF Texts
    <3>4. \A k \in 1 .. (m + 1) - 1 : ns[k] = Seats[k]
      BY <1>8, <1>11, <3>3
    <3> QED
      BY <1>9, <1>10, <1>13, <3>3, <3>4
  <2> QED
    BY <1>8, <2>1, <2>2
<1>15. ASSUME ~(Len(j) + Len(<<"LIST_OK", Bar>>) > MaxMsg - 1) PROVE ns = Seats
  <2>1. Len(<<"LIST_OK", Bar>>) = 2
    OBVIOUS
  <2>2. Len(j) <= MaxMsg - 3
    BY <1>2, <1>4, <1>15, <2>1
  <2>3. r = j
    BY <1>1, <1>2, <1>4, <2>2 DEF Strings
  <2>4. Found(r, SubSeq(Seats, 1, N - 1), Seats[N])
    BY <1>2, <1>7, <2>3 DEF Starting
  <2>5. N \in 1 .. N
    BY <1>3
  <2>6. ns = Append(SubSeq(Seats, 1, N - 1), Seats[N])
    <3>1. PICK a, b : a = SubSeq(Seats, 1, N - 1) /\ b = Seats[N]
      OBVIOUS
    <3>2. Found(r, a, b) /\ b # <<>>
      BY <1>3, <2>4, <2>5, <3>1
    <3>3. Found(Append(r, Semicolon), Append(a, b), <<>>)
      BY <1>5, <3>2, FoundEnd
    <3> QED
      BY <1>6, <3>1, <3>3 DEF Found
  <2>7. Append(SubSeq(Seats, 1, N - 1), Seats[N]) = Seats
    BY <1>1, <1>3 DEF Texts
  <2> QED
    BY <2>6, <2>7
<1> QED
  BY <1>1, <1>14, <1>15

-----------------------------------------------------------------------------
(* The fields of a command.                                                *)

\* Strings put together.
LEMMA StringsAre ==
  /\ \A a, b \in Strings : /\ Cat(a, b) \in Strings /\ Len(Cat(a, b)) = Len(a) + Len(b)
                           /\ Len(a) \in Nat /\ Len(b) \in Nat
  /\ \A a \in Strings, m \in Symbols : Append(a, m) \in Strings
                                       /\ Len(Append(a, m)) = Len(a) + 1
  /\ \A a, b \in Strings, m \in Symbols : Cat(a, Append(b, m)) = Append(Cat(a, b), m)
<1>1. \A a, b \in Strings : /\ Cat(a, b) \in Strings /\ Len(Cat(a, b)) = Len(a) + Len(b)
                           /\ Len(a) \in Nat /\ Len(b) \in Nat
  BY CatIs DEF Strings, Joins
<1>2. \A a \in Strings, m \in Symbols : Append(a, m) \in Strings
                                       /\ Len(Append(a, m)) = Len(a) + 1
  BY DEF Strings
<1>3. \A a, b \in Strings, m \in Symbols : Cat(a, Append(b, m)) = Append(Cat(a, b), m)
  BY CatAppend DEF Strings
<1> QED
  BY <1>1, <1>2, <1>3

\* What has been cut off behind a start that fits.
LEMMA CutBehind ==
  ASSUME NEW a \in Strings, NEW b \in Strings, NEW n \in Nat, Len(a) <= n
  PROVE  \E y \in Strings : Cut(Cat(a, b), n) = Cat(a, y)
<1>1. PICK c : c = Cat(a, b)
  OBVIOUS
<1>2. c \in Strings /\ Joins(c, a, b)
  BY <1>1, CatIs DEF Strings
<1>3. PICK k : k = IF Len(c) < n THEN Len(c) ELSE n
  OBVIOUS
<1>4. k \in Nat /\ k <= Len(a) + Len(b) /\ k >= Len(a)
  BY <1>2, <1>3 DEF Joins
<1>5. Cut(c, n) = SubSeq(c, 1, k)
  BY <1>3 DEF Cut
<1>6. SubSeq(c, 1, k) = Cat(a, SubSeq(b, 1, k - Len(a)))
  BY <1>1, <1>4, CatStart DEF Strings
<1>7. PICK j : j = k - Len(a)
  OBVIOUS
<1>8. j \in Nat /\ j <= Len(b)
  BY <1>2, <1>4, <1>7 DEF Joins
<1>9. SubSeq(b, 1, j) \in Strings
  BY <1>8, Split DEF Strings
<1> QED
  BY <1>1, <1>5, <1>6, <1>7, <1>9

\* A line of two fields, and one of three.
LEMMA BuiltLines ==
  ASSUME NEW w \in Symbols, NEW d \in Strings, NEW s \in Strings
  PROVE  /\ Len(<<w, Bar>>) = 2 /\ <<w, Bar>> \in Strings
         /\ \E y \in Strings : Build(<< <<w>>, s >>) = Cat(<<w, Bar>>, y)
         /\ Len(d) < MaxName =>
              \E y \in Strings :
                Build(<< <<w>>, d, s >>) = Cat(Append(Cat(<<w, Bar>>, d), Bar), y)
<1>1. PICK m : m = MaxMsg - 1
  OBVIOUS
<1>2. m \in Nat /\ m >= MaxName + 2
  BY <1>1, Sizes
<1>3. PICK o, p, b : o = <<w>> /\ p = <<w, Bar>> /\ b = <<Bar>>
  OBVIOUS
<1>4. /\ o \in Strings /\ p \in Strings /\ b \in Strings /\ Len(p) = 2
      /\ d \in Strings /\ s \in Strings /\ Bar \in Symbols /\ NL \in Symbols
      /\ p = Cat(o, b)
  BY <1>3, SymbolsAre DEF Strings, Cat
<1>5. PICK t : t = Append(s, NL)
  OBVIOUS
<1>6. t \in Strings /\ \A a \in Strings : Append(Cat(a, s), NL) = Cat(a, t)
  <2>1. t \in Strings
    BY <1>4, <1>5 DEF Strings
  <2>2. ASSUME NEW a \in Strings PROVE Append(Cat(a, s), NL) = Cat(a, t)
    BY <1>4, <1>5, CatAppend DEF Strings
  <2> QED
    BY <2>1, <2>2
<1>7. Glue(o, Bar, s) = Cat(p, s)
  BY <1>3, <1>4, Zenon DEF Glue, Cat
<1>8. Build(<<o, s>>) = Cut(Cat(p, t), m)
  <2>1. Build(<<o, s>>) = Cut(Append(Glue(o, Bar, s), NL), m)
    BY <1>1, <1>4, BuildIs DEF Strings
  <2> QED
    BY <1>4, <1>6, <1>7, <2>1
<1>9. \E y \in Strings : Build(<<o, s>>) = Cat(p, y)
  <2>1. Len(p) <= m
    BY <1>2, <1>4, Sizes
  <2>2. \E y \in Strings : Cut(Cat(p, t), m) = Cat(p, y)
    BY <1>2, <1>4, <1>6, <2>1, CutBehind
  <2> QED
    BY <1>8, <2>2
<1>10. ASSUME Len(d) < MaxName
       PROVE  \E y \in Strings : Build(<<o, d, s>>) = Cat(Append(Cat(p, d), Bar), y)
  <2>1. PICK x, a : x = Cat(p, d) /\ a = Append(x, Bar)
    OBVIOUS
  <2>2. x \in Strings /\ Len(x) = 2 + Len(d) /\ Len(d) \in Nat
    <3>1. x \in Strings /\ Len(x) = Len(p) + Len(d) /\ Len(d) \in Nat
      BY <1>4, <2>1, StringsAre
    <3> QED
      BY <1>4, <3>1
  <2>3. a \in Strings /\ Len(a) = 3 + Len(d)
    BY <1>4, <2>1, <2>2 DEF Strings
  <2>4. Glue(o, Bar, d) = x
    BY <1>3, <1>4, <2>1, Zenon DEF Glue, Cat
  <2>5. a = Cat(x, b)
    BY <1>3, <2>1, <2>2 DEF Strings, Cat
  <2>6. Glue(x, Bar, s) = Cat(a, s)
    BY <1>3, <2>5, Zenon DEF Glue, Cat
  <2>7. Build(<<o, d, s>>) = Cut(Append(Glue(Glue(o, Bar, d), Bar, s), NL), m)
    <3>1. o \in Seq(Symbols) /\ d \in Seq(Symbols) /\ s \in Seq(Symbols)
      BY <1>4 DEF Strings
    <3> QED
      BY <1>1, <3>1, BuildIs
  <2>8. Build(<<o, d, s>>) = Cut(Cat(a, t), m)
    BY <1>6, <2>3, <2>4, <2>6, <2>7
  <2>9. Len(a) <= m
    BY <1>2, <1>10, <2>2, <2>3, Sizes
  <2> QED
    <3>1. \E y \in Strings : Cut(Cat(a, t), m) = Cat(a, y)
      BY <1>2, <1>6, <2>3, <2>9, CutBehind
    <3> QED
      BY <2>1, <2>8, <3>1
<1> QED
  BY <1>3, <1>4, <1>9, <1>10

\* What is scanned of a field that ends neither the line nor the scan.
Letters == Symbols \ {NL, Bar, Backslash}

\* The scan is in field k.
InField(st, k) == st \in Scans /\ ~st.stopped /\ ~st.escaped /\ st.at = k

\* A letter goes into the field, and a bar ends it.
LEMMA ScanLetter ==
  ASSUME NEW k \in 1 .. 3, NEW st, InField(st, k)
  PROVE  /\ \A ch \in Letters : Len(st.fields[k]) < MaxMsg - 1 =>
              InField(Scan(st, ch), k) /\ IsPut(st, Scan(st, ch), ch)
         /\ k < 3 => InField(Scan(st, Bar), k + 1) /\ Scan(st, Bar).fields = st.fields
<1>0. st \in Scans /\ ~st.stopped /\ ~st.escaped /\ st.at = k
  BY DEF InField
<1>1. ASSUME NEW ch \in Symbols
      PROVE  Scan(st, ch) =
               CASE ch = NL -> [st EXCEPT !.stopped = TRUE]
                 [] ch = Backslash -> [st EXCEPT !.escaped = TRUE]
                 [] ch = Bar -> [st EXCEPT !.at = @ + 1, !.stopped = st.at = 3]
                 [] OTHER -> IF Len(st.fields[st.at]) < MaxMsg - 1
                             THEN Put(st, ch) ELSE st
  BY <1>0, Zenon DEF Scan
<1>2. ASSUME NEW ch \in Letters, Len(st.fields[k]) < MaxMsg - 1
      PROVE  InField(Scan(st, ch), k) /\ IsPut(st, Scan(st, ch), ch)
  <2>1. ch \in Symbols /\ ch # NL /\ ch # Backslash /\ ch # Bar
    BY Zenon DEF Letters
  <2>2. Scan(st, ch) = Put(st, ch)
    BY <1>0, <1>1, <1>2, <2>1, Zenon
  <2>3. Put(st, ch) \in Scans /\ IsPut(st, Put(st, ch), ch)
    BY <1>0, <2>1, PutIs
  <2> QED
    BY <1>0, <2>2, <2>3 DEF InField, IsPut
<1>3. ASSUME k < 3 PROVE InField(Scan(st, Bar), k + 1) /\ Scan(st, Bar).fields = st.fields
  <2>1. Bar \in Symbols /\ Bar # NL /\ Bar # Backslash
    BY SymbolsAre
  <2>2. Scan(st, Bar) = [st EXCEPT !.at = @ + 1, !.stopped = st.at = 3]
    BY <1>1, <2>1, Zenon
  <2>3. PICK tt : tt = Scan(st, Bar)
    OBVIOUS
  <2>4. tt \in Scans
    BY <1>0, <2>1, <2>3, ScanIs
  <2>5. tt.fields = st.fields /\ tt.at = k + 1 /\ tt.escaped = FALSE /\ tt.stopped = FALSE
    BY <1>0, <1>3, <2>2, <2>3 DEF Scans, Turns
  <2> QED
    BY <2>3, <2>4, <2>5 DEF InField
<1> QED
  BY <1>2, <1>3

\* Letters fill the field,
LEMMA FieldIs ==
  ASSUME NEW x \in Strings, NEW k \in 1 .. 3, InField(Scanned(x), k),
         Scanned(x).fields[k] = <<>>, NEW y \in Seq(Letters), Len(y) < MaxMsg
  PROVE  /\ InField(Scanned(Cat(x, y)), k) /\ Scanned(Cat(x, y)).fields[k] = y
         /\ \A i \in 1 .. 3 : i # k => Scanned(Cat(x, y)).fields[i] = Scanned(x).fields[i]
<1> DEFINE Fills(z) ==
      /\ InField(Scanned(Cat(x, z)), k) /\ Scanned(Cat(x, z)).fields[k] = z
      /\ \A i \in 1 .. 3 : i # k => Scanned(Cat(x, z)).fields[i] = Scanned(x).fields[i]
<1> DEFINE T == {z \in Seq(Letters) : Len(z) < MaxMsg => Fills(z)}
<1>1. <<>> \in T
  <2>1. Cat(x, <<>>) = x
    BY CatEmpty DEF Strings
  <2> QED
    BY <2>1
<1>2. ASSUME NEW z \in Seq(Letters), NEW m \in Letters, z \in T PROVE Append(z, m) \in T
  <2> DEFINE r == Append(z, m)
  <2>1. r \in Seq(Letters) /\ Len(r) = Len(z) + 1 /\ Len(z) \in Nat
    OBVIOUS
  <2>2. SUFFICES ASSUME Len(r) < MaxMsg PROVE Fills(r)
    BY <2>1
  <2>3. Fills(z) /\ Len(z) < MaxMsg - 1 /\ Len(z) < MaxMsg
    BY <1>2, <2>1, <2>2, Sizes
  <2>4. PICK c, st, tt : c = Cat(x, z) /\ st = Scanned(c) /\ tt = Scan(st, m)
    OBVIOUS
  <2>5. z \in Strings /\ m \in Symbols
    <3>1. Letters \subseteq Symbols
      BY Zenon DEF Letters
    <3> QED
      BY <3>1, SeqMonotonic DEF Strings
  <2>6. c \in Strings /\ Cat(x, r) = Append(c, m)
    BY <2>4, <2>5, StringsAre
  <2>7. Scanned(Cat(x, r)) = tt
    BY <2>4, <2>5, <2>6, ScannedAppend
  <2>8. /\ InField(st, k) /\ st.fields[k] = z
        /\ \A i \in 1 .. 3 : i # k => st.fields[i] = Scanned(x).fields[i]
    BY <2>3, <2>4
  <2>9. InField(tt, k) /\ IsPut(st, tt, m) /\ st.at = k
    BY <2>3, <2>4, <2>8, ScanLetter DEF InField
  <2>10. tt.fields[k] = r /\ \A i \in 1 .. 3 : i # k => tt.fields[i] = st.fields[i]
    BY <2>8, <2>9 DEF IsPut
  <2> HIDE DEF r
  <2> QED
    BY <2>7, <2>8, <2>9, <2>10
<1> HIDE DEF T
<1>3. Seq(Letters) \subseteq T
  BY <1>1, <1>2, SeqSetInduction
<1>4. y \in T
  BY <1>3
<1> QED
  BY <1>4 DEF T

\* and what has been left behind is not written any more.
LEMMA KeptIs ==
  ASSUME NEW x \in Strings, NEW k \in 1 .. 3, Scanned(x).at > k, NEW y \in Strings
  PROVE  Scanned(Cat(x, y)).fields[k] = Scanned(x).fields[k]
<1> DEFINE Stays(z) == /\ Scanned(Cat(x, z)).at > k
                      /\ Scanned(Cat(x, z)).fields[k] = Scanned(x).fields[k]
<1> DEFINE T == {z \in Strings : Stays(z)}
<1>1. <<>> \in T
  <2>1. Cat(x, <<>>) = x /\ <<>> \in Strings
    BY CatEmpty DEF Strings
  <2> QED
    BY <2>1
<1>2. ASSUME NEW z \in Strings, NEW m \in Symbols, z \in T PROVE Append(z, m) \in T
  <2>1. PICK r, c, st, tt : /\ r = Append(z, m) /\ c = Cat(x, z) /\ st = Scanned(c)
                            /\ tt = Scan(st, m)
    OBVIOUS
  <2>2. r \in Strings /\ c \in Strings /\ Cat(x, r) = Append(c, m)
    BY <2>1, StringsAre
  <2>3. Scanned(Cat(x, r)) = tt /\ st \in Scans
    BY <2>1, <2>2, ScannedAppend, ScannedIs DEF Turned
  <2>4. st.at > k /\ st.fields[k] = Scanned(x).fields[k] /\ st.at \in Nat
    BY <1>2, <2>1, <2>3 DEF Scans, Turns
  <2>5. IsPast(st, tt) \/ \E d \in Symbols : IsPut(st, tt, d)
    BY <2>1, <2>3, ScanIs
  <2>6. tt.at > k /\ tt.fields[k] = st.fields[k]
    BY <2>4, <2>5 DEF IsPast, IsPut
  <2> QED
    BY <2>1, <2>2, <2>3, <2>4, <2>6
<1> HIDE DEF T
<1>3. Strings \subseteq T
  BY <1>1, <1>2, SeqSetInduction DEF Strings
<1> QED
  BY <1>3 DEF T

\* The first field of a line that starts with a word, and the second.
LEMMA FieldsAre ==
  ASSUME NEW w \in Words, NEW d \in Seq(Letters), Len(d) < MaxMsg, NEW y \in Strings
  PROVE  /\ ParseMessage(Append(<<w>>, NL)).type = <<w>>
         /\ ParseMessage(Cat(<<w, Bar>>, y)).type = <<w>>
         /\ LET msg == ParseMessage(Cat(Append(Cat(<<w, Bar>>, d), Bar), y))
            IN  msg.type = <<w>> /\ msg.arg1 = d
<1>1. PICK e, o, p, x, a : /\ e = <<>> /\ o = <<w>> /\ p = <<w, Bar>> /\ x = Cat(p, d)
                           /\ a = Append(x, Bar)
  OBVIOUS
<1>2. w \in Letters /\ w \in Symbols
  BY WordsAre, Zenon DEF Letters, Words, Symbols
<1>3. Letters \subseteq Symbols /\ Bar \in Symbols /\ NL \in Symbols
  BY SymbolsAre DEF Letters
<1>4. /\ e \in Strings /\ o \in Seq(Letters) /\ o \in Strings /\ p \in Strings
      /\ p = Append(o, Bar) /\ Cat(e, o) = o /\ Len(o) = 1
  <2>1. /\ e \in Strings /\ o \in Seq(Letters) /\ o \in Strings /\ p = Append(o, Bar)
        /\ Len(o) = 1
    BY <1>1, <1>2, Singles DEF Strings
  <2>2. p \in Strings
    BY <1>3, <2>1, StringsAre
  <2>3. Cat(e, o) = o
    BY <1>1, <2>1, CatEmpty DEF Strings
  <2> QED
    BY <2>1, <2>2, <2>3
<1>5. d \in Strings
  BY <1>3, SeqMonotonic DEF Strings
<1>6. x \in Strings /\ a \in Strings
  BY <1>1, <1>3, <1>4, <1>5, StringsAre
<1>7. /\ Scanned(e) = Start /\ InField(Start, 1)
      /\ Start.fields[1] = e /\ Start.fields[2] = e
  <2>1. Scanned(e) = Start /\ Start \in Scans
    BY <1>1, ScannedAppend, ScanStart DEF Turned
  <2>2. Start = [fields |-> <<e, e, e>>, at |-> 1, escaped |-> FALSE, stopped |-> FALSE]
    BY <1>1 DEF Start
  <2> QED
    BY <2>1, <2>2 DEF InField
<1>8. InField(Scanned(o), 1) /\ Scanned(o).fields[1] = o /\ Scanned(o).fields[2] = e
  <2>1. 1 \in 1 .. 3 /\ 2 \in 1 .. 3 /\ 1 # 2 /\ Len(o) < MaxMsg
    BY <1>4, Sizes
  <2>2. InField(Scanned(e), 1) /\ Scanned(e).fields[1] = <<>>
    BY <1>1, <1>7
  <2>3. /\ InField(Scanned(Cat(e, o)), 1) /\ Scanned(Cat(e, o)).fields[1] = o
        /\ \A i \in 1 .. 3 : i # 1 => Scanned(Cat(e, o)).fields[i] = Scanned(e).fields[i]
    <3>1. e \in Strings /\ o \in Seq(Letters) /\ Len(o) < MaxMsg /\ 1 \in 1 .. 3
      BY <1>4, <2>1
    <3> QED
      BY <2>2, <3>1, FieldIs
  <2> QED
    BY <1>4, <1>7, <2>1, <2>3
<1>9. InField(Scanned(p), 2) /\ Scanned(p).fields = Scanned(o).fields
  BY <1>3, <1>4, <1>8, ScannedAppend, ScanLetter
<1>10. InField(Scanned(x), 2) /\ Scanned(x).fields[1] = o /\ Scanned(x).fields[2] = d
  <2>1. 1 \in 1 .. 3 /\ 2 \in 1 .. 3 /\ 1 # 2
    OBVIOUS
  <2>2. Scanned(p).fields[2] = <<>>
    BY <1>1, <1>8, <1>9
  <2>3. /\ InField(Scanned(Cat(p, d)), 2) /\ Scanned(Cat(p, d)).fields[2] = d
        /\ \A i \in 1 .. 3 : i # 2 => Scanned(Cat(p, d)).fields[i] = Scanned(p).fields[i]
    BY <1>4, <1>9, <2>1, <2>2, FieldIs
  <2> QED
    BY <1>1, <1>8, <1>9, <2>1, <2>3
<1>11. InField(Scanned(a), 3) /\ Scanned(a).fields = Scanned(x).fields
  BY <1>1, <1>3, <1>6, <1>10, ScannedAppend, ScanLetter
<1>12. \A q : /\ ParseMessage(q).type = Scanned(q).fields[1]
              /\ ParseMessage(q).arg1 = Scanned(q).fields[2]
  <2>1. TAKE q
  <2>2. PICK f : f = Scanned(q).fields
    OBVIOUS
  <2>3. ParseMessage(q) = [type |-> f[1], arg1 |-> f[2], arg2 |-> f[3]]
    BY <2>2, Zenon DEF ParseMessage, Scanned, Scanning
  <2> QED
    BY <2>2, <2>3
<1>13. Scanned(Append(o, NL)).fields[1] = o
  BY <1>3, <1>4, <1>8, ScannedAppend, ScanIs DEF InField
<1>14. Scanned(Cat(p, y)).fields[1] = o
  BY <1>4, <1>8, <1>9, KeptIs DEF InField
<1>15. Scanned(Cat(a, y)).fields[1] = o /\ Scanned(Cat(a, y)).fields[2] = d
  BY <1>6, <1>10, <1>11, KeptIs DEF InField
<1> QED
  BY <1>1, <1>12, <1>13, <1>14, <1>15

-----------------------------------------------------------------------------
(* Commands that are no error.                                             *)

\* The list has no keyword but its own.
LEMMA ListPlain ==
  ASSUME Untyped("ERROR")
  PROVE  TheList \in Seq(Plain("ERROR"))
<1>1. PICK R : R = Seq(Plain("ERROR"))
  OBVIOUS
<1>2. R \subseteq Seq(Symbols) /\ Semicolon \in Plain("ERROR")
  BY <1>1, PlainIs DEF Strings
<1>3. \A i \in 1 .. Len(Seats) : Seats[i] \in R
  BY <1>1, NamePlain, SeatsAre DEF Online, Texts
<1>4. Seats \in Seq(R) /\ Seats[1] \in R /\ Len(Seats) \in Nat /\ Len(Seats) > 0
  BY <1>3, SeatsAre DEF Texts
<1>5. SubSeq(Seats, 2, Len(Seats)) \in Seq(R)
  BY <1>4, SubSeqIs
<1>6. ASSUME NEW s \in R, NEW t \in R PROVE Gluing(Semicolon)[<<s, t>>] \in R
  <2>1. Gluing(Semicolon)[<<s, t>>] = s \o <<Semicolon>> \o t
    BY <1>2 DEF Gluing
  <2> QED
    BY <1>1, <1>2, <2>1
<1>7. Joined(Len(Seats)) \in R
  BY <1>4, <1>5, <1>6, FoldType DEF Joined
<1>8. PICK n \in Nat : n = MaxMsg - 1
  BY Sizes
<1>9. ListUsernames \in R
  BY <1>1, <1>7, <1>8, JoinedIs, CutIs DEF ListUsernames
<1>10. <<"LIST_OK">> \in R
  BY <1>1, PlainIs, Singles DEF Words
<1> QED
  BY <1>1, <1>9, <1>10, BuildPlain DEF TheList

\* What the server does what it says for.
LEMMA ServedAre ==
  ASSUME NEW y \in Strings
  PROVE  /\ Served(Append(<<"LIST">>, NL)) /\ Served(Cat(<<"BROADCAST", Bar>>, y))
         /\ \A d \in Online : d \in Seq(Letters) /\ Len(d) < MaxMsg =>
                             Served(Cat(Append(Cat(<<"MSG", Bar>>, d), Bar), y))
<1>1. "LIST" \in Words /\ "MSG" \in Words /\ "BROADCAST" \in Words
  BY Zenon DEF Words
<1>2. PICK e \in Seq(Letters) : Len(e) < MaxMsg
  <2>1. <<>> \in Seq(Letters) /\ Len(<<>>) = 0
    OBVIOUS
  <2>2. 0 < MaxMsg
    BY Sizes
  <2> QED
    BY <2>1, <2>2
<1>3. ASSUME NEW w \in Words
      PROVE  /\ ParseMessage(Append(<<w>>, NL)).type = <<w>>
             /\ ParseMessage(Cat(<<w, Bar>>, y)).type = <<w>>
  BY <1>2, FieldsAre, Zenon
<1>4. ASSUME NEW d \in Online, d \in Seq(Letters), Len(d) < MaxMsg,
             NEW c, c = Cat(Append(Cat(<<"MSG", Bar>>, d), Bar), y)
      PROVE  Served(c)
  <2>1. PICK msg : msg = ParseMessage(c)
    OBVIOUS
  <2>2. msg.type = <<"MSG">> /\ msg.arg1 = d
    BY <1>1, <1>4, <2>1, FieldsAre, Zenon
  <2> QED
    BY <2>1, <2>2, Zenon DEF Served
<1>5. Served(Append(<<"LIST">>, NL))
  BY <1>1, <1>3, Zenon DEF Served
<1>6. Served(Cat(<<"BROADCAST", Bar>>, y))
  BY <1>1, <1>3, Zenon DEF Served
<1> QED
  BY <1>4, <1>5, <1>6, Zenon

\* All names are shorter than a name may be (common.h:20).
ShortNames == \A name \in Online : Len(name) < MaxName

\* A message to somebody who is online, and every other command, is served.
LEMMA KnownServed ==
  ASSUME ShortNames, NEW piece \in Strings, ToProto(piece) # <<>>, ~ToNobody(piece)
  PROVE  Served(ToProto(piece))
<1> DEFINE line == SkipSpaces(piece)
<1> DEFINE args == SkipSpaces(Tail(line))
<1> DEFINE name == Before(args, Space)
<1> DEFINE dest == Dest(name)
<1> DEFINE said == Text(SkipSpaces(After(args, Space)))
<1>1. line # <<>>
  BY DEF ToProto
<1>2. /\ args \in Strings /\ name \in Strings /\ said \in Strings
      /\ Text(args) \in Strings
  <2>1. line \in Strings
    BY SkipIs DEF Strings
  <2>2. Tail(line) \in Strings
    BY <1>1, <2>1, HeadTailProperties DEF Strings
  <2>3. args \in Strings
    BY <2>2, SkipIs DEF Strings
  <2> HIDE DEF args
  <2>4. name \in Strings /\ SkipSpaces(After(args, Space)) \in Strings
    BY <2>3, BeforeIs, AfterIs, SkipIs DEF Strings
  <2> QED
    BY <2>3, <2>4, TextKeeps DEF Strings
<1>3. ToProto(piece) =
        CASE Head(line) = "/list" -> Build(<< <<"LIST">> >>)
          [] Head(line) = "/msg" /\ dest # <<>> /\ said # <<>> ->
               Build(<< <<"MSG">>, dest, said >>)
          [] Head(line) = "/all" /\ Text(args) # <<>> ->
               Build(<< <<"BROADCAST">>, Text(args) >>)
          [] OTHER -> <<>>
  BY <1>1, Zenon DEF ToProto
<1>4. Head(line) = "/msg" => name \in Online /\ Len(name) < MaxName
  <2>1. Head(line) = "/msg" => name \in Online
    BY Zenon DEF ToNobody
  <2> HIDE DEF name, line
  <2> QED
    BY <2>1 DEF ShortNames
<1> HIDE DEF line, args, name, dest, said
<1>5. "LIST" \in Symbols /\ "MSG" \in Symbols /\ "BROADCAST" \in Symbols
  BY Zenon DEF Symbols
<1>6. CASE ToProto(piece) = Build(<< <<"LIST">> >>)
  <2>1. PICK a, n : a = <<"LIST">> /\ n = MaxMsg - 1
    OBVIOUS
  <2>2. a \in Seq(Symbols) /\ Append(a, NL) \in Seq(Symbols) /\ Len(Append(a, NL)) = 2
        /\ n \in Nat /\ n >= 2
    BY <1>5, <2>1, Singles, SymbolsAre, Sizes
  <2>3. Build(<<a>>) = Cut(Append(a, NL), n)
    BY <2>1, <2>2, BuildIs
  <2>4. Build(<<a>>) = Append(a, NL)
    <3>1. PICK b : b = Append(a, NL)
      OBVIOUS
    <3>2. b \in Seq(Symbols) /\ Len(b) <= n
      BY <2>2, <3>1
    <3>3. Cut(b, n) = b
      BY <2>2, <3>2, CutIs
    <3> QED
      BY <2>3, <3>1, <3>3
  <2>5. ToProto(piece) = Append(<<"LIST">>, NL)
    BY <1>6, <2>1, <2>4
  <2> QED
    BY <1>2, <2>5, ServedAre
<1>7. CASE ToProto(piece) = Build(<< <<"BROADCAST">>, Text(args) >>)
  <2>1. PICK t \in Strings : t = Text(args)
    BY <1>2
  <2>2. PICK y \in Strings : Build(<< <<"BROADCAST">>, t >>) = Cat(<<"BROADCAST", Bar>>, y)
    BY <1>5, BuiltLines, Zenon
  <2> QED
    BY <1>7, <2>1, <2>2, ServedAre
<1>8. CASE Head(line) = "/msg" /\ ToProto(piece) = Build(<< <<"MSG">>, dest, said >>)
  <2>1. name \in Online /\ Len(name) < MaxName /\ Len(name) \in Nat /\ MaxName \in Nat
    BY <1>2, <1>4, <1>8, Sizes DEF Strings
  <2>2. dest = name
    <3>1. PICK n \in Nat : n = MaxName - 1
      BY Sizes
    <3>2. Len(name) <= n
      BY <2>1, <3>1
    <3>3. Cut(name, n) = name
      BY <1>2, <3>2, CutIs DEF Strings
    <3> QED
      BY <3>1, <3>3 DEF dest, Dest
  <2>3. name \in Seq(Letters) /\ Len(name) < MaxMsg
    <3>1. PICK i \in DOMAIN Seats : name = Seats[i]
      BY <2>1 DEF Online
    <3>2. name \in Seq(Alphabet \ {Bar, Semicolon, Space, Backslash})
      BY <3>1, SeatsAssumption DEF AreNames
    <3>3. Alphabet \ {Bar, Semicolon, Space, Backslash} \subseteq Letters
      BY AlphabetAssumption DEF Letters, Symbols
    <3>4. name \in Seq(Letters)
      BY <3>2, <3>3, SeqMonotonic
    <3> QED
      BY <2>1, <3>4, Sizes
  <2>4. PICK y \in Strings : Build(<< <<"MSG">>, name, said >>)
                               = Cat(Append(Cat(<<"MSG", Bar>>, name), Bar), y)
    <3>1. PICK w, d, t : w = "MSG" /\ d = name /\ t = said
      OBVIOUS
    <3>2. w \in Symbols /\ d \in Strings /\ t \in Strings /\ Len(d) < MaxName
      BY <1>2, <1>5, <2>1, <3>1
    <3>3. \E y \in Strings : Build(<< <<w>>, d, t >>) = Cat(Append(Cat(<<w, Bar>>, d), Bar), y)
      BY <3>2, BuiltLines, Zenon
    <3> QED
      BY <3>1, <3>3
  <2>5. ToProto(piece) = Cat(Append(Cat(<<"MSG", Bar>>, name), Bar), y)
    BY <1>8, <2>2, <2>4
  <2> QED
    BY <2>1, <2>3, <2>5, ServedAre, Zenon
<1> QED
  BY <1>3, <1>6, <1>7, <1>8, Zenon

\* A line without a message to nobody.
Blameless(l) == \A n \in DOMAIN FgetsPieces(l) : ~ToNobody(FgetsPieces(l)[n])

\* All its commands are served.
LEMMA MeantServed ==
  ASSUME ShortNames, NEW q \in Texts, \A i \in DOMAIN q : Blameless(q[i])
  PROVE  AllCommands(q) \in Seq({c \in Strings : Served(c)})
<1> DEFINE F == {c \in Strings : Served(c)}
<1> DEFINE G == {l \in Strings : Blameless(l)}
<1>1. ASSUME NEW l \in G PROVE Commands(l) \in Seq(F)
  <2> DEFINE E == {p \in Strings : ~ToNobody(p)}
  <2>1. Pieces(l, Full) \in Texts
    BY PiecesType
  <2>2. Pieces(l, Full) = FgetsPieces(l)
    BY Zenon DEF FgetsPieces, Full
  <2>3. \A n \in DOMAIN Pieces(l, Full) : Pieces(l, Full)[n] \in E
    BY <2>1, <2>2 DEF Texts, Blameless
  <2>4. Pieces(l, Full) \in Seq(E)
    <3>1. PICK p, R : p = Pieces(l, Full) /\ R = E
      OBVIOUS
    <3>2. p \in Texts /\ \A n \in DOMAIN p : p[n] \in R
      BY <2>1, <2>3, <3>1, Zenon
    <3>3. p \in Seq(R)
      BY <3>2 DEF Texts
    <3> QED
      BY <3>1, <3>3
  <2>5. ASSUME NEW p \in E PROVE Ordered[p] \in Seq(F)
    <3>1. PICK c \in Strings : c = ToProto(p)
      BY ToProtoType
    <3>2. p \in Seq(Symbols)
      BY DEF Strings
    <3>3. Ordered[p] = IF c = <<>> THEN <<>> ELSE <<c>>
      BY <3>1, <3>2 DEF Ordered
    <3>4. c # <<>> => c \in F
      BY <3>1, KnownServed
    <3> HIDE DEF F
    <3> QED
      BY <3>3, <3>4, Singles
  <2>6. FlatMap(Strings, Ordered, Pieces(l, Full)) \in Seq(F)
    <3>1. E \subseteq Strings /\ F \subseteq Strings
      OBVIOUS
    <3> HIDE DEF E, F
    <3> QED
      BY <2>4, <2>5, <3>1, OrderedIs, FlatMapKeeps
  <2> QED
    BY <2>6, OrderedIs
<1>2. \A l \in Strings : CommandsOf[l] = Commands(l) /\ Commands(l) \in Texts
  BY CommandsAre DEF CommandsOf, Strings
<1>3. CommandsOf \in Maps(Strings, Strings)
  <2>1. CommandsOf = [l \in Strings |-> Commands(l)]
    BY Zenon DEF CommandsOf, Strings
  <2> QED
    BY <1>2, <2>1 DEF Maps, Texts
<1>4. q \in Seq(G) /\ G \subseteq Strings /\ F \subseteq Strings
  <2>1. \A i \in DOMAIN q : q[i] \in G
    BY DEF Texts
  <2> HIDE DEF G
  <2>2. q \in Seq(G)
    BY <2>1 DEF Texts
  <2> QED
    BY <2>2 DEF G
<1> HIDE DEF F, G
<1>5. \A l \in G : CommandsOf[l] \in Seq(F)
  BY <1>1, <1>2, <1>4
<1>6. FlatMap(Strings, CommandsOf, q) \in Seq(F)
  BY <1>3, <1>4, <1>5, FlatMapKeeps
<1> QED
  BY <1>6 DEF AllCommands, Strings, F

=============================================================================
