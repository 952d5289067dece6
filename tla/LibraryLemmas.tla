---------------------------- MODULE LibraryLemmas ----------------------------
(***************************************************************************)
(* Facts about sequences and finite sets that several proofs use, and      *)
(* induction and recursion.  The library has those for operators, which    *)
(* the provers cannot instantiate; here they are about sets and functions. *)
(***************************************************************************)
EXTENDS Integers, Sequences, Functions, FiniteSets, FiniteSetTheorems, SequenceTheorems,
        WellFoundedInduction, TLAPS

\* What a sequence holds is its head and what its tail holds.
LEMMA RangeTail ==
  ASSUME NEW S, NEW s \in Seq(S), s # <<>>
  PROVE  /\ Tail(s) \in Seq(S) /\ Head(s) \in S
         /\ Range(s) = {Head(s)} \cup Range(Tail(s))
<1>1. Tail(s) \in Seq(S) /\ Head(s) \in S /\ Head(s) = s[1] /\ Len(s) \in Nat \ {0}
  OBVIOUS
<1>2. Len(Tail(s)) = Len(s) - 1 /\ \A i \in 1 .. Len(s) - 1 : Tail(s)[i] = s[i + 1]
  OBVIOUS
<1>3. DOMAIN s = 1 .. Len(s) /\ DOMAIN Tail(s) = 1 .. Len(s) - 1
  BY <1>1, <1>2
<1>4. ASSUME NEW x \in Range(s) PROVE x \in {Head(s)} \cup Range(Tail(s))
  <2>1. PICK i \in 1 .. Len(s) : x = s[i]
    BY <1>3, <1>4 DEF Range
  <2>2. CASE i = 1
    BY <2>1, <2>2, <1>1
  <2>3. CASE i # 1
    <3>1. i - 1 \in DOMAIN Tail(s) /\ Tail(s)[i - 1] = s[i]
      BY <2>1, <2>3, <1>1, <1>2, <1>3
    <3> QED BY <3>1, <2>1 DEF Range
  <2> QED BY <2>2, <2>3
<1>5. Range(Tail(s)) \subseteq Range(s)
  <2>1. ASSUME NEW i \in DOMAIN Tail(s) PROVE Tail(s)[i] = s[i + 1] /\ i + 1 \in DOMAIN s
    BY <1>1, <1>2, <1>3
  <2> QED BY <2>1 DEF Range
<1>6. Head(s) \in Range(s)
  BY <1>1, <1>3 DEF Range
<1> QED BY <1>1, <1>4, <1>5, <1>6

\* A concatenation holds what its parts hold.
LEMMA RangeConcat ==
  ASSUME NEW S, NEW s \in Seq(S), NEW t \in Seq(S)
  PROVE  s \o t \in Seq(S) /\ Range(s \o t) = Range(s) \cup Range(t)
<1>1. /\ s \o t \in Seq(S)
      /\ DOMAIN (s \o t) = 1 .. Len(s) + Len(t)
      /\ DOMAIN s = 1 .. Len(s) /\ DOMAIN t = 1 .. Len(t)
      /\ Len(s) \in Nat /\ Len(t) \in Nat
  OBVIOUS
<1>2. \A i \in 1 .. Len(s) + Len(t) :
        (s \o t)[i] = IF i <= Len(s) THEN s[i] ELSE t[i - Len(s)]
  OBVIOUS
<1>3. Range(s \o t) \subseteq Range(s) \cup Range(t)
  <2>1. ASSUME NEW i \in 1 .. Len(s) + Len(t)
        PROVE  \/ i \in DOMAIN s /\ (s \o t)[i] = s[i]
               \/ i - Len(s) \in DOMAIN t /\ (s \o t)[i] = t[i - Len(s)]
    BY <1>1, <1>2
  <2> QED BY <2>1, <1>1 DEF Range
<1>4. Range(s) \subseteq Range(s \o t)
  <2>1. ASSUME NEW i \in DOMAIN s PROVE i \in DOMAIN (s \o t) /\ (s \o t)[i] = s[i]
    BY <1>1, <1>2
  <2> QED BY <2>1 DEF Range
<1>5. Range(t) \subseteq Range(s \o t)
  <2>1. ASSUME NEW i \in DOMAIN t
        PROVE  i + Len(s) \in DOMAIN (s \o t) /\ (s \o t)[i + Len(s)] = t[i]
    BY <1>1, <1>2
  <2> QED BY <2>1 DEF Range
<1> QED BY <1>1, <1>3, <1>4, <1>5

\* What one step may add to a finite set bounded by a counter.
LEMMA BoundStep ==
  ASSUME NEW S, NEW T, NEW x, NEW m \in Nat,
         IsFiniteSet(S), Cardinality(S) <= m
  PROVE  /\ T \subseteq S => IsFiniteSet(T) /\ Cardinality(T) <= m
         /\ T \subseteq S \cup {x}
              => IsFiniteSet(T) /\ Cardinality(T) <= m + 1
<1>1. /\ IsFiniteSet(S \cup {x})
      /\ Cardinality(S) \in Nat /\ Cardinality(S \cup {x}) \in Nat
      /\ Cardinality(S \cup {x}) <= Cardinality(S) + 1
  BY FS_AddElement, FS_CardinalityType
<1>2. T \subseteq S => /\ IsFiniteSet(T) /\ Cardinality(T) \in Nat
                       /\ Cardinality(T) <= Cardinality(S)
  BY FS_Subset, FS_CardinalityType
<1>3. T \subseteq S \cup {x}
        => /\ IsFiniteSet(T) /\ Cardinality(T) \in Nat
           /\ Cardinality(T) <= Cardinality(S \cup {x})
  BY <1>1, FS_Subset, FS_CardinalityType
<1> QED BY <1>1, <1>2, <1>3


\* A sequence that has the elements of two, one after the other.
LEMMA Joined ==
  ASSUME NEW S, NEW u \in Seq(S), NEW v \in Seq(S), NEW t \in Seq(S), Len(t) = Len(u) + Len(v),
         \A i \in 1..Len(u) : t[i] = u[i], \A i \in 1..Len(v) : t[Len(u) + i] = v[i]
  PROVE  u \o v = t
<1> DEFINE s == u \o v
<1>1. s \in Seq(S) /\ Len(s) = Len(t)
  OBVIOUS
<1>2. \A i \in 1..Len(s) : s[i] = t[i]
  <2> TAKE i \in 1..Len(s)
  <2>1. CASE i <= Len(u)
    BY <2>1
  <2>2. CASE i > Len(u)
    <3> DEFINE j == i - Len(u)
    <3>1. j \in 1..Len(v) /\ i = Len(u) + j /\ s[i] = v[j]
      BY <2>2
    <3>2. t[Len(u) + j] = v[j]
      BY <3>1
    <3> QED
      BY <3>1, <3>2
  <2> QED
    BY <2>1, <2>2
<1> HIDE DEF s
<1>3. s = t
  BY <1>1, <1>2, SeqEqual
<1> QED
  BY <1>3 DEF s

\* The head of a sequence that goes on is its own.
LEMMA JoinedTail ==
  ASSUME NEW S, NEW s \in Seq(S), NEW v \in Seq(S), s # <<>>
  PROVE  s \o v \in Seq(S) /\ s \o v # <<>> /\ Head(s \o v) = Head(s) /\ Tail(s \o v) = Tail(s) \o v
<1>1. /\ s \o v \in Seq(S) /\ Len(s) \in Nat \ {0} /\ Len(v) \in Nat /\ Len(s \o v) = Len(s) + Len(v)
      /\ \A i \in 1..Len(s) : (s \o v)[i] = s[i]
      /\ \A i \in 1..Len(v) : (s \o v)[Len(s) + i] = v[i]
  <2>1. s \o v \in Seq(S) /\ Len(s) \in Nat \ {0} /\ Len(v) \in Nat /\ Len(s \o v) = Len(s) + Len(v)
    OBVIOUS
  <2>2. \A i \in 1..Len(s) : (s \o v)[i] = s[i]
    OBVIOUS
  <2>3. \A i \in 1..Len(v) : (s \o v)[Len(s) + i] = v[i]
    OBVIOUS
  <2> QED
    BY <2>1, <2>2, <2>3
<1>2. s \o v # <<>> /\ Head(s \o v) = Head(s)
  BY <1>1
<1> DEFINE t == Tail(s \o v)
<1>3. t \in Seq(S) /\ Tail(s) \in Seq(S) /\ Len(Tail(s)) = Len(s) - 1 /\ Len(t) = Len(s) - 1 + Len(v)
  BY <1>1, <1>2
<1>4. \A i \in 1..Len(Tail(s)) : t[i] = Tail(s)[i]
  <2> TAKE i \in 1..Len(Tail(s))
  <2>1. i + 1 \in 1..Len(s) /\ i \in 1..Len(t) /\ Tail(s)[i] = s[i + 1]
    BY <1>1, <1>3
  <2>2. t[i] = (s \o v)[i + 1]
    BY <1>1, <1>2, <1>3, <2>1
  <2> QED
    BY <1>1, <2>1, <2>2
<1>5. \A i \in 1..Len(v) : t[Len(Tail(s)) + i] = v[i]
  <2> TAKE i \in 1..Len(v)
  <2>1. /\ Len(Tail(s)) + i + 1 = Len(s) + i /\ Len(Tail(s)) + i \in 1..Len(t)
    BY <1>1, <1>3
  <2>2. t[Len(Tail(s)) + i] = (s \o v)[Len(s) + i]
    BY <1>1, <1>2, <1>3, <2>1
  <2> QED
    BY <1>1, <2>2
<1> HIDE DEF t
<1>6. Tail(s) \o v = t
  BY <1>3, <1>4, <1>5, Joined
<1> QED
  BY <1>1, <1>2, <1>6 DEF t

-----------------------------------------------------------------------------
(* Slices of a sequence.                                                   *)

\* The elements after the first a, up to the b-th.
Slice(s, a, b) == SubSeq(s, a + 1, b)

\* What a slice is.
LEMMA SliceIs ==
  ASSUME NEW S, NEW s \in Seq(S), NEW a \in Nat, NEW b \in a..Len(s)
  PROVE  /\ Slice(s, a, b) \in Seq(S) /\ Len(Slice(s, a, b)) = b - a
         /\ \A i \in 1..b - a : Slice(s, a, b)[i] = s[a + i]
         /\ a = b => Slice(s, a, b) = <<>>
<1>1. \A i \in a + 1..b : s[i] \in S
  OBVIOUS
<1>2. /\ SubSeq(s, a + 1, b) \in Seq(S)
      /\ Len(SubSeq(s, a + 1, b)) = IF a + 1 <= b THEN b - (a + 1) + 1 ELSE 0
      /\ \A i \in 1..b - (a + 1) + 1 : SubSeq(s, a + 1, b)[i] = s[a + 1 + i - 1]
  <2>1. a + 1 \in Int /\ b \in Int
    OBVIOUS
  <2> QED
    BY <1>1, <2>1, SubSeqProperties
<1>3. \A i \in 1..b - a : i \in 1..b - (a + 1) + 1 /\ a + 1 + i - 1 = a + i
  OBVIOUS
<1>4. a = b => SubSeq(s, a + 1, b) = <<>>
  BY SubSeqEmpty
<1> QED
  BY <1>2, <1>3, <1>4 DEF Slice

\* The whole of a sequence.
LEMMA SliceAll ==
  ASSUME NEW S, NEW s \in Seq(S)
  PROVE  Slice(s, 0, Len(s)) = s
<1>1. SubSeq(s, 1, Len(s)) = s
  BY SubSeqFull
<1> QED
  BY <1>1 DEF Slice

\* Two slices next to each other.
LEMMA SliceJoin ==
  ASSUME NEW S, NEW s \in Seq(S), NEW a \in Nat, NEW b \in a..Len(s), NEW c \in b..Len(s)
  PROVE  Slice(s, a, b) \o Slice(s, b, c) = Slice(s, a, c)
<1>1. a + 1 \in 1..Len(s) + 1 /\ b \in (a + 1) - 1..Len(s) /\ c \in b..Len(s)
  OBVIOUS
<1> QED
  BY <1>1, ConcatAdjacentSubSeq DEF Slice

\* A slice of a slice.
LEMMA SliceOfSlice ==
  ASSUME NEW S, NEW s \in Seq(S), NEW a \in Nat, NEW b \in a..Len(s),
         NEW c \in Nat, NEW d \in c..b - a
  PROVE  Slice(Slice(s, a, b), c, d) = Slice(s, a + c, a + d)
<1> DEFINE t == Slice(s, a, b)
           u == Slice(t, c, d)
           v == Slice(s, a + c, a + d)
<1>1. t \in Seq(S) /\ Len(t) = b - a /\ \A i \in 1..b - a : t[i] = s[a + i]
  BY SliceIs
<1>2. c \in Nat /\ d \in c..Len(t) /\ a + c \in Nat /\ a + d \in a + c..Len(s)
  BY <1>1
<1>3. u \in Seq(S) /\ Len(u) = d - c /\ \A i \in 1..d - c : u[i] = t[c + i]
  <2> HIDE DEF t
  <2> QED BY ZenonT(30), <1>1, <1>2, SliceIs
<1>4. v \in Seq(S) /\ Len(v) = (a + d) - (a + c) /\ \A i \in 1..(a + d) - (a + c) : v[i] = s[a + c + i]
  BY <1>2, SliceIs
<1>5. Len(u) = Len(v) /\ \A i \in 1..Len(u) : u[i] = v[i]
  <2> HIDE DEF t, u, v
  <2>1. Len(u) = Len(v)
    BY <1>3, <1>4
  <2>2. ASSUME NEW i \in 1..Len(u) PROVE u[i] = v[i]
    <3>1. i \in 1..d - c /\ i \in 1..(a + d) - (a + c) /\ c + i \in 1..b - a /\ a + (c + i) = a + c + i
      BY <1>3
    <3> QED
      BY <1>1, <1>3, <1>4, <3>1
  <2> QED
    BY <2>1, <2>2
<1> HIDE DEF u, v
<1>6. u = v
  BY <1>3, <1>4, <1>5, SeqEqual
<1> QED
  BY <1>6 DEF t, u, v

\* The front of a slice.
LEMMA SliceFront ==
  ASSUME NEW B, NEW s \in Seq(B), NEW a \in Nat, NEW b \in a..Len(s), NEW d \in 0..b - a
  PROVE  Slice(Slice(s, a, b), 0, d) = Slice(s, a, a + d)
<1>1. 0 \in Nat /\ d \in 0..b - a /\ a + 0 = a
  OBVIOUS
<1>2. Slice(Slice(s, a, b), 0, d) = Slice(s, a + 0, a + d)
  BY <1>1, SliceOfSlice
<1> QED
  BY <1>1, <1>2

\* What is put at the end.
LEMMA AtTheEnd ==
  ASSUME NEW P, NEW x \in Seq(P), NEW w \in Seq(P), Len(w) = 1
  PROVE  x \o w \in Seq(P) /\ Len(x \o w) = Len(x) + 1 /\ (x \o w)[Len(x) + 1] = w[1]
<1>1. Len(x) \in Nat
  OBVIOUS
<1>2. x \o w \in Seq(P)
  BY ConcatProperties
<1>3. Len(x \o w) = Len(x) + Len(w)
  BY ConcatProperties
<1>4. \A k \in 1..Len(x) + Len(w) : (x \o w)[k] = IF k <= Len(x) THEN x[k] ELSE w[k - Len(x)]
  BY ConcatProperties
<1>5. PICK n \in Nat : n = Len(x)
  BY <1>1
<1>6. n + 1 \in 1..n + 1 /\ ~ (n + 1 <= n) /\ n + 1 - n = 1
  OBVIOUS
<1>7. (x \o w)[n + 1] = w[1]
  <2> DEFINE y == x \o w
  <2> HIDE DEF y
  <2>1. \A k \in 1..n + 1 : y[k] = IF k <= n THEN x[k] ELSE w[k - n]
    BY <1>4, <1>5 DEF y
  <2>2. y[n + 1] = w[n + 1 - n]
    BY <1>6, <2>1
  <2> QED
    BY <1>6, <2>2 DEF y
<1> QED
  BY <1>2, <1>3, <1>5, <1>7

-----------------------------------------------------------------------------
(* Induction and recursion.                                                *)

\* A set of numbers has a least one.
LEMMA Least ==
  ASSUME NEW S \in SUBSET Nat, S # {}
  PROVE  \E x \in S : \A y \in S : x <= y
<1> DEFINE R == OpToRel(<, Nat)
<1>1. IsWellFoundedOn(R, Nat)
  BY NatLessThanWellFounded
<1>2. \A x, y \in Nat : x < y => <<x, y>> \in R
  BY DEF OpToRel
<1> HIDE DEF R
<1>3. PICK x \in S : \A y \in S : ~ (<<y, x>> \in R)
  BY <1>1, WFMin
<1>4. \A y \in S : ~ (y < x)
  BY <1>2, <1>3
<1>5. \A y \in S : x <= y
  BY <1>4
<1> QED
  BY <1>5

\* A set of numbers with a bound has a greatest one.
LEMMA Greatest ==
  ASSUME NEW B \in Nat, NEW S \in SUBSET (0..B), S # {}
  PROVE  \E x \in S : \A y \in S : x >= y
<1> DEFINE T == {B - y : y \in S}
<1>1. T \in SUBSET Nat /\ T # {}
  <2>1. \A y \in S : B - y \in Nat
    OBVIOUS
  <2> QED
    BY <2>1
<1>2. PICK t \in T : \A u \in T : t <= u
  <2> HIDE DEF T
  <2> QED BY <1>1, Least
<1>3. PICK x \in S : t = B - x
  BY <1>2
<1>4. \A y \in S : B - x <= B - y
  BY <1>2, <1>3
<1> QED
  BY <1>4

\* Induction over a measure, of the elements of a set.
LEMMA MeasureInduction ==
  ASSUME NEW D, NEW m \in [D -> Nat], NEW S,
         \A x \in D : (\A y \in D : m[y] < m[x] => y \in S) => x \in S
  PROVE  D \subseteq S
<1> DEFINE T == {m[x] : x \in D \ S}
<1> SUFFICES ASSUME D \ S # {} PROVE FALSE
  OBVIOUS
<1>0. T \in SUBSET Nat /\ T # {}
  OBVIOUS
<1>1. PICK n \in T : \A k \in T : n <= k
  <2> HIDE DEF T
  <2> QED BY <1>0, Least
<1>2. PICK x \in D \ S : m[x] = n
  BY <1>1
<1>3. \A y \in D : m[y] < m[x] => y \in S
  BY SMTT(30), <1>1, <1>2
<1> QED
  BY <1>2, <1>3

\* Outside B, p has a smaller measure m; and f is, on D, the function that is
\* b on B and elsewhere g of its value at p.
Descends(m, p, D, B) == \A x \in D \ B : m[p[x]] < m[x]
Recurs(f, D, B, b, p, g) == \A x \in D : f[x] = IF x \in B THEN b[x] ELSE g[<<x, f[p[x]]>>]

\* A function may be defined at each argument by its value at a smaller one.
LEMMA MeasureRecursion ==
  ASSUME NEW D, NEW m \in [D -> Nat], NEW V, NEW B, NEW b \in [B -> V],
         NEW p \in [D -> D], NEW g \in [D \X V -> V],
         Descends(m, p, D, B)
  PROVE  \E f \in [D -> V] : Recurs(f, D, B, b, p, g)
<1> USE DEF Descends, Recurs
<1> DEFINE Upto(x) == {y \in D : m[y] <= m[x]}
           Good(h, x) == /\ h \in [Upto(x) -> V]
                         /\ \A y \in Upto(x) : h[y] = IF y \in B THEN b[y] ELSE g[<<y, h[p[y]]>>]
           T == {x \in D : \E h : Good(h, x)}
<1>1. ASSUME NEW x \in D, NEW y \in D, NEW h, NEW k, Good(h, x), Good(k, y)
      PROVE  \A z \in Upto(x) \cap Upto(y) : h[z] = k[z]
  <2> DEFINE E == {z \in D : z \in Upto(x) \cap Upto(y) => h[z] = k[z]}
  <2>1. ASSUME NEW z \in D, \A w \in D : m[w] < m[z] => w \in E PROVE z \in E
    <3> SUFFICES ASSUME z \in Upto(x), z \in Upto(y) PROVE h[z] = k[z]
      OBVIOUS
    <3>1. CASE z \in B
      BY <1>1, <3>1
    <3>2. CASE z \notin B
      <4>1. p[z] \in D /\ m[p[z]] < m[z]
        BY <3>2
      <4>2. p[z] \in Upto(x) /\ p[z] \in Upto(y)
        BY <4>1
      <4>3. h[p[z]] = k[p[z]]
        BY <2>1, <4>1, <4>2
      <4> QED
        BY <1>1, <3>2, <4>3
    <3> QED
      BY <3>1, <3>2
  <2>2. D \subseteq E
    <3> HIDE DEF E
    <3> QED BY <2>1, MeasureInduction
  <2> QED
    BY <2>2
<1>2. D \subseteq T
  <2>1. ASSUME NEW x \in D, \A y \in D : m[y] < m[x] => y \in T
        PROVE  x \in T
    <3> DEFINE H(y) == CHOOSE h : Good(h, y)
               L == {y \in D : m[y] < m[x]}
               l == [y \in L |-> H(y)[y]]
               h == [y \in Upto(x) |-> IF y \in B THEN b[y] ELSE g[<<y, l[p[y]]>>]]
    <3>1. \A y \in L : Good(H(y), y)
      <4> HIDE DEF Good
      <4> QED BY <2>1
    <3>2. \A y \in L : l[y] \in V /\ l[y] = IF y \in B THEN b[y] ELSE g[<<y, l[p[y]]>>]
      <4> SUFFICES ASSUME NEW y \in L PROVE l[y] \in V /\ l[y] = IF y \in B THEN b[y] ELSE g[<<y, l[p[y]]>>]
        OBVIOUS
      <4> HIDE DEF H
      <4>0. l[y] = H(y)[y] /\ y \in Upto(y)
        OBVIOUS
      <4>1. Good(H(y), y) /\ l[y] = H(y)[y] /\ y \in Upto(y)
        <5> HIDE DEF Good, l, L, Upto
        <5> QED BY <3>1, <4>0
      <4>2. l[y] \in V /\ l[y] = IF y \in B THEN b[y] ELSE g[<<y, H(y)[p[y]]>>]
        BY <4>1
      <4>3. CASE y \in B
        BY <4>2, <4>3
      <4>4. CASE y \notin B
        <5>1. p[y] \in L /\ p[y] \in Upto(y) /\ p[y] \in Upto(p[y])
          BY <4>4
        <5>2. Good(H(p[y]), p[y])
          BY <3>1, <5>1
        <5>3. H(y)[p[y]] = H(p[y])[p[y]]
          <6> HIDE DEF Good
          <6> QED BY <1>1, <4>1, <5>1, <5>2
        <5>4. l[p[y]] = H(p[y])[p[y]]
          BY <5>1
        <5> QED
          BY <4>2, <4>4, <5>3, <5>4
      <4> QED
        BY <4>3, <4>4
    <3>3. \A y \in Upto(x) \ B : p[y] \in L
      OBVIOUS
    <3>4. L \subseteq Upto(x)
      OBVIOUS
    <3> HIDE DEF l, L, H
    <3>5. h \in [Upto(x) -> V]
      <4>1. \A y \in Upto(x) : (IF y \in B THEN b[y] ELSE g[<<y, l[p[y]]>>]) \in V
        BY <3>2, <3>3
      <4> QED BY <4>1
    <3>6. \A y \in L : h[y] = l[y]
      BY <3>2, <3>4
    <3>7. \A y \in Upto(x) : h[y] = IF y \in B THEN b[y] ELSE g[<<y, h[p[y]]>>]
      <4> HIDE DEF Upto
      <4> SUFFICES ASSUME NEW y \in Upto(x) PROVE h[y] = IF y \in B THEN b[y] ELSE g[<<y, h[p[y]]>>]
        OBVIOUS
      <4>1. h[y] = IF y \in B THEN b[y] ELSE g[<<y, l[p[y]]>>]
        OBVIOUS
      <4> HIDE DEF h
      <4>2. y \notin B => h[p[y]] = l[p[y]]
        BY <3>3, <3>6
      <4> QED BY <4>1, <4>2
    <3> QED
      BY <3>5, <3>7
  <2> QED
    <3> HIDE DEF T
    <3> QED BY <2>1, MeasureInduction
<1> DEFINE H(x) == CHOOSE h : Good(h, x)
           F == [x \in D |-> H(x)[x]]
<1>3. \A x \in D : Good(H(x), x)
  <2> HIDE DEF Good
  <2> QED BY <1>2
<1> HIDE DEF H
<1>4. ASSUME NEW x \in D PROVE F[x] \in V /\ F[x] = IF x \in B THEN b[x] ELSE g[<<x, F[p[x]]>>]
  <2>0. x \in Upto(x) /\ F[x] = H(x)[x]
    OBVIOUS
  <2>1. Good(H(x), x) /\ x \in Upto(x) /\ F[x] = H(x)[x]
    <3> HIDE DEF Good, F, Upto
    <3> QED BY <1>3, <2>0
  <2>2. F[x] \in V /\ F[x] = IF x \in B THEN b[x] ELSE g[<<x, H(x)[p[x]]>>]
    BY <2>1
  <2>3. CASE x \in B
    BY <2>2, <2>3
  <2>4. CASE x \notin B
    <3>1. p[x] \in D /\ p[x] \in Upto(x) /\ p[x] \in Upto(p[x])
      BY <2>4
    <3>2. Good(H(p[x]), p[x])
      BY <1>3, <3>1
    <3>3. H(x)[p[x]] = H(p[x])[p[x]]
      <4> HIDE DEF Good
      <4> QED BY <1>1, <2>1, <3>1, <3>2
    <3>4. F[p[x]] = H(p[x])[p[x]]
      BY <3>1
    <3> QED
      BY <2>2, <2>4, <3>3, <3>4
  <2> QED
    BY <2>3, <2>4
<1>5. F \in [D -> V]
  BY <1>4
<1> HIDE DEF F
<1> QED
  BY <1>4, <1>5

\* Functions are equal that are on B and, where they are equal at p, elsewhere.
Follows(h, f, D, B, p) ==
  \A x \in D : (x \in B \/ h[p[x]] = f[p[x]]) => h[x] = f[x]
Same(h, f, D) == \A x \in D : h[x] = f[x]

LEMMA MeasureSame ==
  ASSUME NEW D, NEW m \in [D -> Nat], NEW B, NEW p \in [D -> D], Descends(m, p, D, B),
         NEW f, NEW h, Follows(h, f, D, B, p)
  PROVE  Same(h, f, D)
<1> DEFINE S == {x \in D : h[x] = f[x]}
<1>1. ASSUME NEW x \in D, \A y \in D : m[y] < m[x] => y \in S PROVE x \in S
  <2>1. x \in B \/ m[p[x]] < m[x]
    BY DEF Descends
  <2>2. x \in B \/ h[p[x]] = f[p[x]]
    BY <1>1, <2>1
  <2> QED BY <2>2 DEF Follows
<1> HIDE DEF S
<1>2. D \subseteq S
  BY <1>1, MeasureInduction
<1> QED
  BY <1>2 DEF S, Same

\* Induction over the numbers up to n.
LEMMA StepInduction ==
  ASSUME NEW n \in Nat, NEW S, 0 \in S, \A k \in 1..n : k - 1 \in S => k \in S
  PROVE  0..n \subseteq S
<1> DEFINE m == [k \in 0..n |-> k]
<1>1. m \in [0..n -> Nat]
  OBVIOUS
<1>2. ASSUME NEW x \in 0..n, \A y \in 0..n : m[y] < m[x] => y \in S
      PROVE  x \in S
  <2>1. CASE x = 0
    BY <2>1
  <2>2. CASE x # 0
    <3>1. x \in 1..n /\ x - 1 \in 0..n /\ m[x - 1] < m[x]
      BY <2>2
    <3> QED
      BY <1>2, <3>1
  <2> QED
    BY <2>1, <2>2
<1> DEFINE D == 0..n
<1>3. /\ m \in [D -> Nat]
      /\ \A x \in D : (\A y \in D : m[y] < m[x] => y \in S) => x \in S
  BY <1>1, <1>2
<1>4. D \subseteq S
  <2> HIDE DEF m, D
  <2> QED BY <1>3, MeasureInduction
<1> QED
  BY <1>4

\* f is x at 0 and elsewhere, up to n, g of its value one before.
Stepwise(f, n, x, g) == \A k \in 0..n : f[k] = IF k = 0 THEN x ELSE g[<<k, f[k - 1]>>]

\* A function of the numbers up to n may be defined step by step.
LEMMA StepRecursion ==
  ASSUME NEW n \in Nat, NEW S, NEW x \in S, NEW Q, Q = (1..n) \X S, NEW g \in [Q -> S]
  PROVE  \E f \in [0..n -> S] : Stepwise(f, n, x, g)
<1> USE DEF Stepwise
<1> DEFINE D == 0..n
           m == [k \in D |-> k]
           B == {0}
           b == [k \in B |-> x]
           p == [k \in D |-> IF k = 0 THEN 0 ELSE k - 1]
           G == [q \in D \X S |-> IF q[1] = 0 THEN x ELSE g[q]]
<1>1. m \in [D -> Nat] /\ b \in [B -> S] /\ p \in [D -> D]
  OBVIOUS
<1>2. G \in [D \X S -> S]
  OBVIOUS
<1>3. Descends(m, p, D, B)
  BY DEF Descends
<1>0. \E f \in [D -> S] : Recurs(f, D, B, b, p, G)
  <2> HIDE DEF D, m, B, b, p, G
  <2> QED
    BY <1>1, <1>2, <1>3, MeasureRecursion
<1>4. PICK f \in [D -> S] : \A k \in D : f[k] = IF k \in B THEN b[k] ELSE G[<<k, f[p[k]]>>]
  BY <1>0 DEF Recurs
<1>5. \A k \in D : f[k] = IF k = 0 THEN x ELSE g[<<k, f[k - 1]>>]
  <2> SUFFICES ASSUME NEW k \in D, k # 0 PROVE f[k] = g[<<k, f[k - 1]>>]
    BY <1>4
  <2>1. p[k] = k - 1 /\ k - 1 \in D
    OBVIOUS
  <2>2. f[k - 1] \in S
    BY <2>1
  <2> QED
    BY <1>4, <2>1, <2>2
<1> QED
  BY <1>5

\* f goes by the steps of h; those do not leave E, and elsewhere lessen m.
Goes(f, n, h) == \A k \in 1..n : f[k] = h[<<k, f[k - 1]>>]
Lessens(h, n, S, E, m) ==
  \A k \in 1..n, x \in S : /\ x \in E => h[<<k, x>>] \in E
                           /\ x \notin E => h[<<k, x>>] \in E \/ m[h[<<k, x>>]] < m[x]

\* Steps come to an end that they do not leave, when each of them before has
\* less to go.
LEMMA StepsEnd ==
  ASSUME NEW n \in Nat, NEW S, NEW E \in SUBSET S, NEW m \in [S -> Nat], NEW Q, Q = (1..n) \X S,
         NEW h \in [Q -> S],
         NEW f, f[0] \in S, m[f[0]] < n, Goes(f, n, h), Lessens(h, n, S, E, m)
  PROVE  f[n] \in E
<1> USE DEF Goes, Lessens
<1> DEFINE T == {i \in 0..n : f[i] \in S /\ (f[i] \in E \/ m[f[i]] < n - i)}
<1>1. 0 \in T
  OBVIOUS
<1>2. ASSUME NEW i \in 1..n, i - 1 \in T PROVE i \in T
  <2>1. f[i - 1] \in S /\ (f[i - 1] \in E \/ m[f[i - 1]] < n - (i - 1))
    BY <1>2
  <2>2. f[i] = h[<<i, f[i - 1]>>]
    OBVIOUS
  <2>3. PICK x \in S : x = f[i - 1]
    BY <2>1
  <2>4. PICK y \in S : y = h[<<i, x>>]
    <3>1. <<i, x>> \in Q
      OBVIOUS
    <3>2. h[<<i, x>>] \in S
      BY <3>1
    <3> QED BY <3>2
  <2>5. /\ x \in E => y \in E
        /\ x \notin E => y \in E \/ m[y] < m[x]
    BY <2>4
  <2>6. m[x] \in Nat /\ m[y] \in Nat /\ i \in 0..n
    OBVIOUS
  <2>7. x \in E \/ m[x] < n - (i - 1)
    BY <2>1, <2>3
  <2>8. f[i] = y
    BY <2>2, <2>3, <2>4
  <2>9. y \in E \/ m[y] < n - i
    BY <2>5, <2>6, <2>7
  <2> QED
    BY <2>6, <2>8, <2>9
<1>3. n \in T
  <2>1. 0..n \subseteq T
    <3> HIDE DEF T
    <3> QED BY <1>1, <1>2, StepInduction
  <2> QED
    BY <2>1
<1>4. f[n] \in S /\ (f[n] \in E \/ m[f[n]] < n - n)
  BY <1>3
<1> QED
  BY <1>4

\* Division, as the prover needs it.
LEMMA DivIs ==
  ASSUME NEW a \in Nat, NEW s \in Nat \ {0}
  PROVE  a \div s \in Nat /\ (a \div s) * s <= a /\ a < (a \div s) * s + s
<1>1. a = s * (a \div s) + (a % s) /\ a % s \in 0..s - 1 /\ a \div s \in Nat
  BY SMT
<1>2. PICK q \in Nat : q = a \div s
  BY <1>1
<1>3. PICK z \in 0..s - 1 : a = s * q + z
  BY <1>1, <1>2
<1>4. s * q = q * s /\ q * s \in Nat
  OBVIOUS
<1>5. q * s <= a /\ a < q * s + s
  BY <1>3, <1>4
<1> QED
  BY <1>2, <1>5

=============================================================================
