---------------------------- MODULE PacksProofs ----------------------------
(***************************************************************************)
(* Proofs about pack files: the integers and deltas they are written in,   *)
(* and the invariants of Packs.                                            *)
(***************************************************************************)
EXTENDS Packs, LibraryLemmas, TLAPS

-----------------------------------------------------------------------------
(* Variable-length integers.                                               *)

\* The parts an integer is written in.
LEMMA PartsAre ==
  ASSUME NEW n \in Nat
  PROVE  /\ LastPart(n) \in Part /\ NextPart(n) \in Part
         /\ LastPart(n).digit = n /\ NextPart(n).digit = n
         /\ ~LastPart(n).more /\ NextPart(n).more
  BY DEF Part, LastPart, NextPart

\* Uvarint does what its definition says.
LEMMA UvarintIs ==
  /\ Uvarint \in [Nat -> Seq(Part)]
  /\ \A n \in Nat : Uvarint[n] = IF n < Group THEN <<LastPart(n)>>
                                 ELSE <<NextPart(n % Group)>> \o Uvarint[n \div Group]
<1> DEFINE V == Seq(Part)
           m == [n \in Nat |-> n]
           B == {n \in Nat : n < Group}
           b == [n \in B |-> <<LastPart(n)>>]
           p == [n \in Nat |-> n \div Group]
           g == [q \in Nat \X V |-> <<NextPart(q[1] % Group)>> \o q[2]]
           P(f) == f = [n \in Nat |-> IF n < Group THEN <<LastPart(n)>>
                                      ELSE <<NextPart(n % Group)>> \o f[n \div Group]]
<1>1. Group \in Nat \ {0} /\ Group > 1
  BY WidthAssumption
<1>2. \A n \in Nat : n \div Group \in Nat /\ n % Group \in Nat /\ (n >= Group => n \div Group < n)
  <2> SUFFICES ASSUME NEW n \in Nat PROVE n \div Group \in Nat /\ n % Group \in Nat /\ (n >= Group => n \div Group < n)
    OBVIOUS
  <2>1. PICK k \in Nat : k = n \div Group /\ k * Group <= n /\ n < k * Group + Group
    BY <1>1, DivIs
  <2>2. n % Group \in Nat
    BY <1>1
  <2>3. ASSUME n >= Group PROVE k < n
    <3>1. k * 2 <= k * Group
      BY <1>1
    <3> QED BY <1>1, <2>1, <2>3, <3>1
  <2> QED BY <2>1, <2>2, <2>3
<1>3. m \in [Nat -> Nat] /\ p \in [Nat -> Nat]
  BY <1>2
<1>4. b \in [B -> V]
  BY PartsAre
<1>5. g \in [Nat \X V -> V]
  <2>1. \A n \in Nat, s \in V : <<NextPart(n % Group)>> \o s \in V
    BY <1>2, PartsAre
  <2> QED BY <2>1
<1>6. Descends(m, p, Nat, B)
  BY <1>1, <1>2 DEF Descends
<1> HIDE DEF m, B, b, p, g
<1>7. PICK f \in [Nat -> V] : Recurs(f, Nat, B, b, p, g)
  <2> HIDE DEF V
  <2> QED BY <1>3, <1>4, <1>5, <1>6, MeasureRecursion
<1>8. \A n \in Nat : f[n] = IF n < Group THEN <<LastPart(n)>> ELSE <<NextPart(n % Group)>> \o f[n \div Group]
  BY <1>2, <1>7 DEF Recurs, B, b, p, g
<1>9. P(f)
  BY <1>8
<1>10. P(Uvarint)
  <2>1. Uvarint = CHOOSE h : P(h)
    BY DEF Uvarint
  <2> HIDE DEF P
  <2> QED BY <1>9, <2>1
<1> HIDE DEF P
<1>11. Follows(Uvarint, f, Nat, B, p)
  BY <1>8, <1>10 DEF Follows, B, p, P
<1>12. \A n \in Nat : Uvarint[n] = f[n]
  <2>1. Same(Uvarint, f, Nat)
    BY <1>3, <1>6, <1>11, MeasureSame
  <2> QED BY <2>1 DEF Same
<1>13. Uvarint = [n \in Nat |-> Uvarint[n]]
  BY <1>10 DEF P
<1> QED
  BY <1>2, <1>8, <1>12, <1>13

\* A sequence that was put after one element.
LEMMA PutFirst ==
  ASSUME NEW S, NEW x \in S, NEW t \in Seq(S)
  PROVE  /\ <<x>> \o t \in Seq(S) /\ <<x>> \o t # <<>> /\ Len(<<x>> \o t) = Len(t) + 1
         /\ Head(<<x>> \o t) = x /\ Tail(<<x>> \o t) = t
<1> DEFINE w == <<x>>
           e == <<>>
<1>1. w \in Seq(S) /\ w # <<>> /\ Head(w) = x /\ Tail(w) = e /\ Len(w) = 1
  OBVIOUS
<1>2. e \o t = t
  OBVIOUS
<1> HIDE DEF w, e
<1>3. /\ w \o t \in Seq(S) /\ w \o t # <<>> /\ Head(w \o t) = x /\ Tail(w \o t) = e \o t
      /\ Len(w \o t) = Len(t) + 1
  BY SMTT(30), <1>1, JoinedTail, ConcatProperties
<1> QED
  BY <1>2, <1>3 DEF w

\* The tail of a sequence is a shorter one.
LEMMA TailIsShorter ==
  ASSUME NEW S, NEW s \in Seq(S), s # <<>>
  PROVE  /\ Tail(s) \in Seq(S) /\ Len(Tail(s)) = Len(s) - 1 /\ Len(s) \in Nat \ {0} /\ Len(Tail(s)) \in Nat
         /\ Head(s) \in S
  OBVIOUS

\* ReadVariable does what its definition says.
LEMMA ReadVariableIs ==
  /\ ReadVariable \in [Seq(Part) -> Nat]
  /\ \A s \in Seq(Part) :
       ReadVariable[s] = IF s = <<>> THEN 0
                         ELSE Head(s).digit + (IF Head(s).more THEN Group * ReadVariable[Tail(s)] ELSE 0)
<1> DEFINE D == Seq(Part)
           m == [s \in D |-> Len(s)]
           B == {s \in D : s = <<>>}
           b == [s \in B |-> 0]
           p == [s \in D |-> IF s = <<>> THEN s ELSE Tail(s)]
           g == [q \in D \X Nat |-> IF q[1] = <<>> THEN 0
                                    ELSE Head(q[1]).digit + (IF Head(q[1]).more THEN Group * q[2] ELSE 0)]
           P(f) == f = [s \in Seq(Part) |->
                          IF s = <<>> THEN 0
                          ELSE Head(s).digit + (IF Head(s).more THEN Group * f[Tail(s)] ELSE 0)]
<1>1. Group \in Nat
  BY WidthAssumption
<1>2. \A s \in D : s # <<>> => Tail(s) \in D /\ Len(Tail(s)) < Len(s) /\ Head(s).digit \in Nat
  <2> SUFFICES ASSUME NEW s \in D, s # <<>>
               PROVE  Tail(s) \in D /\ Len(Tail(s)) < Len(s) /\ Head(s).digit \in Nat
    OBVIOUS
  <2>1. Tail(s) \in Seq(Part) /\ Len(Tail(s)) = Len(s) - 1 /\ Len(s) \in Nat \ {0} /\ Head(s) \in Part
    BY TailIsShorter
  <2>2. \A x \in Part : x.digit \in Nat
    BY DEF Part
  <2> QED BY <2>1, <2>2
<1>3. m \in [D -> Nat] /\ p \in [D -> D] /\ b \in [B -> Nat]
  BY <1>2
<1>4. g \in [D \X Nat -> Nat]
  <2>1. \A k \in Nat : Group * k \in Nat
    BY <1>1
  <2>2. \A s \in D, k \in Nat : s # <<>> => Head(s).digit + (IF Head(s).more THEN Group * k ELSE 0) \in Nat
    <3> SUFFICES ASSUME NEW s \in D, NEW k \in Nat, s # <<>>
                 PROVE  Head(s).digit + (IF Head(s).more THEN Group * k ELSE 0) \in Nat
      OBVIOUS
    <3>1. PICK d \in Nat, z \in Nat : d = Head(s).digit /\ z = Group * k
      BY <1>2, <2>1
    <3> QED BY <3>1
  <2> QED BY <2>2
<1>5. Descends(m, p, D, B)
  BY <1>2 DEF Descends
<1> HIDE DEF m, b, p, g, B
<1>6. PICK f \in [D -> Nat] : Recurs(f, D, B, b, p, g)
  <2> HIDE DEF D
  <2> QED BY <1>3, <1>4, <1>5, MeasureRecursion
<1>7. \A s \in D : f[s] = IF s = <<>> THEN 0
                          ELSE Head(s).digit + (IF Head(s).more THEN Group * f[Tail(s)] ELSE 0)
  BY <1>2, <1>6 DEF Recurs, B, b, p, g
<1>8. P(f)
  BY <1>7
<1>9. P(ReadVariable)
  <2>1. ReadVariable = CHOOSE h : P(h)
    BY DEF ReadVariable
  <2> HIDE DEF P
  <2> QED BY <1>8, <2>1
<1> HIDE DEF P
<1>10. Follows(ReadVariable, f, D, B, p)
  BY <1>7, <1>9 DEF Follows, B, p, P
<1>11. Same(ReadVariable, f, D)
  BY <1>3, <1>5, <1>10, MeasureSame
<1>12. \A s \in D : ReadVariable[s] = f[s]
  BY <1>11 DEF Same
<1>13. ReadVariable = [s \in D |-> ReadVariable[s]]
  BY <1>9 DEF P
<1> QED
  BY <1>2, <1>7, <1>12, <1>13

\* A number is what its lowest digit and the rest of it make.
LEMMA DigitsMake ==
  ASSUME NEW n \in Nat, NEW base \in Nat \ {0}
  PROVE  /\ n % base \in 0..base - 1 /\ n \div base \in Nat
         /\ (n % base) + base * (n \div base) = n
         /\ (base > 1 /\ n > 0) => n \div base < n
<1>1. n = base * (n \div base) + (n % base) /\ n % base \in 0..base - 1 /\ n \div base \in Nat
  BY SMT
<1>2. PICK q \in Nat : q = n \div base
  BY <1>1
<1>3. PICK z \in 0..base - 1 : z = n % base
  BY <1>1
<1>4. n = base * q + z
  BY <1>1, <1>2, <1>3
<1>5. base * q \in Nat
  BY <1>1
<1>6. (base > 1 /\ n > 0) => q < n
  <2> SUFFICES ASSUME base > 1, n > 0 PROVE q < n
    OBVIOUS
  <2>1. base * q >= 2 * q
    BY SMT
  <2> QED BY <1>4, <1>5, <2>1
<1> QED
  BY <1>2, <1>3, <1>4, <1>5, <1>6

\* What is written of an integer is read as it.
LEMMA VariableRoundTrip ==
  ASSUME NEW n \in Nat
  PROVE  ReadVariable[Uvarint[n]] = n
<1> DEFINE m == [k \in Nat |-> k]
           S == {k \in Nat : ReadVariable[Uvarint[k]] = k}
<1>1. m \in [Nat -> Nat]
  OBVIOUS
<1>2. ASSUME NEW x \in Nat, \A y \in Nat : m[y] < m[x] => y \in S
      PROVE  x \in S
  <2>1. CASE x < Group
    <3> DEFINE e == <<>>
               w == <<LastPart(x)>>
    <3>1. Uvarint[x] = w
      BY <2>1, UvarintIs
    <3>2. w \in Seq(Part) /\ w # <<>> /\ Head(w) = LastPart(x)
      BY PartsAre
    <3> HIDE DEF w
    <3>3. ReadVariable[w] = x
      BY <3>2, PartsAre, ReadVariableIs
    <3> QED BY <3>1, <3>3
  <2>2. CASE ~(x < Group)
    <3>0. Group \in Nat \ {0} /\ Group > 1 /\ x > 0
      BY <2>2, WidthAssumption
    <3>1. PICK low \in Nat, high \in Nat : low = x % Group /\ high = x \div Group /\ low + Group * high = x /\ high < x
      <4>1. /\ x % Group \in 0..Group - 1 /\ x \div Group \in Nat
            /\ (x % Group) + Group * (x \div Group) = x /\ x \div Group < x
        BY <3>0, DigitsMake
      <4>2. 0..Group - 1 \subseteq Nat
        BY <3>0
      <4> QED BY <4>1, <4>2
    <3> DEFINE t == Uvarint[high]
               w == <<NextPart(low)>> \o t
    <3>2. Uvarint[x] = w /\ t \in Seq(Part)
      BY <2>2, <3>1, UvarintIs
    <3>3. ReadVariable[t] = high
      BY <1>2, <3>1
    <3> HIDE DEF t
    <3>4. w \in Seq(Part) /\ w # <<>> /\ Head(w) = NextPart(low) /\ Tail(w) = t
      BY <3>1, <3>2, PartsAre, PutFirst
    <3> HIDE DEF w
    <3>5. ReadVariable[w] = low + Group * ReadVariable[t]
      <4>1. NextPart(low).digit = low /\ NextPart(low).more
        BY PartsAre
      <4>2. ReadVariable[w] = Head(w).digit + (IF Head(w).more THEN Group * ReadVariable[Tail(w)] ELSE 0)
        BY <3>4, ReadVariableIs
      <4> QED BY <3>4, <4>1, <4>2
    <3> QED BY <3>1, <3>2, <3>3, <3>5
  <2> QED BY <2>1, <2>2
<1>3. Nat \subseteq S
  <2> HIDE DEF m, S
  <2> QED BY <1>1, <1>2, MeasureInduction
<1> QED
  BY <1>3

\* The size an entry starts with is read as it was written.
LEMMA HeaderSizeRoundTrip ==
  ASSUME NEW n \in Nat
  PROVE  /\ WriteVariable(n) \in Seq(Part)
         /\ ReadHeaderSize(WriteVariable(n)) = n
<1>1. Nibble \in Nat \ {0}
  BY WidthAssumption
<1>2. CASE n < Nibble
  <2> DEFINE w == <<LastPart(n)>>
  <2>1. WriteVariable(n) = w
    BY <1>2 DEF WriteVariable
  <2>2. w \in Seq(Part) /\ Head(w) = LastPart(n)
    BY PartsAre
  <2> HIDE DEF w
  <2>3. ReadHeaderSize(w) = n
    BY <2>2, PartsAre DEF ReadHeaderSize
  <2> QED BY <2>1, <2>2, <2>3
<1>3. CASE ~(n < Nibble)
  <2>1. PICK low \in Nat, high \in Nat : low = n % Nibble /\ high = n \div Nibble /\ low + Nibble * high = n
    <3>1. n % Nibble \in 0..Nibble - 1 /\ n \div Nibble \in Nat /\ (n % Nibble) + Nibble * (n \div Nibble) = n
      BY <1>1, DigitsMake
    <3>2. 0..Nibble - 1 \subseteq Nat
      BY <1>1
    <3> QED BY <3>1, <3>2
  <2> DEFINE t == Uvarint[high]
             w == <<NextPart(low)>> \o t
  <2>2. WriteVariable(n) = w
    BY <1>3, <2>1 DEF WriteVariable
  <2>3. t \in Seq(Part) /\ ReadVariable[t] = high
    BY UvarintIs, VariableRoundTrip
  <2> HIDE DEF t
  <2>4. w \in Seq(Part) /\ Head(w) = NextPart(low) /\ Tail(w) = t
    BY <2>3, PartsAre, PutFirst
  <2> HIDE DEF w
  <2>5. NextPart(low).digit = low /\ NextPart(low).more
    BY PartsAre
  <2>6. ReadHeaderSize(w) = low + Nibble * high
    BY <2>3, <2>4, <2>5 DEF ReadHeaderSize
  <2> QED BY <2>1, <2>2, <2>4, <2>6
<1> QED
  BY <1>2, <1>3

\* A stream of parts some of which is the last.
Ends(s) == s \in Seq(Part) /\ \E k \in 1..Len(s) : ~s[k].more

\* Readers take it up to the first such part.
LEMMA TakenIs ==
  ASSUME NEW s, Ends(s)
  PROVE  Taken(s) \in 1..Len(s) /\ ~s[Taken(s)].more /\ \A j \in 1..Taken(s) - 1 : s[j].more
<1> DEFINE S == {k \in 1..Len(s) : ~s[k].more}
<1>1. S \in SUBSET Nat /\ S # {} /\ Len(s) \in Nat
  BY DEF Ends
<1>2. PICK k \in S : \A j \in S : k <= j
  <2> HIDE DEF S
  <2> QED BY <1>1, Least
<1>3. \A j \in 1..k - 1 : j \in 1..Len(s) /\ ~(k <= j)
  BY <1>1
<1>4. k \in 1..Len(s) /\ ~s[k].more /\ \A j \in 1..k - 1 : s[j].more
  BY <1>2, <1>3
<1> QED
  BY <1>4 DEF Taken

\* The offset of a base is a number; one part is its own digit.
LEMMA DeltaOffsetIs ==
  ASSUME NEW s, Ends(s)
  PROVE  /\ ReadDeltaOffset(s) \in Nat
         /\ Taken(s) = 1 => ReadDeltaOffset(s) = s[1].digit
<1> DEFINE n == Taken(s)
           S == {x \in Int : x >= -1}
           Q == (1..n) \X S
           g == [q \in Q |-> (q[2] + 1) * Group + s[q[1]].digit]
           P(f) == f = [k \in 0..n |-> IF k = 0 THEN -1 ELSE (f[k - 1] + 1) * Group + s[k].digit]
           f == CHOOSE h : P(h)
<1>1. n \in 1..Len(s) /\ Len(s) \in Nat /\ Group \in Nat
  BY TakenIs, WidthAssumption DEF Ends
<1>2. \A k \in 1..n : s[k].digit \in Nat
  <2> SUFFICES ASSUME NEW k \in 1..n PROVE s[k].digit \in Nat
    OBVIOUS
  <2>1. k \in 1..Len(s)
    BY <1>1
  <2>2. s[k] \in Part
    BY <2>1 DEF Ends
  <2> QED BY <2>2 DEF Part
<1>3. \A k \in 1..n, x \in S : (x + 1) * Group + s[k].digit \in Nat
  <2> SUFFICES ASSUME NEW k \in 1..n, NEW x \in S PROVE (x + 1) * Group + s[k].digit \in Nat
    OBVIOUS
  <2>1. PICK y \in Nat, d \in Nat : y = x + 1 /\ d = s[k].digit
    BY <1>2
  <2>2. y * Group \in Nat
    BY <1>1
  <2> QED BY <2>1, <2>2
<1>4. g \in [Q -> S]
  <2>1. Nat \subseteq S
    OBVIOUS
  <2> QED BY <1>3, <2>1
<1>5. -1 \in S /\ n \in Nat
  BY <1>1
<1>6. PICK h \in [0..n -> S] : Stepwise(h, n, -1, g)
  <2> DEFINE minus == -1
  <2>1. minus \in S
    BY <1>5
  <2> HIDE DEF S, Q, g, n, minus
  <2>2. Q = (1..n) \X S
    BY DEF Q
  <2>3. \E h \in [0..n -> S] : Stepwise(h, n, minus, g)
    BY <1>4, <1>5, <2>1, <2>2, StepRecursion
  <2> QED BY <2>3 DEF minus
<1>7. \A k \in 0..n : h[k] = IF k = 0 THEN -1 ELSE (h[k - 1] + 1) * Group + s[k].digit
  <2> SUFFICES ASSUME NEW k \in 0..n PROVE h[k] = IF k = 0 THEN -1 ELSE (h[k - 1] + 1) * Group + s[k].digit
    OBVIOUS
  <2>1. k # 0 => k \in 1..n /\ h[k - 1] \in S
    BY <1>5
  <2> QED BY <1>6, <2>1 DEF Stepwise
<1>8. P(h)
  BY <1>7
<1>9. P(f)
  <2> HIDE DEF P
  <2> QED BY <1>8
<1>10. ReadDeltaOffset(s) = f[n]
  BY DEF ReadDeltaOffset
<1> HIDE DEF f
<1>11. \A k \in 0..n : f[k] = h[k]
  <2> DEFINE T == {k \in 0..n : f[k] = h[k]}
  <2>1. 0 \in T
    BY <1>1, <1>7, <1>9
  <2>2. ASSUME NEW k \in 1..n, k - 1 \in T PROVE k \in T
    BY <2>2, <1>7, <1>9
  <2>3. 0..n \subseteq T
    <3> HIDE DEF T, n
    <3> QED BY <1>5, <2>1, <2>2, StepInduction
  <2> QED BY <2>3
<1>12. f[n] = (h[n - 1] + 1) * Group + s[n].digit /\ h[n - 1] \in S /\ n \in 1..n /\ n \in 0..n /\ n # 0
  BY <1>1, <1>5, <1>7, <1>11
<1>13. f[n] \in Nat
  BY <1>3, <1>12
<1>14. n = 1 => f[n] = s[1].digit
  <2> SUFFICES ASSUME n = 1 PROVE f[n] = s[1].digit
    OBVIOUS
  <2>1. h[0] = -1 /\ n - 1 = 0
    BY <1>5, <1>7
  <2>2. f[n] = (-1 + 1) * Group + s[1].digit
    BY <1>12, <2>1
  <2>3. PICK d \in Nat : d = s[1].digit
    BY <1>2
  <2> QED BY <1>1, <2>2, <2>3
<1> QED
  BY <1>10, <1>13, <1>14

\* The values an offset has while it is read.
OffsetSteps(c, s) == c[0] = -1 /\ \A k \in 1..Taken(s) : c[k] = (c[k - 1] + 1) * Group + s[k].digit

\* The last of them is what is read.
LEMMA OffsetStepsEnd ==
  ASSUME NEW s, Ends(s), NEW c, OffsetSteps(c, s)
  PROVE  ReadDeltaOffset(s) = c[Taken(s)]
<1> DEFINE n == Taken(s)
           P(f) == f = [k \in 0..n |-> IF k = 0 THEN -1 ELSE (f[k - 1] + 1) * Group + s[k].digit]
           f == CHOOSE h : P(h)
           h == [k \in 0..n |-> c[k]]
<1>1. n \in 1..Len(s) /\ Len(s) \in Nat /\ n \in Nat
  BY TakenIs DEF Ends
<1>2. P(h)
  <2>1. \A k \in 0..n : c[k] = IF k = 0 THEN -1 ELSE (h[k - 1] + 1) * Group + s[k].digit
    <3> SUFFICES ASSUME NEW k \in 0..n PROVE c[k] = IF k = 0 THEN -1 ELSE (h[k - 1] + 1) * Group + s[k].digit
      OBVIOUS
    <3>1. k # 0 => k - 1 \in 0..n /\ k \in 1..n
      BY <1>1
    <3>2. k # 0 => h[k - 1] = c[k - 1]
      BY <3>1
    <3> HIDE DEF h
    <3> QED BY <3>1, <3>2 DEF OffsetSteps
  <2> QED BY <2>1
<1>3. P(f)
  <2> HIDE DEF P, h
  <2> QED BY <1>2
<1>4. ReadDeltaOffset(s) = f[n]
  BY DEF ReadDeltaOffset
<1> HIDE DEF f, h
<1> DEFINE T == {k \in 0..n : f[k] = c[k]}
<1>5. 0 \in T
  BY <1>1, <1>3 DEF OffsetSteps
<1>6. ASSUME NEW k \in 1..n, k - 1 \in T PROVE k \in T
  BY <1>6, <1>3 DEF OffsetSteps
<1>7. 0..n \subseteq T
  <2> HIDE DEF T, n
  <2> QED BY <1>1, <1>5, <1>6, StepInduction
<1> QED
  BY <1>1, <1>4, <1>7

\* GitOffset does what its definition says.
LEMMA GitOffsetIs ==
  \A n \in Nat :
    /\ GitOffset[n] \in Seq(Part)
    /\ GitOffset[n] = IF n < Group THEN <<LastPart(n)>>
                      ELSE [k \in 1..Len(GitOffset[(n \div Group) - 1]) |->
                              NextPart(GitOffset[(n \div Group) - 1][k].digit)] \o <<LastPart(n % Group)>>
<1> DEFINE V == Seq(Part)
           m == [n \in Nat |-> n]
           B == {n \in Nat : n < Group}
           b == [n \in B |-> <<LastPart(n)>>]
           p == [n \in Nat |-> IF n < Group THEN n ELSE (n \div Group) - 1]
           G(n, high) == [k \in 1..Len(high) |-> NextPart(high[k].digit)] \o <<LastPart(n % Group)>>
           g == [q \in Nat \X V |-> G(q[1], q[2])]
           P(f) == f = [n \in Nat |-> IF n < Group THEN <<LastPart(n)>> ELSE G(n, f[(n \div Group) - 1])]
<1>1. Group \in Nat \ {0} /\ Group > 1
  BY WidthAssumption
<1>2. \A n \in Nat : n % Group \in Nat /\ (n >= Group => (n \div Group) - 1 \in Nat /\ (n \div Group) - 1 < n)
  <2> SUFFICES ASSUME NEW n \in Nat
               PROVE  n % Group \in Nat /\ (n >= Group => (n \div Group) - 1 \in Nat /\ (n \div Group) - 1 < n)
    OBVIOUS
  <2>1. PICK k \in Nat : k = n \div Group /\ k * Group <= n /\ n < k * Group + Group
    BY <1>1, DivIs
  <2>2. n % Group \in 0..Group - 1 /\ (n > 0 => k < n)
    BY <1>1, <2>1, DigitsMake
  <2>3. n >= Group => k # 0
    <3> SUFFICES ASSUME n >= Group, k = 0 PROVE FALSE
      OBVIOUS
    <3> QED BY <1>1, <2>1
  <2> QED BY <1>1, <2>1, <2>2, <2>3
<1>3. m \in [Nat -> Nat] /\ p \in [Nat -> Nat]
  BY <1>1, <1>2
<1>4. b \in [B -> V]
  BY PartsAre
<1>5. g \in [Nat \X V -> V]
  <2>1. \A n \in Nat, s \in V : G(n, s) \in V
    <3> SUFFICES ASSUME NEW n \in Nat, NEW s \in V PROVE G(n, s) \in V
      OBVIOUS
    <3>1. \A k \in 1..Len(s) : s[k].digit \in Nat
      <4>1. \A k \in 1..Len(s) : s[k] \in Part
        OBVIOUS
      <4>2. \A x \in Part : x.digit \in Nat
        BY DEF Part
      <4> QED BY <4>1, <4>2
    <3>2. \A k \in 1..Len(s) : NextPart(s[k].digit) \in Part
      BY <3>1, PartsAre
    <3>3. [k \in 1..Len(s) |-> NextPart(s[k].digit)] \in Seq(Part)
      BY <3>2
    <3>4. <<LastPart(n % Group)>> \in Seq(Part)
      BY <1>2, PartsAre
    <3> QED BY <3>3, <3>4, ConcatProperties
  <2> HIDE DEF G
  <2> QED BY <2>1
<1>6. Descends(m, p, Nat, B)
  BY <1>1, <1>2 DEF Descends
<1> HIDE DEF m, B, b, p, g, G
<1>7. PICK f \in [Nat -> V] : Recurs(f, Nat, B, b, p, g)
  <2> HIDE DEF V
  <2> QED BY <1>3, <1>4, <1>5, <1>6, MeasureRecursion
<1>8. \A n \in Nat : f[n] = IF n < Group THEN <<LastPart(n)>> ELSE G(n, f[(n \div Group) - 1])
  <2> SUFFICES ASSUME NEW n \in Nat
               PROVE  f[n] = IF n < Group THEN <<LastPart(n)>> ELSE G(n, f[(n \div Group) - 1])
    OBVIOUS
  <2>1. f[n] = IF n \in B THEN b[n] ELSE g[<<n, f[p[n]]>>]
    BY <1>7 DEF Recurs
  <2>2. CASE n < Group
    BY <2>1, <2>2 DEF B, b
  <2>3. CASE ~(n < Group)
    <3>1. p[n] = (n \div Group) - 1 /\ p[n] \in Nat /\ n \notin B
      BY <1>1, <1>2, <2>3 DEF p, B
    <3>2. f[p[n]] \in V
      BY <3>1
    <3> QED BY <2>1, <2>3, <3>1, <3>2 DEF g
  <2> QED BY <2>2, <2>3
<1>9. P(f)
  BY <1>8
<1>10. P(GitOffset)
  <2>1. GitOffset = CHOOSE h : P(h)
    BY DEF GitOffset, G
  <2> HIDE DEF P
  <2> QED BY <1>9, <2>1
<1> HIDE DEF P
<1>11. Follows(GitOffset, f, Nat, B, p)
  BY <1>8, <1>10 DEF Follows, B, p, P
<1>12. \A n \in Nat : GitOffset[n] = f[n]
  <2>1. Same(GitOffset, f, Nat)
    BY <1>3, <1>6, <1>11, MeasureSame
  <2> QED BY <2>1 DEF Same
<1>13. \A n \in Nat : GitOffset[n] = IF n < Group THEN <<LastPart(n)>> ELSE G(n, GitOffset[(n \div Group) - 1])
  <2> SUFFICES ASSUME NEW n \in Nat
               PROVE  GitOffset[n] = IF n < Group THEN <<LastPart(n)>> ELSE G(n, GitOffset[(n \div Group) - 1])
    OBVIOUS
  <2>1. n < Group \/ (n \div Group) - 1 \in Nat
    BY <1>1, <1>2
  <2>2. n < Group \/ GitOffset[(n \div Group) - 1] = f[(n \div Group) - 1]
    BY <1>12, <2>1
  <2> QED BY <1>8, <1>12, <2>2
<1> QED
  BY <1>12, <1>13 DEF G

\* The offset git writes is read as it was.
LEMMA OffsetRoundTrip ==
  ASSUME NEW n \in Nat
  PROVE  Ends(GitOffset[n]) /\ ReadDeltaOffset(GitOffset[n]) = n
<1> DEFINE Right(s, x, c) == Ends(s) /\ Taken(s) = Len(s) /\ OffsetSteps(c, s) /\ c[Len(s)] = x
           m == [k \in Nat |-> k]
           S == {x \in Nat : \E c : Right(GitOffset[x], x, c)}
<1>1. m \in [Nat -> Nat]
  OBVIOUS
<1>2. Group \in Nat \ {0} /\ Group > 1
  BY WidthAssumption
<1>3. ASSUME NEW x \in Nat, \A y \in Nat : m[y] < m[x] => y \in S
      PROVE  x \in S
  <2>1. CASE x < Group
    <3> DEFINE s == <<LastPart(x)>>
               c == [k \in 0..1 |-> IF k = 0 THEN -1 ELSE x]
    <3>1. GitOffset[x] = s
      BY <2>1, GitOffsetIs
    <3>2. s \in Seq(Part) /\ Len(s) = 1 /\ s[1].digit = x /\ ~s[1].more
      BY PartsAre
    <3> HIDE DEF s
    <3>3. Ends(s)
      BY <3>2 DEF Ends
    <3>4. Taken(s) = 1
      BY <3>2, <3>3, TakenIs
    <3>5. c[0] = -1 /\ c[1] = x /\ c[1] = (c[0] + 1) * Group + s[1].digit
      BY <1>2, <3>2
    <3> HIDE DEF c
    <3>6. OffsetSteps(c, s)
      BY <3>4, <3>5 DEF OffsetSteps
    <3> QED BY <3>1, <3>2, <3>3, <3>4, <3>5, <3>6
  <2>2. CASE ~(x < Group)
    <3>1. PICK low \in Nat, high \in Nat :
            low = x % Group /\ high = (x \div Group) - 1 /\ low + Group * (high + 1) = x /\ high < x
      <4>1. PICK q \in Nat : q = x \div Group /\ q * Group <= x /\ x < q * Group + Group
        BY <1>2, DivIs
      <4>2. x % Group \in 0..Group - 1 /\ (x % Group) + Group * q = x /\ q < x
        <5>1. x > 0
          BY <1>2, <2>2
        <5> QED BY <1>2, <4>1, <5>1, DigitsMake
      <4>3. q # 0
        <5> SUFFICES ASSUME q = 0 PROVE FALSE
          OBVIOUS
        <5> QED BY <1>2, <2>2, <4>1
      <4>4. q - 1 \in Nat /\ q - 1 < x /\ q - 1 + 1 = q /\ 0..Group - 1 \subseteq Nat
        BY <1>2, <4>2, <4>3
      <4> QED BY <4>1, <4>2, <4>4
    <3> DEFINE t == GitOffset[high]
               u == [k \in 1..Len(t) |-> NextPart(t[k].digit)]
               v == <<LastPart(low)>>
               s == u \o v
    <3>2. GitOffset[x] = s /\ t \in Seq(Part)
      BY <2>2, <3>1, GitOffsetIs
    <3>3. PICK d : Right(t, high, d)
      BY <1>3, <3>1
    <3> HIDE DEF t
    <3>4. \A k \in 1..Len(t) : t[k].digit \in Nat
      <4>1. \A k \in 1..Len(t) : t[k] \in Part
        BY <3>2
      <4>2. \A y \in Part : y.digit \in Nat
        BY DEF Part
      <4> QED BY <4>1, <4>2
    <3>5. \A k \in 1..Len(t) : NextPart(t[k].digit) \in Part
      BY <3>4, PartsAre
    <3>6. u \in Seq(Part) /\ Len(u) = Len(t) /\ Len(t) \in Nat /\ Len(t) # 0
      BY <3>2, <3>3, <3>5 DEF Ends
    <3>7. \A k \in 1..Len(t) : u[k].digit = t[k].digit /\ u[k].more
      BY <3>4, PartsAre
    <3>8. v \in Seq(Part) /\ Len(v) = 1 /\ v[1].digit = low /\ ~v[1].more
      BY PartsAre
    <3> HIDE DEF u, v
    <3> DEFINE l == Len(t)
    <3>9. s \in Seq(Part) /\ Len(s) = l + 1 /\ s[l + 1] = v[1]
      BY <3>6, <3>8, AtTheEnd
    <3>10. \A k \in 1..l : s[k] = u[k]
      BY <3>6, <3>8, ConcatProperties
    <3> HIDE DEF s
    <3>11. Ends(s)
      BY <3>6, <3>8, <3>9 DEF Ends
    <3>12. Taken(s) = l + 1
      <4>1. \A k \in 1..l : s[k].more
        BY <3>7, <3>10
      <4>2. Taken(s) \in 1..l + 1 /\ ~s[Taken(s)].more
        BY <3>9, <3>11, TakenIs
      <4> QED BY <3>6, <4>1, <4>2
    <3> DEFINE c == [k \in 0..l + 1 |-> IF k = l + 1 THEN x ELSE d[k]]
    <3>13. c[0] = -1 /\ c[l + 1] = x /\ \A k \in 0..l : c[k] = d[k]
      BY <3>3, <3>6 DEF OffsetSteps
    <3> HIDE DEF c
    <3>14. ASSUME NEW k \in 1..l + 1 PROVE c[k] = (c[k - 1] + 1) * Group + s[k].digit
      <4>1. CASE k = l + 1
        <5>1. c[k - 1] = high /\ s[k].digit = low /\ c[k] = x
          BY <3>3, <3>6, <3>8, <3>9, <3>13, <4>1
        <5>2. (high + 1) * Group = Group * (high + 1)
          BY <1>2
        <5> QED BY <1>2, <3>1, <5>1, <5>2
      <4>2. CASE k # l + 1
        <5>1. k \in 1..l /\ k - 1 \in 0..l /\ k \in 0..l
          BY <3>6, <4>2
        <5>2. d[k] = (d[k - 1] + 1) * Group + t[k].digit
          BY <3>3, <5>1 DEF OffsetSteps
        <5>3. s[k].digit = t[k].digit /\ c[k] = d[k] /\ c[k - 1] = d[k - 1]
          BY <3>7, <3>10, <3>13, <5>1
        <5> QED BY <5>2, <5>3
      <4> QED BY <4>1, <4>2
    <3>15. OffsetSteps(c, s)
      BY <3>12, <3>13, <3>14 DEF OffsetSteps
    <3> QED BY <3>2, <3>9, <3>11, <3>12, <3>13, <3>15
  <2> QED BY <2>1, <2>2
<1>4. Nat \subseteq S
  <2> HIDE DEF m, S
  <2> QED BY <1>1, <1>3, MeasureInduction
<1>5. PICK c : Right(GitOffset[n], n, c)
  BY <1>4
<1> QED
  BY <1>5, OffsetStepsEnd

-----------------------------------------------------------------------------
(* Instructions as they are read.                                          *)

\* What is left of an instruction while it is read.
LEMMA LeftIs ==
  ASSUME NEW code \in Seq(Coded), code # <<>>
  PROVE  /\ Left(code, 0) = Tail(code)
         /\ \A k \in 0..7 : Left(code, k) \in Seq(Coded) /\ Len(Left(code, k)) < Len(code)
         /\ \A k \in 1..7 : Left(code, k) = IF k - 1 \in Head(code).bits /\ Left(code, k - 1) # <<>>
                                            THEN Tail(Left(code, k - 1)) ELSE Left(code, k - 1)
<1> DEFINE S == {s \in Seq(Coded) : Len(s) < Len(code)}
           n == 7
           Q == (1..n) \X S
           x == Tail(code)
           bits == Head(code).bits
           G(k, s) == IF k - 1 \in bits /\ s # <<>> THEN Tail(s) ELSE s
           g == [q \in Q |-> G(q[1], q[2])]
           P(f) == f = [k \in 0..7 |-> IF k = 0 THEN Tail(code)
                                       ELSE IF k - 1 \in Head(code).bits /\ f[k - 1] # <<>>
                                            THEN Tail(f[k - 1]) ELSE f[k - 1]]
           f == CHOOSE h : P(h)
<1>1. x \in S
  BY TailIsShorter
<1>2. \A k \in 1..n, s \in S : G(k, s) \in S
  <2> SUFFICES ASSUME NEW k \in 1..n, NEW s \in S PROVE G(k, s) \in S
    OBVIOUS
  <2>1. s # <<>> => Tail(s) \in Seq(Coded) /\ Len(Tail(s)) = Len(s) - 1 /\ Len(s) \in Nat
    BY TailIsShorter
  <2>2. s # <<>> => Tail(s) \in S
    BY <2>1
  <2> QED BY <2>2
<1> HIDE DEF G
<1>3. g \in [Q -> S]
  BY <1>2
<1> HIDE DEF S, x
<1>4. PICK h \in [0..n -> S] : Stepwise(h, n, x, g)
  <2>1. n \in Nat /\ Q = (1..n) \X S
    OBVIOUS
  <2> HIDE DEF n, Q, g
  <2> QED BY <1>1, <1>3, <2>1, StepRecursion
<1>5. \A k \in 0..n : h[k] = IF k = 0 THEN x ELSE G(k, h[k - 1])
  <2> SUFFICES ASSUME NEW k \in 0..n PROVE h[k] = IF k = 0 THEN x ELSE G(k, h[k - 1])
    OBVIOUS
  <2>1. k # 0 => k \in 1..n /\ h[k - 1] \in S
    OBVIOUS
  <2> QED BY <1>4, <2>1 DEF Stepwise
<1>6. P(h)
  BY <1>5 DEF G, x
<1>7. P(f)
  <2> HIDE DEF P
  <2> QED BY <1>6
<1>8. \A k : Left(code, k) = f[k]
  BY DEF Left
<1> HIDE DEF f
<1>9. \A k \in 0..7 : f[k] = IF k = 0 THEN x ELSE G(k, f[k - 1])
  BY <1>7 DEF G, x
<1>10. 0..7 \subseteq {k \in 0..7 : f[k] \in S}
  <2> DEFINE T == {k \in 0..7 : f[k] \in S}
  <2>1. 0 \in T
    BY <1>1, <1>9
  <2>2. ASSUME NEW k \in 1..7, k - 1 \in T PROVE k \in T
    BY <1>2, <1>9, <2>2
  <2>3. 7 \in Nat
    OBVIOUS
  <2> HIDE DEF T
  <2>4. 0..7 \subseteq T
    BY <2>1, <2>2, <2>3, StepInduction
  <2> QED BY <2>4 DEF T
<1>11. \A k \in 0..7 : Left(code, k) \in Seq(Coded) /\ Len(Left(code, k)) < Len(code)
  BY <1>8, <1>10 DEF S
<1>12. Left(code, 0) = Tail(code)
  BY <1>8, <1>9 DEF x
<1>13. \A k \in 1..7 : f[k] = G(k, f[k - 1])
  BY <1>9
<1> QED
  BY <1>8, <1>11, <1>12, <1>13 DEF G

\* A byte that is read is a number.
LEMMA FieldIs ==
  ASSUME NEW code \in Seq(Coded), code # <<>>, ~CutShort(code), NEW k \in 0..6
  PROVE  Field(code, k) \in Nat
<1>1. CASE k \notin Head(code).bits
  BY <1>1 DEF Field
<1>2. CASE k \in Head(code).bits
  <2>1. Left(code, k) \in Seq(Coded) /\ Left(code, k) # <<>>
    <3>1. k \in 0..7
      OBVIOUS
    <3>2. Left(code, k) \in Seq(Coded)
      BY <3>1, LeftIs
    <3> QED BY <1>2, <3>2 DEF CutShort
  <2>2. Head(Left(code, k)) \in Coded
    BY <2>1, TailIsShorter
  <2> QED BY <1>2, <2>2 DEF Field, Coded
<1> QED
  BY <1>1, <1>2

\* So are the offset and the length.
LEMMA CopyIs ==
  ASSUME NEW code \in Seq(Coded), code # <<>>, ~CutShort(code)
  PROVE  OffsetIn(code) \in Nat /\ LengthIn(code) \in Nat
<1>1. Byte \in Nat
  BY WidthAssumption
<1>2. \A a, b \in Nat : a + Byte * b \in Nat
  <2> SUFFICES ASSUME NEW a \in Nat, NEW b \in Nat PROVE a + Byte * b \in Nat
    OBVIOUS
  <2>1. PICK c \in Nat : c = Byte * b
    BY <1>1
  <2> QED BY <2>1
<1>3. /\ Field(code, 0) \in Nat /\ Field(code, 1) \in Nat /\ Field(code, 2) \in Nat /\ Field(code, 3) \in Nat
      /\ Field(code, 4) \in Nat /\ Field(code, 5) \in Nat /\ Field(code, 6) \in Nat
  <2>1. 0 \in 0..6 /\ 1 \in 0..6 /\ 2 \in 0..6 /\ 3 \in 0..6 /\ 4 \in 0..6 /\ 5 \in 0..6 /\ 6 \in 0..6
    OBVIOUS
  <2> QED BY <2>1, FieldIs
<1>4. PICK a \in Nat, b \in Nat, c \in Nat, d \in Nat, x \in Nat, y \in Nat, z \in Nat :
        /\ a = Field(code, 0) /\ b = Field(code, 1) /\ c = Field(code, 2) /\ d = Field(code, 3)
        /\ x = Field(code, 4) /\ y = Field(code, 5) /\ z = Field(code, 6)
  BY <1>3
<1>5. a + Byte * (b + Byte * (c + Byte * d)) \in Nat
  <2>1. c + Byte * d \in Nat
    BY <1>2
  <2>2. b + Byte * (c + Byte * d) \in Nat
    BY <1>2, <2>1
  <2> QED BY <1>2, <2>2
<1>6. x + Byte * (y + Byte * z) \in Nat
  <2>1. y + Byte * z \in Nat
    BY <1>2
  <2> QED BY <1>2, <2>1
<1>7. Byte * Byte \in Nat
  BY <1>1
<1> QED
  BY <1>4, <1>5, <1>6, <1>7 DEF OffsetIn, LengthIn

Results == [content : Seq(Nat), ok : BOOLEAN]

\* What is read of the whole of it.
LEMMA ResultsAre ==
  ASSUME NEW c \in Seq(Nat)
  PROVE  /\ Ended(c) \in Results /\ Ended(c).content = c /\ Ended(c).ok
         /\ Failed(c) \in Results /\ Failed(c).content = c /\ ~Failed(c).ok
  BY DEF Ended, Failed, Results

\* What comes before what is read.
LEMMA AfterIs ==
  ASSUME NEW c \in Seq(Nat), NEW r \in Results
  PROVE  /\ After(c, r) \in Results
         /\ After(c, r).content = c \o r.content /\ After(c, r).ok = r.ok
<1>1. r.content \in Seq(Nat) /\ r.ok \in BOOLEAN
  BY DEF Results
<1>2. c \o r.content \in Seq(Nat)
  BY <1>1, ConcatProperties
<1> DEFINE v == c \o r.content
           w == [r EXCEPT !.content = v]
<1>3. After(c, r) = w
  BY DEF After
<1> HIDE DEF v
<1>4. w \in Results /\ w.content = v /\ w.ok = r.ok
  BY <1>1, <1>2 DEF Results, v
<1> QED
  BY <1>3, <1>4 DEF v

\* The bytes of an insertion are numbers.
LEMMA DataIs ==
  ASSUME NEW code \in Seq(Coded), NEW n \in Nat, n < Len(code)
  PROVE  DataIn(code, n) \in Seq(Nat) /\ Len(DataIn(code, n)) = n
<1>1. \A k \in 1..n : code[k + 1] \in Coded
  OBVIOUS
<1>2. \A k \in 1..n : code[k + 1].value \in Nat
  BY <1>1 DEF Coded
<1> QED
  BY <1>2 DEF DataIn

\* What remains after the first elements of a sequence.
LEMMA FromIs ==
  ASSUME NEW S, NEW s \in Seq(S), NEW n \in 0..Len(s)
  PROVE  /\ From(s, n) \in Seq(S) /\ Len(From(s, n)) = Len(s) - n /\ From(s, n) = Slice(s, n, Len(s))
         /\ \A i \in 1..Len(s) - n : From(s, n)[i] = s[n + i]
<1>1. n \in Nat /\ Len(s) \in n..Len(s)
  OBVIOUS
<1> QED
  BY <1>1, SliceIs DEF From, Slice

\* Where the reading ends, what is read then, and elsewhere what is read
\* before the rest.
Stops(code, base) ==
  \/ code = <<>>
  \/ 7 \notin Head(code).bits /\ Head(code).value >= Len(code)
  \/ 7 \in Head(code).bits /\ (CutShort(code) \/ OffsetIn(code) + LengthIn(code) > Len(base)
                               \/ OffsetIn(code) >= Len(base))
Stopped(code, base) ==
  IF code = <<>> THEN Ended(<<>>)
  ELSE IF 7 \notin Head(code).bits THEN Failed(DataIn(code, Len(code) - 1))
  ELSE IF CutShort(code) \/ OffsetIn(code) >= Len(base) THEN Ended(<<>>) ELSE Failed(From(base, OffsetIn(code)))
Piece(code, base) ==
  IF 7 \notin Head(code).bits THEN DataIn(code, Head(code).value) ELSE CopyIn(code, base)
Rest(code) == IF 7 \notin Head(code).bits THEN From(code, Head(code).value + 1) ELSE Left(code, 7)

\* They are contents and codes.
LEMMA PiecesAre ==
  ASSUME NEW base \in Seq(Nat), NEW code \in Seq(Coded)
  PROVE  /\ Stops(code, base) => Stopped(code, base) \in Results
         /\ ~Stops(code, base) => /\ Piece(code, base) \in Seq(Nat)
                                  /\ Rest(code) \in Seq(Coded) /\ Len(Rest(code)) < Len(code)
<1> DEFINE e == <<>>
<1>0. e \in Seq(Nat) /\ Ended(e) \in Results
  <2>1. e \in Seq(Nat)
    OBVIOUS
  <2> HIDE DEF e
  <2> QED BY <2>1, ResultsAre
<1>1. CASE code = <<>>
  BY <1>0, <1>1 DEF Stops, Stopped
<1>2. CASE code # <<>> /\ 7 \notin Head(code).bits
  <2>1. Head(code) \in Coded /\ Len(code) \in Nat \ {0}
    BY <1>2, TailIsShorter
  <2>2. Head(code).value \in Nat
    BY <2>1 DEF Coded
  <2>3. DataIn(code, Len(code) - 1) \in Seq(Nat)
    BY <2>1, DataIs
  <2>4. Stopped(code, base) \in Results
    BY <1>2, <2>3, ResultsAre DEF Stopped
  <2>5. ASSUME ~Stops(code, base)
        PROVE  /\ Piece(code, base) \in Seq(Nat)
               /\ Rest(code) \in Seq(Coded) /\ Len(Rest(code)) < Len(code)
    <3>1. Head(code).value < Len(code)
      BY <1>2, <2>1, <2>2, <2>5 DEF Stops
    <3>2. Head(code).value + 1 \in 0..Len(code)
      BY <2>1, <2>2, <3>1
    <3>3. Rest(code) \in Seq(Coded) /\ Len(Rest(code)) = Len(code) - (Head(code).value + 1)
      BY <1>2, <3>2, FromIs DEF Rest
    <3>4. Piece(code, base) \in Seq(Nat)
      BY <1>2, <2>2, <3>1, DataIs DEF Piece
    <3> QED BY <2>1, <2>2, <3>3, <3>4
  <2> QED BY <2>4, <2>5
<1>3. CASE code # <<>> /\ 7 \in Head(code).bits
  <2>1. ~CutShort(code) => OffsetIn(code) \in Nat /\ LengthIn(code) \in Nat
    BY <1>3, CopyIs
  <2>2. ~CutShort(code) /\ ~(OffsetIn(code) >= Len(base)) => From(base, OffsetIn(code)) \in Seq(Nat)
    <3> SUFFICES ASSUME ~CutShort(code), ~(OffsetIn(code) >= Len(base)) PROVE From(base, OffsetIn(code)) \in Seq(Nat)
      OBVIOUS
    <3>1. OffsetIn(code) \in 0..Len(base)
      BY <2>1
    <3> QED BY <3>1, FromIs
  <2>3. Stopped(code, base) \in Results
    BY <1>0, <1>3, <2>2, ResultsAre DEF Stopped
  <2>4. ASSUME ~Stops(code, base)
        PROVE  /\ Piece(code, base) \in Seq(Nat)
               /\ Rest(code) \in Seq(Coded) /\ Len(Rest(code)) < Len(code)
    <3>1. OffsetIn(code) \in Nat /\ OffsetIn(code) + LengthIn(code) \in OffsetIn(code)..Len(base)
      BY <1>3, <2>1, <2>4 DEF Stops
    <3>2. Piece(code, base) \in Seq(Nat)
      BY <1>3, <3>1, SliceIs DEF Piece, CopyIn, Slice
    <3>3. 7 \in 0..7
      OBVIOUS
    <3>4. Rest(code) \in Seq(Coded) /\ Len(Rest(code)) < Len(code)
      BY <1>3, <3>3, LeftIs DEF Rest
    <3> QED BY <3>2, <3>4
  <2> QED BY <2>3, <2>4
<1> QED
  BY <1>1, <1>2, <1>3

\* ReadCode does what its definition says.
LEMMA ReadCodeIs ==
  ASSUME NEW base \in Seq(Nat), NEW code \in Seq(Coded)
  PROVE  /\ ReadCode(code, base) \in Results
         /\ ReadCode(code, base) = IF Stops(code, base) THEN Stopped(code, base)
                                   ELSE After(Piece(code, base), ReadCode(Rest(code), base))
<1> DEFINE D == Seq(Coded)
           m == [c \in D |-> Len(c)]
           B == {c \in D : Stops(c, base)}
           b == [c \in B |-> Stopped(c, base)]
           p == [c \in D |-> IF Stops(c, base) THEN c ELSE Rest(c)]
           g == [q \in D \X Results |-> IF Stops(q[1], base) THEN Stopped(q[1], base)
                                        ELSE After(Piece(q[1], base), q[2])]
           body(c, f) ==
             IF c = <<>> THEN Ended(<<>>)
             ELSE IF 7 \notin Head(c).bits
             THEN LET n == Head(c).value
                  IN IF n >= Len(c) THEN Failed(DataIn(c, Len(c) - 1))
                     ELSE After(DataIn(c, n), f[From(c, n + 1)])
             ELSE IF CutShort(c) \/ OffsetIn(c) >= Len(base) THEN Ended(<<>>)
             ELSE IF OffsetIn(c) + LengthIn(c) > Len(base) THEN Failed(From(base, OffsetIn(c)))
             ELSE After(CopyIn(c, base), f[Left(c, 7)])
           P(f) == f = [c \in Seq(Coded) |-> body(c, f)]
           F == CHOOSE h : P(h)
<1>1. \A c \in D : /\ Stops(c, base) => Stopped(c, base) \in Results
                   /\ ~Stops(c, base) => /\ Piece(c, base) \in Seq(Nat)
                                         /\ Rest(c) \in D /\ Len(Rest(c)) < Len(c)
  BY PiecesAre
<1>2. m \in [D -> Nat] /\ p \in [D -> D] /\ b \in [B -> Results]
  BY <1>1
<1>3. g \in [D \X Results -> Results]
  <2>1. \A c \in D, r \in Results : ~Stops(c, base) => After(Piece(c, base), r) \in Results
    BY <1>1, AfterIs
  <2> QED BY <1>1, <2>1
<1>4. Descends(m, p, D, B)
  BY <1>1 DEF Descends
<1> HIDE DEF m, b, p, g, B
<1>5. PICK f \in [D -> Results] : Recurs(f, D, B, b, p, g)
  <2> HIDE DEF D
  <2> QED BY <1>2, <1>3, <1>4, MeasureRecursion
<1>6. \A c \in D : f[c] = IF Stops(c, base) THEN Stopped(c, base) ELSE After(Piece(c, base), f[Rest(c)])
  <2> SUFFICES ASSUME NEW c \in D
               PROVE  f[c] = IF Stops(c, base) THEN Stopped(c, base) ELSE After(Piece(c, base), f[Rest(c)])
    OBVIOUS
  <2>1. f[c] = IF c \in B THEN b[c] ELSE g[<<c, f[p[c]]>>]
    BY <1>5 DEF Recurs
  <2>2. CASE Stops(c, base)
    BY <2>1, <2>2 DEF B, b
  <2>3. CASE ~Stops(c, base)
    <3>1. p[c] = Rest(c) /\ p[c] \in D /\ c \notin B
      BY <1>1, <2>3 DEF p, B
    <3>2. f[p[c]] \in Results
      BY <3>1
    <3> QED BY <2>1, <2>3, <3>1, <3>2 DEF g
  <2> QED BY <2>2, <2>3
<1>7. ASSUME NEW c \in D, NEW h
      PROVE  body(c, h) = IF Stops(c, base) THEN Stopped(c, base) ELSE After(Piece(c, base), h[Rest(c)])
  BY DEF Stops, Stopped, Piece, Rest
<1>8. P(f)
  <2> HIDE DEF body
  <2>1. \A c \in D : f[c] = body(c, f)
    BY <1>6, <1>7
  <2> QED BY <2>1
<1>9. P(F)
  <2> HIDE DEF P
  <2> QED BY <1>8
<1>10. \A c : ReadCode(c, base) = F[c]
  BY DEF ReadCode
<1> HIDE DEF F
<1>11. \A c \in D : F[c] = IF Stops(c, base) THEN Stopped(c, base) ELSE After(Piece(c, base), F[Rest(c)])
  <2> HIDE DEF body
  <2> QED BY <1>7, <1>9
<1> HIDE DEF P
<1>12. Follows(F, f, D, B, p)
  <2> SUFFICES ASSUME NEW c \in D, c \in B \/ F[p[c]] = f[p[c]] PROVE F[c] = f[c]
    BY DEF Follows
  <2>1. Stops(c, base) \/ F[Rest(c)] = f[Rest(c)]
    BY DEF B, p
  <2> QED BY <1>6, <1>11, <2>1
<1>13. \A c \in D : F[c] = f[c]
  <2>1. Same(F, f, D)
    BY <1>2, <1>4, <1>12, MeasureSame
  <2> QED BY <2>1 DEF Same
<1> QED
  BY <1>10, <1>11, <1>13

\* No error is a content.
LEMMA BadIsNone == Bad \notin Seq(Nat)
<1> SUFFICES ASSUME Bad \in Seq(Nat) PROVE FALSE
  OBVIOUS
<1>1. Len(Bad) = 1 /\ Bad[1] = -1
  BY DEF Bad
<1>2. Bad[1] \in Nat
  BY <1>1
<1> QED
  BY <1>1, <1>2

\* What is read with a delta is a content or none.
LEMMA ReadAllIs ==
  ASSUME NEW delta, delta.code \in Seq(Coded), NEW base \in Seq(Nat)
  PROVE  /\ ReadAll(delta, base) \in Seq(Nat) \cup {Bad}
         /\ ReadAll(delta, base) # Bad => ReadAll(delta, base) = ReadCode(delta.code, base).content
         /\ ReadAll(delta, base) # Bad <=> ReadCode(delta.code, base).ok
<1>1. ReadCode(delta.code, base) \in Results
  BY ReadCodeIs
<1>2. ReadCode(delta.code, base).content \in Seq(Nat)
  BY <1>1 DEF Results
<1>3. ReadCode(delta.code, base).content # Bad
  BY <1>2, BadIsNone
<1> QED
  BY <1>2, <1>3 DEF ReadAll, WithoutError

-----------------------------------------------------------------------------
(* Instructions as they are written.                                       *)

\* What follows a beginning.
LEMMA Following ==
  ASSUME NEW S, NEW x \in Seq(S), NEW y \in Seq(S)
  PROVE  /\ x \o y \in Seq(S) /\ Len(x \o y) = Len(x) + Len(y)
         /\ From(x \o y, Len(x)) = y
         /\ \A i \in 1..Len(x) : (x \o y)[i] = x[i]
<1> DEFINE s == x \o y
           t == From(s, Len(x))
<1>1. /\ s \in Seq(S) /\ Len(s) = Len(x) + Len(y) /\ Len(x) \in Nat /\ Len(y) \in Nat
      /\ \A i \in 1..Len(x) : s[i] = x[i]
      /\ \A i \in 1..Len(y) : s[Len(x) + i] = y[i]
  <2>1. s \in Seq(S) /\ Len(s) = Len(x) + Len(y)
    BY ConcatProperties
  <2>2. \A i \in 1..Len(x) + Len(y) : s[i] = IF i <= Len(x) THEN x[i] ELSE y[i - Len(x)]
    BY ConcatProperties
  <2> HIDE DEF s
  <2>3. Len(x) \in Nat /\ Len(y) \in Nat
    OBVIOUS
  <2>4. \A i \in 1..Len(x) : s[i] = x[i]
    BY <2>2, <2>3
  <2>5. \A i \in 1..Len(y) : Len(x) + i \in 1..Len(x) + Len(y) /\ ~(Len(x) + i <= Len(x)) /\ Len(x) + i - Len(x) = i
    BY <2>3
  <2>6. \A i \in 1..Len(y) : s[Len(x) + i] = y[i]
    BY <2>2, <2>5
  <2> QED BY <2>1, <2>3, <2>4, <2>6
<1> HIDE DEF s
<1>2. Len(x) \in 0..Len(s) /\ Len(s) - Len(x) = Len(y)
  BY <1>1
<1>3. t \in Seq(S) /\ Len(t) = Len(y) /\ \A i \in 1..Len(y) : t[i] = s[Len(x) + i]
  BY ZenonT(30), <1>1, <1>2, FromIs
<1> HIDE DEF t
<1>4. \A i \in 1..Len(y) : t[i] = y[i]
  BY <1>1, <1>3
<1>5. t = y
  BY <1>3, <1>4, SeqEqual
<1> QED
  BY <1>1, <1>5 DEF s, t

\* Concatenation may be read in any order.
LEMMA JoinedAgain ==
  ASSUME NEW S, NEW x \in Seq(S), NEW y \in Seq(S), NEW z \in Seq(S)
  PROVE  (x \o y) \o z = x \o (y \o z)
  BY ConcatAssociative

\* Nothing before or after changes nothing.
LEMMA JoinedEmpty ==
  ASSUME NEW S, NEW x \in Seq(S)
  PROVE  x \o <<>> = x /\ <<>> \o x = x
  OBVIOUS

\* What is read is its content and how it ended.
LEMMA SameResults ==
  ASSUME NEW a \in Results, NEW b \in Results, a.content = b.content, a.ok = b.ok
  PROVE  a = b
<1>1. a = [content |-> a.content, ok |-> a.ok]
  BY Zenon DEF Results
<1>2. b = [content |-> b.content, ok |-> b.ok]
  BY Zenon DEF Results
<1> QED
  BY Zenon, <1>1, <1>2

\* Two things that come before what is read.
LEMMA AfterTwo ==
  ASSUME NEW c \in Seq(Nat), NEW d \in Seq(Nat), NEW r \in Results
  PROVE  After(c, After(d, r)) = After(c \o d, r)
<1> DEFINE e == c \o d
<1>1. After(d, r) \in Results /\ After(d, r).content = d \o r.content /\ After(d, r).ok = r.ok
  BY AfterIs
<1>2. e \in Seq(Nat)
  BY ConcatProperties
<1>3. r.content \in Seq(Nat)
  BY DEF Results
<1>4. e \o r.content = c \o (d \o r.content)
  <2>1. PICK q \in Seq(Nat) : q = r.content
    BY <1>3
  <2>2. (c \o d) \o q = c \o (d \o q)
    BY SMTT(30), JoinedAgain
  <2> QED BY <2>1, <2>2
<1> HIDE DEF e
<1> DEFINE v == After(d, r)
           a == After(c, v)
           b == After(e, r)
<1>5. a \in Results /\ a.content = c \o v.content /\ a.ok = v.ok
  <2> HIDE DEF v
  <2> QED BY <1>1, AfterIs DEF v
<1>6. b \in Results /\ b.content = e \o r.content /\ b.ok = r.ok
  BY <1>2, AfterIs
<1>7. a.content = b.content /\ a.ok = b.ok
  BY <1>1, <1>4, <1>5, <1>6
<1> HIDE DEF a, b
<1>8. a = b
  BY <1>5, <1>6, <1>7, SameResults
<1> QED
  BY <1>8 DEF a, b, e, v

\* What comes before all of what is read.
LEMMA AfterEnded ==
  ASSUME NEW c \in Seq(Nat), NEW d \in Seq(Nat)
  PROVE  After(c, Ended(d)) = Ended(c \o d)
<1> DEFINE e == c \o d
           v == Ended(d)
           a == After(c, v)
           b == Ended(e)
<1>1. v \in Results /\ v.content = d /\ v.ok
  BY ResultsAre
<1>2. e \in Seq(Nat)
  BY ConcatProperties
<1> HIDE DEF v
<1>3. a \in Results /\ a.content = c \o d /\ a.ok = v.ok
  BY <1>1, AfterIs
<1> HIDE DEF e
<1>4. b \in Results /\ b.content = e /\ b.ok
  BY <1>2, ResultsAre
<1> HIDE DEF a, b
<1>5. a.ok \in BOOLEAN /\ b.ok \in BOOLEAN /\ a.ok = b.ok /\ a.content = b.content
  BY <1>1, <1>3, <1>4 DEF Results, e
<1>6. a = b
  BY <1>3, <1>4, <1>5, SameResults
<1> QED
  BY <1>6 DEF a, b, e, v

\* The bytes of the code.
LEMMA CodedAre ==
  /\ \A n \in Nat : Plain(n) \in Coded /\ Plain(n).value = n /\ 7 \notin Plain(n).bits
  /\ \A b \in SUBSET (0..6) : /\ CopyByte(b) \in Coded /\ 7 \in CopyByte(b).bits
                              /\ \A k \in 0..6 : k \in CopyByte(b).bits <=> k \in b
<1>1. \A n \in Nat : Plain(n) \in Coded /\ Plain(n).value = n /\ 7 \notin Plain(n).bits
  BY DEF Plain, Coded
<1>2. ASSUME NEW b \in SUBSET (0..6)
      PROVE  /\ CopyByte(b) \in Coded /\ 7 \in CopyByte(b).bits
             /\ \A k \in 0..6 : k \in CopyByte(b).bits <=> k \in b
  <2> DEFINE c == b \cup {7}
  <2>1. c \in SUBSET (0..7) /\ 7 \in c /\ \A k \in 0..6 : k \in c <=> k \in b
    OBVIOUS
  <2> HIDE DEF c
  <2>2. CopyByte(b) = [value |-> 0, bits |-> c]
    BY DEF CopyByte, c
  <2> QED BY <2>1, <2>2 DEF Coded
<1> QED
  BY <1>1, <1>2

\* How much one insertion has of the data, and its bytes.
Most(data) == IF Len(data) <= InsertMax THEN Len(data) ELSE InsertMax
Insertion(data) == <<Plain(Most(data))>> \o [k \in 1..Most(data) |-> Plain(data[k])]

\* It has at least one symbol, and as many as one instruction can.
LEMMA InsertionIs ==
  ASSUME NEW data \in Seq(Nat), data # <<>>
  PROVE  /\ Most(data) \in 1..Len(data) /\ From(data, Most(data)) \in Seq(Nat)
         /\ Len(From(data, Most(data))) < Len(data)
         /\ Insertion(data) \in Seq(Coded) /\ Len(Insertion(data)) = Most(data) + 1
         /\ Insertion(data)[1] = Plain(Most(data))
         /\ \A k \in 1..Most(data) : Insertion(data)[k + 1] = Plain(data[k])
<1> DEFINE n == Most(data)
           x == <<Plain(n)>>
           y == [k \in 1..n |-> Plain(data[k])]
<1>1. n \in 1..Len(data) /\ Len(data) \in Nat
  <2>1. Len(data) \in Nat \ {0} /\ InsertMax \in Nat \ {0}
    BY WidthAssumption
  <2> QED BY <2>1 DEF Most
<1> HIDE DEF n
<1>2. x \in Seq(Coded) /\ Len(x) = 1 /\ x[1] = Plain(n)
  BY <1>1, CodedAre
<1>3. y \in Seq(Coded) /\ Len(y) = n /\ \A k \in 1..n : y[k] = Plain(data[k])
  <2>1. \A k \in 1..n : data[k] \in Nat
    BY <1>1
  <2>2. \A k \in 1..n : Plain(data[k]) \in Coded
    BY <2>1, CodedAre
  <2> QED BY <1>1, <2>2
<1>4. Insertion(data) = x \o y
  BY DEF Insertion, n
<1> HIDE DEF x, y
<1> DEFINE s == x \o y
<1>5. /\ s \in Seq(Coded) /\ Len(s) = 1 + n
      /\ \A i \in 1..1 + n : s[i] = IF i <= 1 THEN x[i] ELSE y[i - 1]
  <2>1. x \in Seq(Coded) /\ y \in Seq(Coded)
    BY <1>2, <1>3
  <2>2. /\ s \in Seq(Coded) /\ Len(s) = Len(x) + Len(y)
        /\ \A i \in 1..Len(x) + Len(y) : s[i] = IF i <= Len(x) THEN x[i] ELSE y[i - Len(x)]
    BY <2>1, ConcatProperties
  <2> HIDE DEF s
  <2> QED BY <1>2, <1>3, <2>2
<1> HIDE DEF s
<1>6. s[1] = x[1] /\ \A k \in 1..n : s[k + 1] = y[k]
  <2>1. s[1] = x[1]
    BY <1>1, <1>5
  <2>2. ASSUME NEW k \in 1..n PROVE s[k + 1] = y[k]
    <3>1. k + 1 \in 1..1 + n /\ ~(k + 1 <= 1) /\ k + 1 - 1 = k
      BY <1>1
    <3> QED BY <1>5, <3>1
  <2> QED BY <2>1, <2>2
<1>7. From(data, n) \in Seq(Nat) /\ Len(From(data, n)) = Len(data) - n
  BY <1>1, FromIs
<1> QED
  BY <1>1, <1>2, <1>3, <1>4, <1>5, <1>6, <1>7 DEF n, s

\* WriteInsert does what its definition says.
LEMMA WriteInsertIs ==
  /\ WriteInsert \in [Seq(Nat) -> Seq(Coded)]
  /\ \A data \in Seq(Nat) :
       WriteInsert[data] = IF data = <<>> THEN <<>>
                           ELSE Insertion(data) \o WriteInsert[From(data, Most(data))]
<1> DEFINE D == Seq(Nat)
           V == Seq(Coded)
           m == [s \in D |-> Len(s)]
           B == {s \in D : s = <<>>}
           b == [s \in B |-> <<>>]
           p == [s \in D |-> IF s = <<>> THEN s ELSE From(s, Most(s))]
           g == [q \in D \X V |-> IF q[1] = <<>> THEN <<>> ELSE Insertion(q[1]) \o q[2]]
           body(s, f) == IF s = <<>> THEN <<>>
                         ELSE LET n == IF Len(s) <= InsertMax THEN Len(s) ELSE InsertMax
                              IN (<<Plain(n)>> \o [k \in 1..n |-> Plain(s[k])]) \o f[From(s, n)]
           P(f) == f = [s \in Seq(Nat) |-> body(s, f)]
<1>1. \A s \in D : s # <<>> => /\ From(s, Most(s)) \in D /\ Len(From(s, Most(s))) < Len(s)
                               /\ Insertion(s) \in V
  BY InsertionIs
<1>2. m \in [D -> Nat] /\ p \in [D -> D] /\ b \in [B -> V]
  BY <1>1
<1>3. g \in [D \X V -> V]
  <2>1. \A s \in D, t \in V : s # <<>> => Insertion(s) \o t \in V
    BY <1>1, ConcatProperties
  <2> QED BY <2>1
<1>4. Descends(m, p, D, B)
  BY <1>1 DEF Descends
<1> HIDE DEF m, b, p, g, B
<1>5. PICK f \in [D -> V] : Recurs(f, D, B, b, p, g)
  <2> HIDE DEF D, V
  <2> QED BY <1>2, <1>3, <1>4, MeasureRecursion
<1>6. \A s \in D : f[s] = IF s = <<>> THEN <<>> ELSE Insertion(s) \o f[From(s, Most(s))]
  <2> SUFFICES ASSUME NEW s \in D
               PROVE  f[s] = IF s = <<>> THEN <<>> ELSE Insertion(s) \o f[From(s, Most(s))]
    OBVIOUS
  <2>1. f[s] = IF s \in B THEN b[s] ELSE g[<<s, f[p[s]]>>]
    BY <1>5 DEF Recurs
  <2>2. CASE s = <<>>
    BY <2>1, <2>2 DEF B, b
  <2>3. CASE s # <<>>
    <3>1. p[s] = From(s, Most(s)) /\ p[s] \in D /\ s \notin B
      BY <1>1, <2>3 DEF p, B
    <3>2. f[p[s]] \in V
      BY <3>1
    <3> QED BY <2>1, <2>3, <3>1, <3>2 DEF g
  <2> QED BY <2>2, <2>3
<1>7. ASSUME NEW s, NEW h PROVE body(s, h) = IF s = <<>> THEN <<>> ELSE Insertion(s) \o h[From(s, Most(s))]
  BY DEF Insertion, Most
<1>8. P(f)
  <2> HIDE DEF body
  <2>1. \A s \in D : f[s] = body(s, f)
    BY <1>6, <1>7
  <2> QED BY <2>1
<1>9. P(WriteInsert)
  <2>1. WriteInsert = CHOOSE h : P(h)
    BY DEF WriteInsert
  <2> HIDE DEF P
  <2> QED BY <1>8, <2>1
<1> HIDE DEF body
<1>10. \A s \in D : WriteInsert[s] = IF s = <<>> THEN <<>> ELSE Insertion(s) \o WriteInsert[From(s, Most(s))]
  BY <1>7, <1>9
<1>11. WriteInsert = [s \in D |-> WriteInsert[s]]
  BY <1>9
<1> HIDE DEF P
<1>12. Follows(WriteInsert, f, D, B, p)
  <2> SUFFICES ASSUME NEW s \in D, s \in B \/ WriteInsert[p[s]] = f[p[s]] PROVE WriteInsert[s] = f[s]
    BY DEF Follows
  <2>1. s = <<>> \/ WriteInsert[From(s, Most(s))] = f[From(s, Most(s))]
    BY DEF B, p
  <2> QED BY <1>6, <1>10, <2>1
<1>13. \A s \in D : WriteInsert[s] = f[s]
  <2>1. Same(WriteInsert, f, D)
    BY <1>2, <1>4, <1>12, MeasureSame
  <2> QED BY <2>1 DEF Same
<1> QED
  BY <1>10, <1>11, <1>13

\* Data that is inserted is read back, and then what follows.
LEMMA InsertReads ==
  ASSUME NEW base \in Seq(Nat), NEW more \in Seq(Coded), NEW data \in Seq(Nat)
  PROVE  ReadCode(WriteInsert[data] \o more, base) = After(data, ReadCode(more, base))
<1> DEFINE D == Seq(Nat)
           m == [s \in D |-> Len(s)]
           R == ReadCode(more, base)
           S == {s \in D : ReadCode(WriteInsert[s] \o more, base) = After(s, R)}
<1>1. m \in [D -> Nat]
  OBVIOUS
<1>2. R \in Results
  BY ReadCodeIs
<1>3. ASSUME NEW s \in D, \A t \in D : m[t] < m[s] => t \in S PROVE s \in S
  <2>1. CASE s = <<>>
    <3> DEFINE e == <<>>
    <3>1. WriteInsert[s] = e /\ e \o more = more
      <4>1. WriteInsert[s] = e
        BY <2>1, WriteInsertIs
      <4>2. e \o more = more
        BY JoinedEmpty
      <4> QED BY <4>1, <4>2
    <3>2. After(e, R) = R
      <4>0. e \in Seq(Nat)
        OBVIOUS
      <4>1. R.content \in Seq(Nat)
        BY <1>2 DEF Results
      <4>2. e \o R.content = R.content
        BY <4>1
      <4> HIDE DEF e, R
      <4> DEFINE a == After(e, R)
      <4>3. a \in Results /\ a.content = R.content /\ a.ok = R.ok
        BY <1>2, <4>0, <4>2, AfterIs
      <4> HIDE DEF a
      <4>4. a = R
        BY <1>2, <4>3, SameResults
      <4> QED BY <4>4 DEF a
    <3> QED BY <2>1, <3>1, <3>2
  <2>2. CASE s # <<>>
    <3> DEFINE n == Most(s)
               x == Insertion(s)
               t == From(s, n)
               y == WriteInsert[t]
               z == y \o more
               code == x \o z
    <3>1. /\ n \in 1..Len(s) /\ t \in D /\ Len(t) < Len(s)
          /\ x \in Seq(Coded) /\ Len(x) = n + 1 /\ x[1] = Plain(n)
          /\ \A k \in 1..n : x[k + 1] = Plain(s[k])
      BY <2>2, InsertionIs
    <3>2. WriteInsert[s] = x \o y
      BY <2>2, WriteInsertIs
    <3>3. y \in Seq(Coded) /\ z \in Seq(Coded)
      <4>1. y \in Seq(Coded)
        BY <3>1, WriteInsertIs
      <4> QED BY <4>1, ConcatProperties
    <3>4. ReadCode(z, base) = After(t, R)
      BY <1>3, <3>1
    <3>9. t = Slice(s, n, Len(s)) /\ n \in Nat /\ Len(s) \in n..Len(s) /\ n \in 0..Len(s)
      BY <3>1, FromIs
    <3>10. \A k \in 1..n : s[k] \in Nat
      BY <3>1
    <3> HIDE DEF n, x, t, y
    <3>5. WriteInsert[s] \o more = code
      <4>1. x \in Seq(Coded) /\ y \in Seq(Coded)
        BY <3>1, <3>3
      <4>2. (x \o y) \o more = x \o (y \o more)
        BY SMTT(30), <4>1, JoinedAgain
      <4> QED BY <3>2, <4>2
    <3> HIDE DEF z
    <3>6. /\ code \in Seq(Coded) /\ Len(code) = Len(x) + Len(z) /\ Len(z) \in Nat
          /\ From(code, Len(x)) = z
          /\ \A i \in 1..Len(x) : code[i] = x[i]
      <4>1. x \in Seq(Coded) /\ z \in Seq(Coded)
        BY <3>1, <3>3
      <4> QED BY <4>1, Following
    <3> HIDE DEF code
    <3>7. code # <<>> /\ Head(code) = Plain(n) /\ 7 \notin Head(code).bits /\ Head(code).value = n /\ n < Len(code)
      <4>1. code[1] = Plain(n)
        BY <3>1, <3>6, <3>9
      <4>2. Len(code) > n
        BY <3>1, <3>6, <3>9
      <4>3. code # <<>> /\ Head(code) = Plain(n)
        BY <3>6, <3>9, <4>1, <4>2
      <4> QED BY <3>9, <4>2, <4>3, CodedAre
    <3>8. ~Stops(code, base) /\ Rest(code) = z /\ Piece(code, base) = DataIn(code, n)
      <4>1. ~(n >= Len(code))
        BY <3>6, <3>7, <3>9
      <4> QED BY <3>1, <3>6, <3>7, <4>1 DEF Stops, Rest, Piece
    <3> DEFINE d == DataIn(code, n)
               u == Slice(s, 0, n)
    <3>11. d \in Seq(Nat) /\ Len(d) = n
      BY <3>6, <3>7, <3>9, DataIs
    <3>12. u \in Seq(Nat) /\ Len(u) = n /\ \A k \in 1..n : u[k] = s[k]
      <4>1. 0 \in Nat /\ n \in 0..Len(s) /\ n - 0 = n /\ \A k \in 1..n : 0 + k = k
        BY <3>9
      <4> DEFINE o == 0
      <4>3. s \in Seq(Nat) /\ o \in Nat /\ n \in o..Len(s) /\ u = Slice(s, o, n)
        BY <4>1
      <4> HIDE DEF o, u
      <4>4. u \in Seq(Nat) /\ Len(u) = n - o /\ \A i \in 1..n - o : u[i] = s[o + i]
        BY ZenonT(30), <4>3, SliceIs
      <4>2. u \in Seq(Nat) /\ Len(u) = n - 0 /\ \A i \in 1..n - 0 : u[i] = s[0 + i]
        BY <4>4 DEF o
      <4> QED BY <4>1, <4>2
    <3>13. \A k \in 1..n : d[k] = s[k]
      <4> SUFFICES ASSUME NEW k \in 1..n PROVE d[k] = s[k]
        OBVIOUS
      <4>1. d[k] = code[k + 1].value
        BY DEF DataIn
      <4>2. k + 1 \in 1..Len(x)
        BY <3>1, <3>9
      <4>3. code[k + 1] = Plain(s[k])
        BY <3>1, <3>6, <4>2
      <4> QED BY <3>10, <4>1, <4>3, CodedAre
    <3> HIDE DEF d, u
    <3>14. d = u
      BY <3>11, <3>12, <3>13, SeqEqual
    <3>15. u \o t = s
      <4>1. 0 \in Nat /\ n \in 0..Len(s) /\ Len(s) \in n..Len(s)
        BY <3>9
      <4>2. Slice(s, 0, n) \o Slice(s, n, Len(s)) = Slice(s, 0, Len(s))
        BY <4>1, SliceJoin
      <4> QED BY <3>9, <4>2, SliceAll DEF u
    <3>16. ReadCode(code, base) = After(d, After(t, R))
      BY <3>4, <3>6, <3>8, ReadCodeIs DEF d
    <3>17. After(u, After(t, R)) = After(u \o t, R)
      BY <1>2, <3>1, <3>12, AfterTwo
    <3> QED BY <3>5, <3>14, <3>15, <3>16, <3>17
  <2> QED BY <2>1, <2>2
<1>4. D \subseteq S
  <2> HIDE DEF m, D, S
  <2> QED BY <1>1, <1>3, MeasureInduction
<1> QED
  BY <1>4

-----------------------------------------------------------------------------
(* Copies.                                                                 *)

IsCopy(i) == i.offset \in Nat /\ i.length \in Nat

\* The length that is written.
ShortLength(i) == IF i.length = Byte * Byte THEN 0 ELSE i.length

\* Its bytes are numbers.
LEMMA DigitsAre ==
  ASSUME NEW i, IsCopy(i)
  PROVE  /\ \A k \in 0..6 : Digits(i)[k] \in Nat
         /\ ShortLength(i) \in Nat
         /\ Digits(i)[0] = i.offset % Byte /\ Digits(i)[1] = Up(i.offset) % Byte
         /\ Digits(i)[2] = Up(Up(i.offset)) % Byte /\ Digits(i)[3] = Up(Up(Up(i.offset))) % Byte
         /\ Digits(i)[4] = ShortLength(i) % Byte /\ Digits(i)[5] = Up(ShortLength(i)) % Byte
         /\ Digits(i)[6] = Up(Up(ShortLength(i))) % Byte
<1> DEFINE l == ShortLength(i)
           o == i.offset
           N(k) == CASE k = 0 -> o [] k = 1 -> Up(o) [] k = 2 -> Up(Up(o)) [] k = 3 -> Up(Up(Up(o)))
                     [] k = 4 -> l [] k = 5 -> Up(l) [] k = 6 -> Up(Up(l))
<1>1. Digits(i) = [k \in 0..6 |-> N(k) % Byte]
  BY DEF Digits, ShortLength
<1>2. l \in Nat /\ o \in Nat /\ Byte \in Nat \ {0}
  BY WidthAssumption DEF IsCopy, ShortLength
<1>3. \A n \in Nat : Up(n) \in Nat /\ n % Byte \in Nat
  <2> SUFFICES ASSUME NEW n \in Nat PROVE Up(n) \in Nat /\ n % Byte \in Nat
    OBVIOUS
  <2>1. n % Byte \in 0..Byte - 1 /\ n \div Byte \in Nat
    BY <1>2, DigitsMake
  <2> QED BY <1>2, <2>1 DEF Up
<1> HIDE DEF l, o
<1>4. N(0) = o /\ N(1) = Up(o) /\ N(2) = Up(Up(o)) /\ N(3) = Up(Up(Up(o))) /\ N(4) = l /\ N(5) = Up(l)
      /\ N(6) = Up(Up(l))
  OBVIOUS
<1>5. \A k \in 0..6 : N(k) \in Nat
  <2>1. \A k \in 0..6 : k = 0 \/ k = 1 \/ k = 2 \/ k = 3 \/ k = 4 \/ k = 5 \/ k = 6
    OBVIOUS
  <2> HIDE DEF N
  <2> QED BY <1>2, <1>3, <1>4, <2>1
<1> HIDE DEF N
<1>6. \A k \in 0..6 : Digits(i)[k] = N(k) % Byte
  BY <1>1
<1>7. \A k \in 0..6 : Digits(i)[k] \in Nat
  BY <1>3, <1>5, <1>6
<1>8. /\ Digits(i)[0] = N(0) % Byte /\ Digits(i)[1] = N(1) % Byte /\ Digits(i)[2] = N(2) % Byte
      /\ Digits(i)[3] = N(3) % Byte /\ Digits(i)[4] = N(4) % Byte /\ Digits(i)[5] = N(5) % Byte
      /\ Digits(i)[6] = N(6) % Byte
  BY <1>6
<1> QED
  BY <1>2, <1>4, <1>7, <1>8 DEF l, o

\* A number below a product is, above its lowest byte, below a factor.
LEMMA UpIsBelow ==
  ASSUME NEW n \in Nat, NEW b \in Nat, n < Byte * b
  PROVE  Up(n) \in Nat /\ Up(n) < b /\ (n % Byte) + Byte * Up(n) = n /\ n % Byte \in Nat
<1>1. Byte \in Nat \ {0}
  BY WidthAssumption
<1>2. n % Byte \in 0..Byte - 1 /\ n \div Byte \in Nat /\ (n % Byte) + Byte * (n \div Byte) = n
  BY <1>1, DigitsMake
<1>3. PICK q \in Nat, z \in Nat : q = n \div Byte /\ z = n % Byte /\ z + Byte * q = n
  BY <1>1, <1>2
<1>4. q < b
  <2> SUFFICES ASSUME q >= b PROVE FALSE
    BY <1>3
  <2>0. q - b \in Nat /\ q = b + (q - b)
    BY <1>3
  <2>1. PICK d \in Nat : q = b + d
    BY <2>0
  <2>2. Byte * q = Byte * b + Byte * d
    BY <1>1, <2>1
  <2>3. Byte * d \in Nat /\ Byte * b \in Nat
    BY <1>1
  <2> QED BY <1>3, <2>2, <2>3
<1> QED
  BY <1>3, <1>4 DEF Up

\* What the bytes of a copy make when they are read.
LEMMA DigitsRead ==
  ASSUME NEW i, IsCopy(i), i.offset < Byte * Byte * Byte * Byte, i.length < Byte * Byte * Byte, i.length # 0
  PROVE  LET d == Digits(i)
             n == d[4] + Byte * (d[5] + Byte * d[6])
         IN /\ d[0] + Byte * (d[1] + Byte * (d[2] + Byte * d[3])) = i.offset
            /\ (IF n = 0 THEN Byte * Byte ELSE n) = i.length
<1> DEFINE l == ShortLength(i)
           o == i.offset
<1>1. Byte \in Nat \ {0} /\ o \in Nat /\ l \in Nat
  BY WidthAssumption, DigitsAre DEF IsCopy
<1>2. o < Byte * (Byte * (Byte * (Byte * 1)))
  <2>1. Byte * Byte * Byte * Byte = Byte * (Byte * (Byte * (Byte * 1)))
    BY <1>1
  <2> QED BY <2>1
<1>3. l < Byte * (Byte * (Byte * 1))
  <2>1. Byte * Byte * Byte = Byte * (Byte * (Byte * 1)) /\ Byte * Byte * Byte \in Nat
    BY <1>1
  <2>2. 0 < Byte * Byte * Byte
    <3>1. Byte * Byte \in Nat \ {0}
      BY <1>1
    <3> QED BY <1>1, <3>1
  <2> QED BY <2>1, <2>2 DEF ShortLength
<1>4. l = 0 => i.length = Byte * Byte
  BY DEF ShortLength
<1>5. l # 0 => i.length = l
  BY DEF ShortLength
<1> HIDE DEF l, o
<1>6. \A b \in Nat : Byte * b \in Nat
  BY <1>1
<1>7. 1 \in Nat /\ Byte * 1 \in Nat /\ Byte * (Byte * 1) \in Nat /\ Byte * (Byte * (Byte * 1)) \in Nat
  BY <1>6
<1>8. PICK a1 \in Nat, a2 \in Nat, a3 \in Nat, a4 \in Nat :
        /\ a1 = Up(o) /\ a2 = Up(a1) /\ a3 = Up(a2) /\ a4 = Up(a3)
        /\ (o % Byte) + Byte * a1 = o /\ (a1 % Byte) + Byte * a2 = a1 /\ (a2 % Byte) + Byte * a3 = a2
        /\ (a3 % Byte) + Byte * a4 = a3 /\ a4 < 1 /\ a3 % Byte \in Nat
  <2>1. Up(o) \in Nat /\ Up(o) < Byte * (Byte * (Byte * 1)) /\ (o % Byte) + Byte * Up(o) = o
    BY <1>1, <1>2, <1>7, UpIsBelow
  <2>2. PICK a1 \in Nat : a1 = Up(o)
    BY <2>1
  <2>3. Up(a1) \in Nat /\ Up(a1) < Byte * (Byte * 1) /\ (a1 % Byte) + Byte * Up(a1) = a1
    BY <1>7, <2>1, <2>2, UpIsBelow
  <2>4. PICK a2 \in Nat : a2 = Up(a1)
    BY <2>3
  <2>5. Up(a2) \in Nat /\ Up(a2) < Byte * 1 /\ (a2 % Byte) + Byte * Up(a2) = a2
    BY <1>7, <2>3, <2>4, UpIsBelow
  <2>6. PICK a3 \in Nat : a3 = Up(a2)
    BY <2>5
  <2>7. Up(a3) \in Nat /\ Up(a3) < 1 /\ (a3 % Byte) + Byte * Up(a3) = a3 /\ a3 % Byte \in Nat
    BY <1>7, <2>5, <2>6, UpIsBelow
  <2> QED BY <2>1, <2>2, <2>3, <2>4, <2>5, <2>6, <2>7
<1>9. a3 % Byte = a3
  BY <1>1, <1>8
<1>10. PICK b1 \in Nat, b2 \in Nat, b3 \in Nat :
        /\ b1 = Up(l) /\ b2 = Up(b1) /\ b3 = Up(b2)
        /\ (l % Byte) + Byte * b1 = l /\ (b1 % Byte) + Byte * b2 = b1 /\ (b2 % Byte) + Byte * b3 = b2
        /\ b3 < 1 /\ b2 % Byte \in Nat
  <2>1. Up(l) \in Nat /\ Up(l) < Byte * (Byte * 1) /\ (l % Byte) + Byte * Up(l) = l
    BY <1>1, <1>3, <1>7, UpIsBelow
  <2>2. PICK b1 \in Nat : b1 = Up(l)
    BY <2>1
  <2>3. Up(b1) \in Nat /\ Up(b1) < Byte * 1 /\ (b1 % Byte) + Byte * Up(b1) = b1
    BY <1>7, <2>1, <2>2, UpIsBelow
  <2>4. PICK b2 \in Nat : b2 = Up(b1)
    BY <2>3
  <2>5. Up(b2) \in Nat /\ Up(b2) < 1 /\ (b2 % Byte) + Byte * Up(b2) = b2 /\ b2 % Byte \in Nat
    BY <1>7, <2>3, <2>4, UpIsBelow
  <2> QED BY <2>1, <2>2, <2>3, <2>4, <2>5
<1>11. b2 % Byte = b2
  BY <1>1, <1>10
<1>12. /\ Digits(i)[0] = o % Byte /\ Digits(i)[1] = a1 % Byte /\ Digits(i)[2] = a2 % Byte /\ Digits(i)[3] = a3
       /\ Digits(i)[4] = l % Byte /\ Digits(i)[5] = b1 % Byte /\ Digits(i)[6] = b2
  BY <1>8, <1>9, <1>10, <1>11, DigitsAre DEF l, o
<1>13. (o % Byte) + Byte * ((a1 % Byte) + Byte * ((a2 % Byte) + Byte * a3)) = o
  BY <1>8
<1>14. (l % Byte) + Byte * ((b1 % Byte) + Byte * b2) = l
  BY <1>10
<1> QED
  BY <1>4, <1>5, <1>12, <1>13, <1>14 DEF o

\* A byte of a copy as it is written, or none.
Shown(i, k) == IF Digits(i)[k] = 0 THEN <<>> ELSE <<Plain(Digits(i)[k])>>
Puts(t, i) ==
  t \in [0..7 -> Seq(Coded)] /\ t[0] = <<>> /\ \A k \in 1..7 : t[k] = Shown(i, 7 - k) \o t[k - 1]

\* A copy is its first byte and, the lowest first, those of the others that are
\* not zero.
LEMMA WriteCopyIs ==
  ASSUME NEW i, IsCopy(i)
  PROVE  \E t : Puts(t, i) /\ WriteCopy(i) = <<CopyByte(CopyBits(i))>> \o t[7]
<1> DEFINE S == Seq(Coded)
           n == 7
           Q == (1..n) \X S
           x == <<>>
           G(k, s) == Shown(i, 7 - k) \o s
           g == [q \in Q |-> G(q[1], q[2])]
           P(f) == f = [k \in 0..7 |-> IF k = 0 THEN <<>>
                                       ELSE (IF Digits(i)[7 - k] = 0 THEN <<>> ELSE <<Plain(Digits(i)[7 - k])>>)
                                            \o f[k - 1]]
           f == CHOOSE h : P(h)
<1>1. \A k \in 1..n, s \in S : G(k, s) \in S
  <2> SUFFICES ASSUME NEW k \in 1..n, NEW s \in S PROVE G(k, s) \in S
    OBVIOUS
  <2>1. 7 - k \in 0..6
    OBVIOUS
  <2>2. Digits(i)[7 - k] \in Nat
    BY <2>1, DigitsAre
  <2>3. Plain(Digits(i)[7 - k]) \in Coded
    BY <2>2, CodedAre
  <2>4. Shown(i, 7 - k) \in Seq(Coded)
    BY <2>3 DEF Shown
  <2> QED BY <2>4, ConcatProperties
<1>2. x \in S
  OBVIOUS
<1> HIDE DEF G
<1>3. g \in [Q -> S]
  BY <1>1
<1> HIDE DEF S, x
<1>4. PICK h \in [0..n -> S] : Stepwise(h, n, x, g)
  <2>1. n \in Nat /\ Q = (1..n) \X S
    OBVIOUS
  <2> HIDE DEF n, Q, g
  <2> QED BY <1>2, <1>3, <2>1, StepRecursion
<1>5. \A k \in 0..n : h[k] = IF k = 0 THEN x ELSE G(k, h[k - 1])
  <2> SUFFICES ASSUME NEW k \in 0..n PROVE h[k] = IF k = 0 THEN x ELSE G(k, h[k - 1])
    OBVIOUS
  <2>1. k # 0 => k \in 1..n /\ h[k - 1] \in S
    OBVIOUS
  <2> QED BY <1>4, <2>1 DEF Stepwise
<1>6. P(h)
  BY <1>5 DEF G, Shown, x
<1>7. P(f)
  <2> HIDE DEF P
  <2> QED BY <1>6
<1>8. WriteCopy(i) = <<CopyByte(CopyBits(i))>> \o f[7]
  BY DEF WriteCopy
<1> HIDE DEF f
<1>9. \A k \in 0..7 : f[k] = IF k = 0 THEN x ELSE G(k, f[k - 1])
  BY <1>7 DEF G, Shown, x
<1>10. f = [k \in 0..7 |-> f[k]]
  BY <1>7
<1> HIDE DEF P
<1>11. 0..7 \subseteq {k \in 0..7 : f[k] = h[k]}
  <2> DEFINE T == {k \in 0..7 : f[k] = h[k]}
  <2>1. 0 \in T
    BY <1>5, <1>9
  <2>2. ASSUME NEW k \in 1..7, k - 1 \in T PROVE k \in T
    <3>1. k \in 0..7 /\ k - 1 \in 0..7 /\ k # 0 /\ f[k - 1] = h[k - 1]
      BY <2>2
    <3> QED BY <1>5, <1>9, <3>1
  <2>3. 7 \in Nat
    OBVIOUS
  <2> HIDE DEF T
  <2>4. 0..7 \subseteq T
    BY <2>1, <2>2, <2>3, StepInduction
  <2> QED BY <2>4 DEF T
<1>12. f \in [0..7 -> Seq(Coded)]
  <2>1. \A k \in 0..7 : f[k] \in S
    BY <1>11
  <2> QED BY <1>10, <2>1 DEF S
<1>13. f[0] = <<>>
  BY <1>9 DEF x
<1>14. \A k \in 1..7 : f[k] = Shown(i, 7 - k) \o f[k - 1]
  <2> SUFFICES ASSUME NEW k \in 1..7 PROVE f[k] = Shown(i, 7 - k) \o f[k - 1]
    OBVIOUS
  <2>1. k \in 0..7 /\ k # 0
    OBVIOUS
  <2>2. f[k] = G(k, f[k - 1])
    BY <1>9, <2>1
  <2> QED BY <2>2 DEF G
<1> QED
  BY <1>8, <1>12, <1>13, <1>14 DEF Puts

\* A copy of what is in base, that is not too long to be written.
Fits(i, base) ==
  /\ IsCopy(i)
  /\ i.offset < Byte * Byte * Byte * Byte /\ i.length < Byte * Byte * Byte /\ i.length # 0
  /\ i.offset + i.length <= Len(base)

\* Such a copy is read back, and then what follows.
LEMMA CopyReads ==
  ASSUME NEW base \in Seq(Nat), NEW more \in Seq(Coded), NEW i, Fits(i, base)
  PROVE  /\ WriteCopy(i) \in Seq(Coded)
         /\ ReadCode(WriteCopy(i) \o more, base) =
              After(SubSeq(base, i.offset + 1, i.offset + i.length), ReadCode(more, base))
<1> DEFINE b == CopyByte(CopyBits(i))
           d == Digits(i)
<1>0. IsCopy(i)
  BY DEF Fits
<1>1. PICK t : Puts(t, i) /\ WriteCopy(i) = <<b>> \o t[7]
  BY <1>0, WriteCopyIs
<1> DEFINE x == t[7]
           z == x \o more
           code == <<b>> \o z
<1>2. /\ b \in Coded /\ 7 \in b.bits
      /\ \A k \in 0..6 : k \in b.bits <=> d[k] # 0
  <2>1. CopyBits(i) \in SUBSET (0..6) /\ \A k \in 0..6 : k \in CopyBits(i) <=> d[k] # 0
    <3>1. \A k \in 0..6 : k \in CopyBits(i) <=> d[k] # 0
      BY DEF CopyBits, Fits
    <3> QED BY <3>1 DEF CopyBits
  <2> QED BY <2>1, CodedAre
<1> HIDE DEF b
<1>15. \A k \in 0..7 : t[k] \in Seq(Coded)
  BY <1>1 DEF Puts
<1>3. x \in Seq(Coded) /\ z \in Seq(Coded)
  <2>1. x \in Seq(Coded)
    BY <1>15
  <2> QED BY <2>1, ConcatProperties
<1>4. WriteCopy(i) \in Seq(Coded)
  BY <1>1, <1>2, <1>3, PutFirst
<1>5. WriteCopy(i) \o more = code
  <2> DEFINE w == <<b>>
  <2>1. w \in Seq(Coded)
    BY <1>2
  <2> HIDE DEF w, x
  <2>3. w \in Seq(Coded) /\ x \in Seq(Coded)
    BY <1>3, <2>1
  <2>2. (w \o x) \o more = w \o (x \o more)
    BY <2>3, JoinedAgain
  <2> QED BY <1>1, <2>2 DEF w, x
<1> HIDE DEF z, x
<1>6. code \in Seq(Coded) /\ code # <<>> /\ Head(code) = b /\ Tail(code) = z
  BY <1>2, <1>3, PutFirst
<1> HIDE DEF code
<1>7. \A k \in 0..6 : d[k] \in Nat
  BY <1>0, DigitsAre
<1> HIDE DEF d
<1> DEFINE W(k) == t[7 - k] \o more
<1>8. \A k \in 0..7 : W(k) \in Seq(Coded)
  <2> SUFFICES ASSUME NEW k \in 0..7 PROVE W(k) \in Seq(Coded)
    OBVIOUS
  <2>1. t[7 - k] \in Seq(Coded)
    BY <1>15
  <2> QED BY <2>1, ConcatProperties
<1>9. ASSUME NEW k \in 0..6
      PROVE  IF d[k] = 0 THEN W(k) = W(k + 1) ELSE W(k) = <<Plain(d[k])>> \o W(k + 1)
  <2> DEFINE u == t[6 - k]
             w == Shown(i, k)
  <2>0. 7 - (7 - k) = k /\ (7 - k) - 1 = 6 - k /\ 7 - (k + 1) = 6 - k /\ 7 - k \in 1..7 /\ 6 - k \in 0..7
    OBVIOUS
  <2>1. t[7 - k] = w \o u
    BY <1>1, <2>0 DEF Puts
  <2>2. W(k + 1) = u \o more /\ u \in Seq(Coded)
    BY <1>15, <2>0
  <2>3. W(k) = (w \o u) \o more
    BY <2>1
  <2> HIDE DEF W, u
  <2>4. CASE d[k] = 0
    <3> DEFINE e == <<>>
    <3>1. w = e
      BY <2>4 DEF Shown, d
    <3>2. e \o u = u
      BY <2>2
    <3> QED BY <2>2, <2>3, <2>4, <3>1, <3>2
  <2>5. CASE d[k] # 0
    <3>1. w = <<Plain(d[k])>>
      BY <2>5 DEF Shown, d
    <3>4. Plain(d[k]) \in Coded
      BY <1>7, CodedAre
    <3>2. w \in Seq(Coded)
      BY <3>1, <3>4
    <3> HIDE DEF w
    <3>5. w \in Seq(Coded) /\ u \in Seq(Coded)
      BY <2>2, <3>2
    <3>3. (w \o u) \o more = w \o (u \o more)
      BY SMTT(30), <3>5, JoinedAgain
    <3> QED BY <2>2, <2>3, <2>5, <3>1, <3>3
  <2> QED BY <2>4, <2>5
<1>10. W(0) = z /\ W(7) = more
  <2>1. t[0] = <<>> /\ 7 - 7 = 0 /\ 7 - 0 = 7
    BY <1>1 DEF Puts
  <2> DEFINE e == <<>>
  <2>2. e \o more = more
    OBVIOUS
  <2>3. W(7) = more
    BY <2>1, <2>2
  <2> QED BY <2>1, <2>3 DEF z, x
<1> HIDE DEF W
<1>11. 0..7 \subseteq {k \in 0..7 : Left(code, k) = W(k)}
  <2> DEFINE T == {k \in 0..7 : Left(code, k) = W(k)}
  <2>1. 0 \in T
    <3>1. code \in Seq(Coded) /\ code # <<>>
      BY <1>6
    <3>2. Left(code, 0) = Tail(code)
      BY <3>1, LeftIs
    <3>3. Tail(code) = z
      BY <1>6
    <3>4. W(0) = z
      BY <1>10
    <3>5. Left(code, 0) = W(0)
      BY <3>2, <3>3, <3>4
    <3>6. 0 \in 0..7
      OBVIOUS
    <3> QED BY <3>5, <3>6
  <2>2. ASSUME NEW k \in 1..7, k - 1 \in T PROVE k \in T
    <3> DEFINE j == k - 1
    <3>1. Left(code, k) = IF j \in Head(code).bits /\ Left(code, j) # <<>> THEN Tail(Left(code, j)) ELSE Left(code, j)
      BY <1>6, LeftIs
    <3>2. j \in 0..6 /\ j + 1 = k /\ k \in 0..7
      OBVIOUS
    <3>3. Left(code, j) = W(j)
      BY <2>2
    <3> HIDE DEF j
    <3>4. CASE d[j] = 0
      BY <1>2, <1>6, <1>9, <3>1, <3>2, <3>3, <3>4
    <3>5. CASE d[j] # 0
      <4>1. W(j) = <<Plain(d[j])>> \o W(k)
        BY <1>9, <3>2, <3>5
      <4>4. Plain(d[j]) \in Coded /\ W(k) \in Seq(Coded)
        BY <1>7, <1>8, <3>2, CodedAre
      <4>2. W(j) # <<>> /\ Tail(W(j)) = W(k)
        BY <4>1, <4>4, PutFirst
      <4>3. j \in Head(code).bits
        BY <1>2, <1>6, <3>2, <3>5
      <4> QED BY <3>1, <3>2, <3>3, <4>2, <4>3
    <3> QED BY <3>4, <3>5
  <2>3. 7 \in Nat
    OBVIOUS
  <2> HIDE DEF T
  <2>4. 0..7 \subseteq T
    BY <2>1, <2>2, <2>3, StepInduction
  <2> QED BY <2>4 DEF T
<1>12. \A k \in 0..6 : Field(code, k) = d[k] /\ (k \in Head(code).bits => Left(code, k) # <<>>)
  <2> SUFFICES ASSUME NEW k \in 0..6
               PROVE  Field(code, k) = d[k] /\ (k \in Head(code).bits => Left(code, k) # <<>>)
    OBVIOUS
  <2>1. Left(code, k) = W(k) /\ k \in 0..7
    BY <1>11
  <2>2. CASE d[k] = 0
    BY <1>2, <1>6, <2>2 DEF Field
  <2>3. CASE d[k] # 0
    <3>1. W(k) = <<Plain(d[k])>> \o W(k + 1)
      BY <1>9, <2>3
    <3>2. k + 1 \in 0..7
      OBVIOUS
    <3>3. W(k) # <<>> /\ Head(W(k)) = Plain(d[k])
      BY <1>7, <1>8, <3>1, <3>2, CodedAre, PutFirst
    <3> QED BY <1>2, <1>6, <1>7, <2>1, <2>3, <3>3, CodedAre DEF Field
  <2> QED BY <2>2, <2>3
<1>13. ~CutShort(code) /\ OffsetIn(code) = i.offset /\ LengthIn(code) = i.length
  <2>1. ~CutShort(code)
    BY <1>12 DEF CutShort
  <2>2. 0 \in 0..6 /\ 1 \in 0..6 /\ 2 \in 0..6 /\ 3 \in 0..6 /\ 4 \in 0..6 /\ 5 \in 0..6 /\ 6 \in 0..6
    OBVIOUS
  <2>0. i.offset < Byte * Byte * Byte * Byte /\ i.length < Byte * Byte * Byte /\ i.length # 0
    BY DEF Fits
  <2>3. /\ Field(code, 0) = d[0] /\ Field(code, 1) = d[1] /\ Field(code, 2) = d[2] /\ Field(code, 3) = d[3]
        /\ Field(code, 4) = d[4] /\ Field(code, 5) = d[5] /\ Field(code, 6) = d[6]
    BY <1>12, <2>2
  <2>4. /\ d[0] + Byte * (d[1] + Byte * (d[2] + Byte * d[3])) = i.offset
        /\ (IF d[4] + Byte * (d[5] + Byte * d[6]) = 0 THEN Byte * Byte
            ELSE d[4] + Byte * (d[5] + Byte * d[6])) = i.length
    BY <1>0, <2>0, DigitsRead DEF d
  <2> QED BY <2>1, <2>3, <2>4 DEF OffsetIn, LengthIn
<1>14. ~Stops(code, base) /\ Rest(code) = more
       /\ Piece(code, base) = SubSeq(base, i.offset + 1, i.offset + i.length)
  <2>1. Left(code, 7) = more
    BY <1>10, <1>11
  <2>2. 7 \in Head(code).bits
    BY <1>2, <1>6
  <2>3. ~(i.offset >= Len(base)) /\ ~(i.offset + i.length > Len(base))
    <3>1. PICK p \in Nat, q \in Nat, r \in Nat : p = i.offset /\ q = i.length /\ r = Len(base)
      BY <1>0 DEF IsCopy
    <3>2. q # 0 /\ p + q <= r
      BY <3>1 DEF Fits
    <3> QED BY <3>1, <3>2
  <2> QED BY <1>6, <1>13, <2>1, <2>2, <2>3 DEF Stops, Rest, Piece, CopyIn
<1> QED
  BY <1>4, <1>5, <1>6, <1>14, ReadCodeIs

\* An instruction as it is written.
Written(i) == IF i.op = "copy" THEN WriteCopy(i) ELSE WriteInsert[i.data]

\* An instruction is written as code.
LEMMA WrittenIs ==
  ASSUME NEW i \in Instruction
  PROVE  IsCopy(i) /\ i.data \in Seq(Nat) /\ Written(i) \in Seq(Coded)
<1>1. IsCopy(i) /\ i.data \in Seq(Nat)
  BY DEF Instruction, IsCopy
<1>2. WriteInsert[i.data] \in Seq(Coded)
  BY <1>1, WriteInsertIs
<1>3. WriteCopy(i) \in Seq(Coded)
  <2> DEFINE b == CopyByte(CopyBits(i))
  <2>1. PICK t : Puts(t, i) /\ WriteCopy(i) = <<b>> \o t[7]
    BY <1>1, WriteCopyIs
  <2>2. CopyBits(i) \in SUBSET (0..6)
    BY DEF CopyBits
  <2>3. b \in Coded
    BY <2>2, CodedAre
  <2> HIDE DEF b
  <2>4. t[7] \in Seq(Coded)
    BY <2>1 DEF Puts
  <2> QED BY <2>1, <2>3, <2>4, PutFirst
<1> QED
  BY <1>1, <1>2, <1>3 DEF Written

\* WriteAll does what its definition says.
LEMMA WriteAllIs ==
  /\ WriteAll \in [Seq(Instruction) -> Seq(Coded)]
  /\ \A c \in Seq(Instruction) :
       WriteAll[c] = IF c = <<>> THEN <<>> ELSE Written(Head(c)) \o WriteAll[Tail(c)]
<1> DEFINE D == Seq(Instruction)
           V == Seq(Coded)
           m == [c \in D |-> Len(c)]
           B == {c \in D : c = <<>>}
           b == [c \in B |-> <<>>]
           p == [c \in D |-> IF c = <<>> THEN c ELSE Tail(c)]
           g == [q \in D \X V |-> IF q[1] = <<>> THEN <<>> ELSE Written(Head(q[1])) \o q[2]]
           body(c, f) == IF c = <<>> THEN <<>>
                         ELSE (IF Head(c).op = "copy" THEN WriteCopy(Head(c)) ELSE WriteInsert[Head(c).data])
                              \o f[Tail(c)]
           P(f) == f = [c \in Seq(Instruction) |-> body(c, f)]
<1>1. \A c \in D : c # <<>> => Tail(c) \in D /\ Len(Tail(c)) < Len(c) /\ Written(Head(c)) \in V
  <2> SUFFICES ASSUME NEW c \in D, c # <<>>
               PROVE  Tail(c) \in D /\ Len(Tail(c)) < Len(c) /\ Written(Head(c)) \in V
    OBVIOUS
  <2>1. Tail(c) \in D /\ Len(Tail(c)) < Len(c) /\ Head(c) \in Instruction
    BY TailIsShorter
  <2> QED BY <2>1, WrittenIs
<1>2. m \in [D -> Nat] /\ p \in [D -> D] /\ b \in [B -> V]
  BY <1>1
<1>3. g \in [D \X V -> V]
  <2>1. \A c \in D, t \in V : c # <<>> => Written(Head(c)) \o t \in V
    BY <1>1, ConcatProperties
  <2> QED BY <2>1
<1>4. Descends(m, p, D, B)
  BY <1>1 DEF Descends
<1> HIDE DEF m, b, p, g, B
<1>5. PICK f \in [D -> V] : Recurs(f, D, B, b, p, g)
  <2> HIDE DEF D, V
  <2> QED BY <1>2, <1>3, <1>4, MeasureRecursion
<1>6. \A c \in D : f[c] = IF c = <<>> THEN <<>> ELSE Written(Head(c)) \o f[Tail(c)]
  <2> SUFFICES ASSUME NEW c \in D
               PROVE  f[c] = IF c = <<>> THEN <<>> ELSE Written(Head(c)) \o f[Tail(c)]
    OBVIOUS
  <2>1. f[c] = IF c \in B THEN b[c] ELSE g[<<c, f[p[c]]>>]
    BY <1>5 DEF Recurs
  <2>2. CASE c = <<>>
    BY <2>1, <2>2 DEF B, b
  <2>3. CASE c # <<>>
    <3>1. p[c] = Tail(c) /\ p[c] \in D /\ c \notin B
      BY <1>1, <2>3 DEF p, B
    <3>2. f[p[c]] \in V
      BY <3>1
    <3> QED BY <2>1, <2>3, <3>1, <3>2 DEF g
  <2> QED BY <2>2, <2>3
<1>7. ASSUME NEW c, NEW h PROVE body(c, h) = IF c = <<>> THEN <<>> ELSE Written(Head(c)) \o h[Tail(c)]
  BY DEF Written
<1>8. P(f)
  <2> HIDE DEF body
  <2>1. \A c \in D : f[c] = body(c, f)
    BY <1>6, <1>7
  <2> QED BY <2>1
<1>9. P(WriteAll)
  <2>1. WriteAll = CHOOSE h : P(h)
    BY DEF WriteAll
  <2> HIDE DEF P
  <2> QED BY <1>8, <2>1
<1> HIDE DEF body
<1>10. \A c \in D : WriteAll[c] = IF c = <<>> THEN <<>> ELSE Written(Head(c)) \o WriteAll[Tail(c)]
  BY <1>7, <1>9
<1>11. WriteAll = [c \in D |-> WriteAll[c]]
  BY <1>9
<1> HIDE DEF P
<1>12. Follows(WriteAll, f, D, B, p)
  <2> SUFFICES ASSUME NEW c \in D, c \in B \/ WriteAll[p[c]] = f[p[c]] PROVE WriteAll[c] = f[c]
    BY DEF Follows
  <2>1. c = <<>> \/ WriteAll[Tail(c)] = f[Tail(c)]
    BY DEF B, p
  <2> QED BY <1>6, <1>10, <2>1
<1>13. \A c \in D : WriteAll[c] = f[c]
  <2>1. Same(WriteAll, f, D)
    BY <1>2, <1>4, <1>12, MeasureSame
  <2> QED BY <2>1 DEF Same
<1> QED
  BY <1>10, <1>11, <1>13

-----------------------------------------------------------------------------
(* Instructions as they are calculated.                                    *)

\* What the binary search goes on with: a prefix that occurs and a longer one
\* to try, and what it has found.
Searches(src, dst) ==
  {r \in [i : Nat, min : Nat, max : Nat, length : Int] :
     /\ MinCopy <= r.min /\ r.min <= r.i /\ r.i <= r.max /\ r.max <= Len(dst)
     /\ Occurs(src, Prefix(dst, r.min))
     /\ r.length = -1 \/ (r.length \in 1..Len(dst) /\ Occurs(src, Prefix(dst, r.length)))}
Start(dst) == [i |-> MinCopy, min |-> MinCopy, max |-> Len(dst), length |-> -1]
Searched(src, dst, r) ==
  IF r.max - r.min <= 1 THEN r
  ELSE IF Occurs(src, Prefix(dst, r.i))
  THEN [r EXCEPT !.i = (r.max - r.i) \div 2 + r.i, !.min = r.i, !.length = r.i]
  ELSE [r EXCEPT !.i = (r.i - 1 - r.min) \div 2 + r.min, !.max = r.i - 1]

\* Half of a number is no more than it.
LEMMA HalfIs ==
  ASSUME NEW a \in Nat, NEW b \in Nat
  PROVE  a \div 2 + b \in Nat /\ b <= a \div 2 + b /\ a \div 2 + b <= a + b
<1>1. PICK d \in Nat : d = a \div 2 /\ d <= a
  OBVIOUS
<1> QED
  BY <1>1

\* A round of the search leaves it so.
LEMMA SearchedIs ==
  ASSUME NEW src, NEW dst \in Seq(Nat), NEW r \in Searches(src, dst)
  PROVE  Searched(src, dst, r) \in Searches(src, dst)
<1> DEFINE R == [i : Nat, min : Nat, max : Nat, length : Int]
<1>1. /\ r \in R /\ r.i \in Nat /\ r.min \in Nat /\ r.max \in Nat /\ r.length \in Int /\ Len(dst) \in Nat
      /\ MinCopy <= r.min /\ r.min <= r.i /\ r.i <= r.max /\ r.max <= Len(dst)
      /\ Occurs(src, Prefix(dst, r.min))
      /\ r.length = -1 \/ (r.length \in 1..Len(dst) /\ Occurs(src, Prefix(dst, r.length)))
      /\ MinCopy \in Nat \ {0}
  BY WidthAssumption DEF Searches
<1>3. CASE r.max - r.min <= 1
  BY <1>3 DEF Searched
<1>4. CASE ~(r.max - r.min <= 1) /\ Occurs(src, Prefix(dst, r.i))
  <2> DEFINE j == (r.max - r.i) \div 2 + r.i
             s == [r EXCEPT !.i = j, !.min = r.i, !.length = r.i]
  <2>1. Searched(src, dst, r) = s
    BY <1>4 DEF Searched
  <2>2. j \in Nat /\ r.i <= j /\ j <= r.max
    <3>1. r.max - r.i \in Nat
      BY <1>1
    <3>2. PICK a \in Nat : a = r.max - r.i /\ r.i \in Nat /\ a + r.i = r.max
      BY <1>1, <3>1
    <3>3. j = a \div 2 + r.i
      BY <3>2
    <3> HIDE DEF j
    <3> QED BY <3>2, <3>3, HalfIs
  <2>3. r.i \in 1..Len(dst) /\ MinCopy <= r.i
    BY <1>1
  <2> HIDE DEF j
  <2>5. r \in R /\ r.i \in Nat /\ j \in Nat /\ Nat \subseteq Int
    BY <1>1, <2>2
  <2>4. s \in R /\ s.i = j /\ s.min = r.i /\ s.max = r.max /\ s.length = r.i
    BY <2>5
  <2> HIDE DEF s
  <2> QED BY <1>1, <1>4, <2>1, <2>2, <2>3, <2>4 DEF Searches
<1>5. CASE ~(r.max - r.min <= 1) /\ ~Occurs(src, Prefix(dst, r.i))
  <2> DEFINE j == (r.i - 1 - r.min) \div 2 + r.min
             s == [r EXCEPT !.i = j, !.max = r.i - 1]
  <2>1. Searched(src, dst, r) = s
    BY <1>5 DEF Searched
  <2>2. r.i # r.min
    BY <1>1, <1>5
  <2>3. j \in Nat /\ r.min <= j /\ j <= r.i - 1
    <3>1. r.i - 1 - r.min \in Nat /\ r.i - 1 \in Nat
      BY SMTT(30), <1>1, <2>2
    <3>2. PICK a \in Nat : a = r.i - 1 - r.min /\ r.min \in Nat /\ a + r.min = r.i - 1
      BY <1>1, <3>1
    <3>3. j = a \div 2 + r.min
      BY <3>2
    <3> HIDE DEF j
    <3> QED BY <3>2, <3>3, HalfIs
  <2>5. r.i - 1 \in Nat /\ r.i - 1 <= Len(dst)
    BY <1>1, <2>2
  <2> HIDE DEF j
  <2>4. s \in R /\ s.i = j /\ s.min = r.min /\ s.max = r.i - 1 /\ s.length = r.length
    BY <1>1, <2>3, <2>5
  <2> HIDE DEF s
  <2> QED BY <1>1, <2>1, <2>3, <2>4, <2>5 DEF Searches
<1> QED
  BY <1>3, <1>4, <1>5

\* What the search finds is a prefix that occurs.
LEMMA SearchIs ==
  ASSUME NEW src, NEW dst \in Seq(Nat), Len(dst) >= MinCopy, Occurs(src, Prefix(dst, MinCopy))
  PROVE  LET n == Search(src, dst)
         IN n = -1 \/ (n \in 1..Len(dst) /\ Occurs(src, Prefix(dst, n)))
<1> DEFINE S == Searches(src, dst)
           n == Len(dst)
           Q == (1..n) \X S
           x == Start(dst)
           G(k, r) == Searched(src, dst, r)
           g == [q \in Q |-> G(q[1], q[2])]
           P(f) == f = [k \in 0..Len(dst) |->
                          IF k = 0 THEN [i |-> MinCopy, min |-> MinCopy, max |-> Len(dst), length |-> -1]
                          ELSE LET r == f[k - 1]
                               IN IF r.max - r.min <= 1 THEN r
                                  ELSE IF Occurs(src, Prefix(dst, r.i))
                                  THEN [r EXCEPT !.i = (r.max - r.i) \div 2 + r.i, !.min = r.i, !.length = r.i]
                                  ELSE [r EXCEPT !.i = (r.i - 1 - r.min) \div 2 + r.min, !.max = r.i - 1]]
           f == CHOOSE h : P(h)
<1>1. \A k \in 1..n, r \in S : G(k, r) \in S
  BY SearchedIs
<1>2. x \in S
  BY WidthAssumption DEF Searches, Start
<1>0. n \in Nat
  OBVIOUS
<1> HIDE DEF G, S
<1>3. g \in [Q -> S]
  BY <1>1
<1> HIDE DEF x
<1>4. PICK h \in [0..n -> S] : Stepwise(h, n, x, g)
  <2>1. n \in Nat /\ Q = (1..n) \X S
    OBVIOUS
  <2> HIDE DEF n, Q, g
  <2> QED BY <1>2, <1>3, <2>1, StepRecursion
<1>5. \A k \in 0..n : h[k] = IF k = 0 THEN x ELSE G(k, h[k - 1])
  <2> SUFFICES ASSUME NEW k \in 0..n PROVE h[k] = IF k = 0 THEN x ELSE G(k, h[k - 1])
    OBVIOUS
  <2>1. k # 0 => k \in 1..n /\ h[k - 1] \in S
    OBVIOUS
  <2> QED BY <1>4, <2>1 DEF Stepwise
<1>6. P(h)
  BY <1>5 DEF G, Searched, Start, x
<1>7. P(f)
  <2> HIDE DEF P
  <2> QED BY <1>6
<1>8. Search(src, dst) = f[n].length
  BY DEF Search
<1> HIDE DEF f
<1>9. \A k \in 0..n : f[k] = IF k = 0 THEN x ELSE G(k, f[k - 1])
  BY <1>7 DEF G, Searched, Start, x
<1> HIDE DEF P
<1>11. 0..n \subseteq {k \in 0..n : f[k] \in S}
  <2> DEFINE T == {k \in 0..n : f[k] \in S}
  <2>1. 0 \in T
    BY <1>0, <1>2, <1>9
  <2>2. ASSUME NEW k \in 1..n, k - 1 \in T PROVE k \in T
    <3>1. k \in 0..n /\ k # 0 /\ f[k - 1] \in S
      BY <2>2, <1>0
    <3>2. f[k] = G(k, f[k - 1])
      BY <1>9, <3>1
    <3> QED BY <1>1, <3>1, <3>2
  <2> HIDE DEF T
  <2>4. 0..n \subseteq T
    BY <1>0, <2>1, <2>2, StepInduction
  <2> QED BY <2>4 DEF T
<1>12. f[n] \in S
  BY <1>0, <1>11
<1> QED
  BY <1>8, <1>12 DEF S, Searches

\* The longest prefix that is found is one that occurs.
LEMMA LongestPrefixIs ==
  ASSUME NEW src \in Seq(Nat), NEW dst \in Seq(Nat)
  PROVE  LET n == LongestPrefix(src, dst)
         IN n = -1 \/ (n \in 1..Len(dst) /\ Occurs(src, Prefix(dst, n)))
<1>1. CASE Len(dst) < MinCopy \/ ~Occurs(src, Prefix(dst, MinCopy))
  BY <1>1 DEF LongestPrefix
<1>2. CASE ~(Len(dst) < MinCopy \/ ~Occurs(src, Prefix(dst, MinCopy)))
  <2>1. Len(dst) >= MinCopy /\ Occurs(src, Prefix(dst, MinCopy)) /\ MinCopy \in Nat \ {0} /\ Len(dst) \in Nat
    BY <1>2, WidthAssumption
  <2>2. CASE Occurs(src, dst)
    <3>1. LongestPrefix(src, dst) = Len(dst)
      BY <1>2, <2>2 DEF LongestPrefix
    <3>2. Prefix(dst, Len(dst)) = dst
      BY SubSeqFull DEF Prefix
    <3> QED BY <2>1, <2>2, <3>1, <3>2
  <2>3. CASE ~Occurs(src, dst)
    BY <1>2, <2>1, <2>3, SearchIs DEF LongestPrefix
  <2> QED BY <2>2, <2>3
<1> QED
  BY <1>1, <1>2

\* Where the next copy may start is a place in dst, or nowhere.
LEMMA NextPrefixStartIs ==
  ASSUME NEW src, NEW dst \in Seq(Nat)
  PROVE  NextPrefixStart(src, dst) = -1 \/ NextPrefixStart(src, dst) \in Nat \ {0}
<1> DEFINE starts == {i \in 1..Len(dst) - 1 :
                        Occurs(src, SubSeq(dst, i + 1, IF i + MinCopy > Len(dst) THEN Len(dst) ELSE i + MinCopy))}
           best == CHOOSE i \in starts : \A j \in starts : i <= j
<1>1. NextPrefixStart(src, dst) = IF starts = {} THEN -1 ELSE best
  BY DEF NextPrefixStart
<1>2. starts \in SUBSET Nat /\ \A i \in starts : i # 0
  OBVIOUS
<1> HIDE DEF starts
<1>3. ASSUME starts # {} PROVE best \in starts
  <2>1. \E i \in starts : \A j \in starts : i <= j
    BY <1>2, <1>3, Least
  <2> QED BY <2>1
<1> QED
  BY <1>1, <1>2, <1>3

\* A sequence is its beginning and what follows.
LEMMA PrefixIs ==
  ASSUME NEW S, NEW s \in Seq(S), NEW n \in 0..Len(s)
  PROVE  /\ Prefix(s, n) \in Seq(S) /\ Len(Prefix(s, n)) = n /\ \A i \in 1..n : Prefix(s, n)[i] = s[i]
         /\ Prefix(s, n) \o From(s, n) = s
<1> DEFINE o == 0
           u == Slice(s, o, n)
<1>1. o \in Nat /\ n \in o..Len(s) /\ n \in Nat /\ Len(s) \in n..Len(s) /\ n - 0 = n /\ \A i \in 1..n : 0 + i = i
  OBVIOUS
<1>2. u = Prefix(s, n) /\ From(s, n) = Slice(s, n, Len(s))
  BY FromIs DEF Prefix, Slice
<1> HIDE DEF u, o
<1>3. u \in Seq(S) /\ Len(u) = n - o /\ \A i \in 1..n - o : u[i] = s[o + i]
  BY ZenonT(30), <1>1, SliceIs DEF u
<1>4. u \in Seq(S) /\ Len(u) = n /\ \A i \in 1..n : u[i] = s[i]
  <2>1. Len(u) = n /\ \A i \in 1..n : u[i] = s[0 + i]
    BY <1>1, <1>3 DEF o
  <2> QED BY <1>1, <1>3, <2>1
<1>5. u \o Slice(s, n, Len(s)) = s
  <2>1. Slice(s, o, n) \o Slice(s, n, Len(s)) = Slice(s, o, Len(s))
    BY <1>1, SliceJoin
  <2>2. Slice(s, o, Len(s)) = s
    BY SliceAll DEF o
  <2> QED BY <2>1, <2>2 DEF u
<1> QED
  BY <1>2, <1>4, <1>5

\* What is put out when dst is at remaining: where it ends, and with what, and
\* elsewhere the next instruction and how much it is for.
Halts(src, dst, r) ==
  \/ r = <<>>
  \/ ~(LongestPrefix(src, r) > 0) /\ (Len(r) <= MinCopy \/ NextPrefixStart(src, dst) < 0
                                      \/ NextPrefixStart(src, dst) > Len(r))
LastOf(src, dst, r) ==
  IF r = <<>> THEN <<>>
  ELSE IF Len(r) <= MinCopy \/ NextPrefixStart(src, dst) < 0 THEN <<Insert(r)>> ELSE <<Panic>>
Covers(src, dst, r) == IF LongestPrefix(src, r) > 0 THEN LongestPrefix(src, r) ELSE NextPrefixStart(src, dst)
NextOf(src, dst, r) ==
  IF LongestPrefix(src, r) > 0
  THEN CopyOf(CHOOSE k \in Places(src, Prefix(r, LongestPrefix(src, r))) : TRUE, LongestPrefix(src, r))
  ELSE Insert(Prefix(r, NextPrefixStart(src, dst)))

\* A copy copies a place of what it is for.
LEMMA CopyPlace ==
  ASSUME NEW src \in Seq(Nat), NEW r \in Seq(Nat), LongestPrefix(src, r) > 0
  PROVE  LET n == LongestPrefix(src, r)
             k == CHOOSE k \in Places(src, Prefix(r, n)) : TRUE
         IN /\ n \in 1..Len(r) /\ k \in Nat /\ k + n <= Len(src)
            /\ SubSeq(src, k + 1, k + n) = Prefix(r, n)
<1> DEFINE n == LongestPrefix(src, r)
           k == CHOOSE k \in Places(src, Prefix(r, n)) : TRUE
<1>1. n \in 1..Len(r) /\ Occurs(src, Prefix(r, n))
  BY LongestPrefixIs
<1> HIDE DEF n
<1>2. k \in Places(src, Prefix(r, n))
  BY <1>1 DEF Occurs
<1> HIDE DEF k
<1>3. Len(Prefix(r, n)) = n /\ n \in Nat
  <2>1. n \in 0..Len(r) /\ n \in Nat
    BY <1>1
  <2> QED BY <2>1, PrefixIs
<1>4. k \in 0..Len(src) - n /\ SubSeq(src, k + 1, k + n) = Prefix(r, n)
  BY <1>2, <1>3 DEF Places
<1>5. k \in Nat /\ k + n <= Len(src)
  BY <1>3, <1>4
<1> QED
  BY <1>1, <1>4, <1>5 DEF n, k

\* They are instructions, and each is for some of dst.
LEMMA NextOfIs ==
  ASSUME NEW src \in Seq(Nat), NEW dst \in Seq(Nat), NEW r \in Seq(Nat)
  PROVE  /\ Halts(src, dst, r) => LastOf(src, dst, r) \in Seq(Instruction)
         /\ ~Halts(src, dst, r) => /\ NextOf(src, dst, r) \in Instruction
                                   /\ Covers(src, dst, r) \in 1..Len(r)
                                   /\ From(r, Covers(src, dst, r)) \in Seq(Nat)
                                   /\ Len(From(r, Covers(src, dst, r))) < Len(r)
<1> DEFINE n == LongestPrefix(src, r)
           next == NextPrefixStart(src, dst)
           k == CHOOSE k \in Places(src, Prefix(r, n)) : TRUE
<1>0. /\ \A x \in Seq(Nat) : Insert(x) \in Instruction
      /\ Panic \in Instruction
      /\ \A a, b \in Nat : CopyOf(a, b) \in Instruction
  BY DEF Insert, Panic, CopyOf, Instruction
<1>1. LastOf(src, dst, r) \in Seq(Instruction)
  <2>1. \A x \in Instruction : <<x>> \in Seq(Instruction)
    OBVIOUS
  <2>2. <<Insert(r)>> \in Seq(Instruction) /\ <<Panic>> \in Seq(Instruction)
    BY <1>0, <2>1
  <2> QED BY <2>2 DEF LastOf
<1>2. ASSUME ~Halts(src, dst, r)
      PROVE  NextOf(src, dst, r) \in Instruction /\ Covers(src, dst, r) \in 1..Len(r)
  <2>1. CASE n > 0
    <3>1. n \in 1..Len(r) /\ k \in Nat
      BY <2>1, CopyPlace
    <3>2. NextOf(src, dst, r) = CopyOf(k, n) /\ Covers(src, dst, r) = n
      BY <2>1 DEF NextOf, Covers
    <3> HIDE DEF n, k
    <3>3. n \in Nat
      BY <3>1
    <3> QED BY <1>0, <3>1, <3>2, <3>3
  <2>2. CASE ~(n > 0)
    <3>1. next = -1 \/ next \in Nat \ {0}
      BY NextPrefixStartIs
    <3>2. ~(next < 0) /\ ~(next > Len(r))
      BY <1>2, <2>2 DEF Halts
    <3>3. next \in 1..Len(r) /\ next \in 0..Len(r)
      BY <3>1, <3>2
    <3>4. NextOf(src, dst, r) = Insert(Prefix(r, next)) /\ Covers(src, dst, r) = next
      BY <2>2 DEF NextOf, Covers
    <3> HIDE DEF next
    <3>5. Prefix(r, next) \in Seq(Nat)
      BY <3>3, PrefixIs
    <3> QED BY <1>0, <3>3, <3>4, <3>5
  <2> QED BY <2>1, <2>2
<1>3. ASSUME NEW c \in 1..Len(r) PROVE From(r, c) \in Seq(Nat) /\ Len(From(r, c)) < Len(r)
  <2>1. c \in 0..Len(r)
    OBVIOUS
  <2>2. From(r, c) \in Seq(Nat) /\ Len(From(r, c)) = Len(r) - c
    BY <2>1, FromIs
  <2> QED BY <2>2
<1> QED
  BY <1>1, <1>2, <1>3

\* What the loop of calculate puts out from what remains on.
Calculates(f, src, dst) ==
  /\ f \in [Seq(Nat) -> Seq(Instruction)]
  /\ \A r \in Seq(Nat) :
       f[r] = IF Halts(src, dst, r) THEN LastOf(src, dst, r)
              ELSE <<NextOf(src, dst, r)>> \o f[From(r, Covers(src, dst, r))]

\* Calculate does what its definition says.
LEMMA CalculateIs ==
  ASSUME NEW src \in Seq(Nat), NEW dst \in Seq(Nat)
  PROVE  \E f : Calculates(f, src, dst) /\ Calculate(src, dst) = f[dst]
<1> DEFINE D == Seq(Nat)
           V == Seq(Instruction)
           m == [r \in D |-> Len(r)]
           B == {r \in D : Halts(src, dst, r)}
           b == [r \in B |-> LastOf(src, dst, r)]
           rest(r) == From(r, Covers(src, dst, r))
           p == [r \in D |-> IF Halts(src, dst, r) THEN r ELSE rest(r)]
           first(r) == <<NextOf(src, dst, r)>>
           g == [q \in D \X V |-> IF Halts(src, dst, q[1]) THEN LastOf(src, dst, q[1]) ELSE first(q[1]) \o q[2]]
           next == NextPrefixStart(src, dst)
           body(remaining, Of) ==
             LET n == LongestPrefix(src, remaining)
             IN IF remaining = <<>> THEN <<>>
                ELSE IF n > 0
                THEN <<CopyOf(CHOOSE k \in Places(src, Prefix(remaining, n)) : TRUE, n)>> \o Of[From(remaining, n)]
                ELSE IF Len(remaining) <= MinCopy \/ next < 0 THEN <<Insert(remaining)>>
                ELSE IF next > Len(remaining) THEN <<Panic>>
                ELSE <<Insert(Prefix(remaining, next))>> \o Of[From(remaining, next)]
           P(f) == f = [remaining \in Seq(Nat) |-> body(remaining, f)]
           F == CHOOSE h : P(h)
<1>1. \A r \in D : /\ Halts(src, dst, r) => LastOf(src, dst, r) \in V
                   /\ ~Halts(src, dst, r) => first(r) \in V /\ rest(r) \in D /\ Len(rest(r)) < Len(r)
  <2> SUFFICES ASSUME NEW r \in D
               PROVE  /\ Halts(src, dst, r) => LastOf(src, dst, r) \in V
                      /\ ~Halts(src, dst, r) => first(r) \in V /\ rest(r) \in D /\ Len(rest(r)) < Len(r)
    OBVIOUS
  <2>1. ~Halts(src, dst, r) => NextOf(src, dst, r) \in Instruction
    BY NextOfIs
  <2>2. ~Halts(src, dst, r) => first(r) \in V
    BY <2>1
  <2> QED BY <2>2, NextOfIs
<1> HIDE DEF first, rest
<1>2. m \in [D -> Nat] /\ p \in [D -> D] /\ b \in [B -> V]
  BY <1>1
<1>3. g \in [D \X V -> V]
  <2>1. \A r \in D, t \in V : ~Halts(src, dst, r) => first(r) \o t \in V
    BY <1>1, ConcatProperties
  <2> QED BY <1>1, <2>1
<1>4. Descends(m, p, D, B)
  BY <1>1 DEF Descends
<1> HIDE DEF m, b, p, g, B
<1>5. PICK f \in [D -> V] : Recurs(f, D, B, b, p, g)
  <2> HIDE DEF D, V
  <2> QED BY <1>2, <1>3, <1>4, MeasureRecursion
<1>6. \A r \in D : f[r] = IF Halts(src, dst, r) THEN LastOf(src, dst, r) ELSE first(r) \o f[rest(r)]
  <2> SUFFICES ASSUME NEW r \in D
               PROVE  f[r] = IF Halts(src, dst, r) THEN LastOf(src, dst, r) ELSE first(r) \o f[rest(r)]
    OBVIOUS
  <2>1. f[r] = IF r \in B THEN b[r] ELSE g[<<r, f[p[r]]>>]
    BY <1>5 DEF Recurs
  <2>2. CASE Halts(src, dst, r)
    BY <2>1, <2>2 DEF B, b
  <2>3. CASE ~Halts(src, dst, r)
    <3>1. p[r] = rest(r) /\ p[r] \in D /\ r \notin B
      BY <1>1, <2>3 DEF p, B
    <3>2. f[p[r]] \in V
      BY <3>1
    <3> QED BY <2>1, <2>3, <3>1, <3>2 DEF g
  <2> QED BY <2>2, <2>3
<1>7. ASSUME NEW r \in D, NEW h
      PROVE  body(r, h) = IF Halts(src, dst, r) THEN LastOf(src, dst, r) ELSE first(r) \o h[rest(r)]
  <2> HIDE DEF next
  <2>1. CASE r = <<>>
    BY <2>1 DEF Halts, LastOf
  <2>2. CASE r # <<>> /\ LongestPrefix(src, r) > 0
    BY <2>2 DEF Halts, Covers, NextOf, first, rest
  <2>3. CASE r # <<>> /\ ~(LongestPrefix(src, r) > 0)
    BY <2>3 DEF Halts, LastOf, Covers, NextOf, first, rest, next
  <2> QED BY <2>1, <2>2, <2>3
<1>8. P(f)
  <2> HIDE DEF body
  <2>1. \A r \in D : f[r] = body(r, f)
    BY <1>6, <1>7
  <2> QED BY <2>1
<1>9. P(F)
  <2> HIDE DEF P
  <2> QED BY <1>8
<1>10. Calculate(src, dst) = F[dst]
  BY DEF Calculate
<1> HIDE DEF F
<1>11. \A r \in D : F[r] = IF Halts(src, dst, r) THEN LastOf(src, dst, r) ELSE first(r) \o F[rest(r)]
  <2> HIDE DEF body
  <2> QED BY <1>7, <1>9
<1>12. F = [r \in D |-> F[r]]
  BY <1>9
<1> HIDE DEF P
<1>13. Follows(F, f, D, B, p)
  <2> SUFFICES ASSUME NEW r \in D, r \in B \/ F[p[r]] = f[p[r]] PROVE F[r] = f[r]
    BY DEF Follows
  <2>1. Halts(src, dst, r) \/ F[rest(r)] = f[rest(r)]
    BY DEF B, p
  <2> QED BY <1>6, <1>11, <2>1
<1>14. \A r \in D : F[r] = f[r]
  <2>1. Same(F, f, D)
    BY <1>2, <1>4, <1>13, MeasureSame
  <2> QED BY <2>1 DEF Same
<1>15. F \in [D -> V]
  <2>1. \A r \in D : F[r] \in V
    BY <1>14
  <2> QED BY <1>12, <2>1
<1>16. Calculates(F, src, dst)
  BY <1>11, <1>15 DEF Calculates, first, rest
<1> QED
  BY <1>10, <1>16

\* No Byte^3 symbols of r are in src.
NoLong(src, r) ==
  \A i \in Byte * Byte * Byte..Len(r) : ~Occurs(src, SubSeq(r, i - Byte * Byte * Byte + 1, i))

\* Nor are any of what follows in r, and a copy is shorter.
LEMMA NoLongIs ==
  ASSUME NEW src \in Seq(Nat), NEW r \in Seq(Nat), NoLong(src, r), NEW n \in 1..Len(r)
  PROVE  NoLong(src, From(r, n)) /\ (Occurs(src, Prefix(r, n)) => n < Byte * Byte * Byte)
<1> DEFINE b == Byte * Byte * Byte
           t == From(r, n)
<1>1. b \in Nat \ {0}
  <2>1. Byte * Byte \in Nat \ {0} /\ Byte \in Nat \ {0}
    BY WidthAssumption
  <2> QED BY <2>1
<1>2. \A i \in b..Len(r) : ~Occurs(src, SubSeq(r, i - b + 1, i))
  BY DEF NoLong
<1>3. n \in Nat /\ Len(r) \in n..Len(r) /\ n \in 0..Len(r) /\ Len(r) \in Nat /\ 0 < n
  OBVIOUS
<1>4. t \in Seq(Nat) /\ Len(t) = Len(r) - n /\ t = Slice(r, n, Len(r))
  BY <1>3, FromIs
<1>5. ASSUME NEW i \in b..Len(t) PROVE ~Occurs(src, SubSeq(t, i - b + 1, i))
  <2> HIDE DEF b, t
  <2>1. i \in Nat /\ i - b \in Nat /\ i \in i - b..Len(r) - n /\ i + n \in b..Len(r) /\ n + (i - b) = (i + n) - b
        /\ n + i = i + n
    BY <1>1, <1>3, <1>4
  <2>2. Slice(t, i - b, i) = Slice(r, n + (i - b), n + i)
    <3> DEFINE c == i - b
               l == Len(r)
    <3>1. n \in Nat /\ l \in n..Len(r) /\ c \in Nat /\ i \in c..l - n
      BY <1>3, <2>1
    <3> HIDE DEF c, l
    <3>2. Slice(Slice(r, n, l), c, i) = Slice(r, n + c, n + i)
      BY <3>1, SliceOfSlice
    <3> QED BY <1>4, <3>2 DEF c, l
  <2>3. SubSeq(t, i - b + 1, i) = SubSeq(r, (i + n) - b + 1, i + n)
    BY <2>1, <2>2 DEF Slice
  <2> QED BY <1>2, <2>1, <2>3
<1>6. ASSUME Occurs(src, Prefix(r, n)), ~(n < b) PROVE FALSE
  <2> DEFINE c == n - b
             u == Prefix(r, n)
  <2>1. c \in Nat /\ c <= n /\ n \in c..n /\ n \in b..Len(r) /\ n - c = b
    <3> HIDE DEF b
    <3> QED BY <1>1, <1>3, <1>6
  <2>2. u \in Seq(Nat) /\ Len(u) = n
    BY <1>3, PrefixIs
  <2>3. PICK k \in 0..Len(src) - n : SubSeq(src, k + 1, k + n) = u
    BY <1>6, <2>2 DEF Occurs, Places
  <2> DEFINE v == Slice(r, c, n)
  <2>4. v \in Seq(Nat) /\ Len(v) = b /\ v = SubSeq(r, n - b + 1, n)
    <3>1. n \in c..Len(r)
      BY <1>3, <2>1
    <3>2. v \in Seq(Nat) /\ Len(v) = n - c
      BY ZenonT(30), <2>1, <3>1, SliceIs
    <3> QED BY <2>1, <3>2 DEF Slice
  <2> HIDE DEF b
  <2>5. k \in Nat /\ k + n \in k..Len(src) /\ (k + n) - k = n /\ k + c \in 0..Len(src) - b /\ k + n = (k + c) + b
    BY <1>1, <1>3, <2>1, <2>3
  <2>6. Slice(Slice(src, k, k + n), c, n) = Slice(src, k + c, k + n)
    BY SMTT(30), <2>1, <2>5, SliceOfSlice
  <2>7. Slice(u, c, n) = v
    <3> DEFINE o == 0
    <3>1. o \in Nat /\ n \in o..Len(r) /\ u = Slice(r, o, n) /\ n \in c..n - o /\ o + c = c /\ o + n = n
      BY <1>3, <2>1 DEF Prefix, Slice
    <3> HIDE DEF o
    <3>2. Slice(Slice(r, o, n), c, n) = Slice(r, o + c, o + n)
      BY <2>1, <3>1, SliceOfSlice
    <3> QED BY <3>1, <3>2
  <2>8. SubSeq(src, (k + c) + 1, (k + c) + b) = v
    <3>1. Slice(src, k, k + n) = u
      BY <2>3 DEF Slice
    <3>2. Slice(src, k + c, k + n) = v
      BY <2>6, <2>7, <3>1
    <3> QED BY <2>5, <3>2 DEF Slice
  <2>9. k + c \in Places(src, v)
    BY <2>4, <2>5, <2>8 DEF Places
  <2>10. Occurs(src, v)
    BY <2>9 DEF Occurs
  <2> QED BY <1>2, <2>1, <2>4, <2>10
<1> QED
  BY <1>5, <1>6 DEF NoLong

\* Not more than the offset of a copy can say.
Short(src) == Len(src) <= Byte * Byte * Byte * Byte

\* Nothing that is read is nothing.
LEMMA NothingReads ==
  ASSUME NEW base \in Seq(Nat), NEW e, e = <<>>
  PROVE  /\ e \in Seq(Nat) /\ e \in Seq(Coded) /\ e \in Seq(Instruction) /\ WriteAll[e] = e
         /\ ReadCode(e, base) = Ended(e)
<1>1. e \in Seq(Nat) /\ e \in Seq(Coded) /\ e \in Seq(Instruction)
  OBVIOUS
<1>2. WriteAll[e] = e
  BY <1>1, WriteAllIs
<1>3. Stops(e, base) /\ Stopped(e, base) = Ended(e)
  BY DEF Stops, Stopped
<1> QED
  BY <1>1, <1>2, <1>3, ReadCodeIs

\* One instruction that is written and those that follow.
LEMMA WrittenFirst ==
  ASSUME NEW i \in Instruction, NEW c \in Seq(Instruction)
  PROVE  /\ WriteAll[<<i>> \o c] = Written(i) \o WriteAll[c]
         /\ Range(<<i>> \o c) = {i} \cup Range(c)
<1> DEFINE s == <<i>> \o c
<1>1. s \in Seq(Instruction) /\ s # <<>> /\ Head(s) = i /\ Tail(s) = c
  BY PutFirst
<1> HIDE DEF s
<1>2. WriteAll[s] = Written(i) \o WriteAll[c]
  BY <1>1, WriteAllIs
<1>3. Range(s) = {i} \cup Range(c)
  BY <1>1, RangeTail
<1> QED
  BY <1>2, <1>3 DEF s

\* What is read of an instruction before an end.
LEMMA WrittenReads ==
  ASSUME NEW src \in Seq(Nat), Short(src), NEW dst \in Seq(Nat), NEW r \in Seq(Nat), ~Halts(src, dst, r),
         NoLong(src, r), NEW more \in Seq(Coded), NEW t \in Seq(Nat), ReadCode(more, src) = Ended(t)
  PROVE  ReadCode(Written(NextOf(src, dst, r)) \o more, src) = Ended(Prefix(r, Covers(src, dst, r)) \o t)
<1> DEFINE n == LongestPrefix(src, r)
           next == NextPrefixStart(src, dst)
           k == CHOOSE k \in Places(src, Prefix(r, n)) : TRUE
<1>1. CASE n > 0
  <2> DEFINE i == CopyOf(k, n)
             u == Prefix(r, n)
  <2>1. n \in 1..Len(r) /\ k \in Nat /\ k + n <= Len(src) /\ SubSeq(src, k + 1, k + n) = u
    BY <1>1, CopyPlace
  <2>2. NextOf(src, dst, r) = i /\ Covers(src, dst, r) = n
    BY <1>1 DEF NextOf, Covers
  <2>3. Occurs(src, u)
    BY <1>1, LongestPrefixIs
  <2> HIDE DEF n, k
  <2>4. i.op = "copy" /\ i.offset = k /\ i.length = n
    BY DEF CopyOf
  <2>5. Written(i) = WriteCopy(i)
    BY <2>4 DEF Written
  <2>6. n < Byte * Byte * Byte
    BY <2>1, <2>3, NoLongIs
  <2>7. Fits(i, src)
    <3> HIDE DEF i
    <3>1. n \in Nat /\ n # 0 /\ Len(src) \in Nat /\ k < Len(src)
      BY <2>1
    <3>2. k < Byte * Byte * Byte * Byte
      <4>1. Byte * Byte \in Nat
        BY WidthAssumption
      <4>2. PICK x \in Nat : x = Byte * Byte * Byte * Byte
        BY <4>1, WidthAssumption
      <4> QED BY <2>1, <3>1, <4>2 DEF Short
    <3> QED BY <2>1, <2>4, <2>6, <3>1, <3>2 DEF Fits, IsCopy
  <2> HIDE DEF i
  <2>8. ReadCode(WriteCopy(i) \o more, src) = After(SubSeq(src, i.offset + 1, i.offset + i.length), Ended(t))
    BY <2>7, CopyReads
  <2>9. u \in Seq(Nat)
    <3>1. n \in 0..Len(r)
      BY <2>1
    <3> QED BY <3>1, PrefixIs
  <2> HIDE DEF u
  <2>10. After(u, Ended(t)) = Ended(u \o t)
    BY <2>9, AfterEnded
  <2> QED BY <2>1, <2>2, <2>4, <2>5, <2>8, <2>10 DEF u
<1>2. CASE ~(n > 0)
  <2> DEFINE u == Prefix(r, next)
  <2>1. NextOf(src, dst, r) = Insert(u) /\ Covers(src, dst, r) = next
    BY <1>2 DEF NextOf, Covers
  <2>2. next \in 1..Len(r)
    BY <2>1, NextOfIs
  <2> HIDE DEF next
  <2>3. u \in Seq(Nat)
    <3>1. next \in 0..Len(r)
      BY <2>2
    <3> QED BY <3>1, PrefixIs
  <2> HIDE DEF u
  <2>4. Written(Insert(u)) = WriteInsert[u]
    BY DEF Written, Insert
  <2>5. ReadCode(WriteInsert[u] \o more, src) = After(u, Ended(t))
    BY <2>3, InsertReads
  <2>6. After(u, Ended(t)) = Ended(u \o t)
    BY <2>3, AfterEnded
  <2> QED BY <2>1, <2>4, <2>5, <2>6 DEF u
<1> QED
  BY <1>1, <1>2

\* What is calculated is read back.
LEMMA CalculatedReads ==
  ASSUME NEW src \in Seq(Nat), Short(src), NEW dst \in Seq(Nat), NEW f, Calculates(f, src, dst)
  PROVE  \A r \in Seq(Nat) :
           NoLong(src, r) /\ Panic \notin Range(f[r]) => ReadCode(WriteAll[f[r]], src) = Ended(r)
<1> DEFINE D == Seq(Nat)
           m == [r \in D |-> Len(r)]
           S == {r \in D : NoLong(src, r) /\ Panic \notin Range(f[r]) => ReadCode(WriteAll[f[r]], src) = Ended(r)}
<1>1. m \in [D -> Nat]
  OBVIOUS
<1>2. \A r \in D : /\ f[r] \in Seq(Instruction)
                   /\ f[r] = IF Halts(src, dst, r) THEN LastOf(src, dst, r)
                             ELSE <<NextOf(src, dst, r)>> \o f[From(r, Covers(src, dst, r))]
  BY DEF Calculates
<1>3. ASSUME NEW r \in D, \A t \in D : m[t] < m[r] => t \in S, NoLong(src, r), Panic \notin Range(f[r])
      PROVE  ReadCode(WriteAll[f[r]], src) = Ended(r)
  <2>1. CASE Halts(src, dst, r)
    <3> DEFINE e == <<>>
    <3>0. e = <<>>
      OBVIOUS
    <3> HIDE DEF e
    <3>1. f[r] = LastOf(src, dst, r)
      BY <1>2, <2>1
    <3>2. CASE r = <<>>
      <4>1. f[r] = e /\ r = e
        BY <3>0, <3>1, <3>2 DEF LastOf
      <4>2. WriteAll[e] = e /\ ReadCode(e, src) = Ended(e)
        BY <3>0, NothingReads
      <4> QED BY <4>1, <4>2
    <3>3. CASE r # <<>> /\ (Len(r) <= MinCopy \/ NextPrefixStart(src, dst) < 0)
      <4> DEFINE i == Insert(r)
      <4>1. f[r] = <<i>>
        BY <3>1, <3>3 DEF LastOf
      <4>2. i \in Instruction /\ Written(i) = WriteInsert[r]
        BY DEF Insert, Instruction, Written
      <4> HIDE DEF i
      <4>3. <<i>> \o e = <<i>> /\ e \in Seq(Instruction)
        BY <3>0, <4>2
      <4>4. WriteAll[<<i>>] = WriteInsert[r] \o e
        <5>1. WriteAll[e] = e
          BY <3>0, NothingReads
        <5>2. WriteAll[<<i>> \o e] = Written(i) \o WriteAll[e]
          BY <4>2, <4>3, WrittenFirst
        <5> QED BY <4>2, <4>3, <5>1, <5>2
      <4>5. e \in Seq(Nat) /\ e \in Seq(Coded) /\ ReadCode(e, src) = Ended(e)
        BY <3>0, NothingReads
      <4>6. ReadCode(WriteInsert[r] \o e, src) = After(r, Ended(e))
        BY <4>5, InsertReads
      <4>7. After(r, Ended(e)) = Ended(r \o e)
        BY <4>5, AfterEnded
      <4>8. r \o e = r
        BY <3>0
      <4> QED BY <4>1, <4>4, <4>6, <4>7, <4>8
    <3>4. CASE r # <<>> /\ ~(Len(r) <= MinCopy \/ NextPrefixStart(src, dst) < 0)
      <4>1. f[r] = <<Panic>>
        BY <3>1, <3>4 DEF LastOf
      <4>2. Panic \in Range(<<Panic>>)
        BY DEF Range
      <4> QED BY <1>3, <4>1, <4>2
    <3> QED BY <3>2, <3>3, <3>4
  <2>2. CASE ~Halts(src, dst, r)
    <3> DEFINE i == NextOf(src, dst, r)
               n == Covers(src, dst, r)
               t == From(r, n)
               u == Prefix(r, n)
               more == WriteAll[f[t]]
    <3>1. i \in Instruction /\ n \in 1..Len(r) /\ t \in D /\ Len(t) < Len(r)
      BY <2>2, NextOfIs
    <3>2. f[r] = <<i>> \o f[t] /\ f[t] \in Seq(Instruction)
      BY <1>2, <2>2, <3>1
    <3>3. NoLong(src, t)
      BY <1>3, <3>1, NoLongIs
    <3>4. WriteAll[f[r]] = Written(i) \o more /\ Range(f[r]) = {i} \cup Range(f[t])
      <4> HIDE DEF i, t
      <4> QED BY <3>1, <3>2, WrittenFirst
    <3>5. ReadCode(more, src) = Ended(t)
      <4>1. t \in S
        BY <1>3, <3>1
      <4>2. Panic \notin Range(f[t])
        BY <1>3, <3>4
      <4> HIDE DEF t
      <4> QED BY <3>3, <4>1, <4>2
    <3>6. more \in Seq(Coded)
      <4> HIDE DEF t
      <4> QED BY <3>2, WriteAllIs
    <3>7. u \o t = r
      <4>1. n \in 0..Len(r)
        BY <3>1
      <4> HIDE DEF n
      <4> QED BY <4>1, PrefixIs
    <3>8. ReadCode(Written(i) \o more, src) = Ended(u \o t)
      <4> HIDE DEF more, t
      <4> QED BY <1>3, <2>2, <3>1, <3>5, <3>6, WrittenReads
    <3> QED BY <3>4, <3>7, <3>8
  <2> QED BY <2>1, <2>2
<1>4. \A r \in D : (\A t \in D : m[t] < m[r] => t \in S) => r \in S
  BY <1>3
<1>5. D \subseteq S
  <2> HIDE DEF m, D, S
  <2> QED BY <1>1, <1>4, MeasureInduction
<1> QED
  BY <1>5

\* What the calculator writes for dst makes dst of src again, with the length
\* it says, whatever both are, unless it panics or would have to split a copy.
THEOREM DeltaRoundTrip ==
  ASSUME NEW src \in Seq(Nat), NEW dst \in Seq(Nat), Short(src), NoLong(src, dst), ~Panics(src, dst)
  PROVE  /\ ReadAll(WriteDelta(src, dst), src) = dst
         /\ SizeIsRight(WriteDelta(src, dst), dst)
<1> DEFINE delta == WriteDelta(src, dst)
<1>1. PICK f : Calculates(f, src, dst) /\ Calculate(src, dst) = f[dst]
  BY CalculateIs
<1>2. delta.code = WriteAll[f[dst]] /\ delta.size = Uvarint[Len(dst)]
  BY <1>1 DEF WriteDelta
<1>3. ReadCode(delta.code, src) = Ended(dst)
  BY <1>1, <1>2, CalculatedReads DEF Panics
<1> HIDE DEF delta
<1>4. ReadAll(delta, src) = dst
  BY <1>3 DEF ReadAll, WithoutError, Ended
<1>5. ReadVariable[delta.size] = Len(dst)
  <2>1. Len(dst) \in Nat
    OBVIOUS
  <2> QED BY <1>2, <2>1, VariableRoundTrip
<1>6. dst # Bad
  BY BadIsNone
<1> QED
  BY <1>4, <1>5, <1>6 DEF delta, SizeIsRight

-----------------------------------------------------------------------------
(* Entries.                                                                *)

\* What a delta is written as, and an entry.
Deltas == [size : Seq(Part), code : Seq(Coded)]
Entries ==
  [loc : Nat, type : Kinds \cup {"ref", "ofs"}, size : Seq(Part), ref : Object \cup {Unknown},
   back : Seq(Part), data : Seq(Nat) \cup Deltas]

\* An entry as it is in a file.
Formed(e) ==
  /\ e.loc \in Nat \ {0}
  /\ e.type \in Kinds \cup {"ref", "ofs"}
  /\ e.type \in Kinds => e.data \in Seq(Nat)
  /\ e.type \notin Kinds => e.data \in Deltas
  /\ e.type = "ref" => e.ref \in Object
  /\ e.type = "ofs" => Ends(e.back)
  /\ e.size = WriteVariable(SizeOf(e))

\* The entries of a file, one after the other.
IsPack(p) ==
  /\ p \in Seq(Entries)
  /\ \A k \in 1..Len(p) : Formed(p[k])
  /\ \A j, k \in 1..Len(p) : j < k => p[j].loc < p[k].loc
  /\ \A k \in 1..Len(p) : p[k].loc < End(p)
  /\ End(p) \in Nat \ {0}

\* What the calculator writes is a delta.
LEMMA WriteDeltaIs ==
  ASSUME NEW src \in Seq(Nat), NEW dst \in Seq(Nat)
  PROVE  WriteDelta(src, dst) \in Deltas
<1>1. PICK f : Calculates(f, src, dst) /\ Calculate(src, dst) = f[dst]
  BY CalculateIs
<1>2. f[dst] \in Seq(Instruction)
  BY <1>1 DEF Calculates
<1>3. WriteAll[f[dst]] \in Seq(Coded)
  BY <1>2, WriteAllIs
<1>4. Uvarint[Len(dst)] \in Seq(Part)
  <2>1. Len(dst) \in Nat
    OBVIOUS
  <2> QED BY <2>1, UvarintIs
<1> QED
  BY <1>1, <1>3, <1>4 DEF WriteDelta, Deltas

\* The kinds of objects are not those of deltas.
LEMMA KindsAre ==
  /\ "ref" \notin Kinds /\ "ofs" \notin Kinds /\ "none" \notin Kinds
  /\ \A o \in Object : Kind[o] \in Kinds /\ Content[o] \in Seq(Nat)
<1>1. Kinds \cap {"ref", "ofs", "none"} = {}
  BY ObjectAssumption DEF Kinds
<1>2. \A o \in Object : Kind[o] \in Kinds
  BY ObjectAssumption DEF Kinds, Range
<1>3. \A o \in Object : Content[o] \in Seq(Nat)
  BY ObjectAssumption
<1> QED
  BY <1>1, <1>2, <1>3

\* What an entry is made of.
LEMMA EntryIs ==
  ASSUME NEW at, NEW type, NEW ref, NEW back, NEW data
  PROVE  LET e == Entry(at, type, ref, back, data)
         IN /\ e.loc = at /\ e.type = type /\ e.ref = ref /\ e.back = back /\ e.data = data
            /\ e.size = WriteVariable(SizeOf(e))
            /\ e = [loc |-> at, type |-> type, size |-> WriteVariable(SizeOf(e)), ref |-> ref, back |-> back,
                    data |-> data]
<1> DEFINE r == [loc |-> at, type |-> type, size |-> <<>>, ref |-> ref, back |-> back, data |-> data]
           n == SizeOf(r)
           w == WriteVariable(n)
           e == Entry(at, type, ref, back, data)
<1>1. e = [r EXCEPT !.size = w]
  BY DEF Entry, Sized
<1> HIDE DEF w, n, e
<1>2. /\ e.loc = at /\ e.type = type /\ e.ref = ref /\ e.back = back /\ e.data = data /\ e.size = w
      /\ e = [loc |-> at, type |-> type, size |-> w, ref |-> ref, back |-> back, data |-> data]
  BY <1>1
<1>3. SizeOf(e) = n
  BY <1>2 DEF SizeOf, IsDelta, n
<1> QED
  BY <1>2, <1>3 DEF e, w

\* The size of an entry is a number, and its length is one that is not 0.
LEMMA LengthIs ==
  ASSUME NEW e, Formed(e)
  PROVE  SizeOf(e) \in Nat /\ e.size \in Seq(Part) /\ Length(e) \in Nat \ {0}
<1>1. SizeOf(e) \in Nat
  <2>1. CASE e.type \in Kinds
    <3>1. e.data \in Seq(Nat)
      BY <2>1 DEF Formed
    <3>2. Len(e.data) \in Nat
      BY <3>1
    <3> QED BY <2>1, <3>2 DEF SizeOf, IsDelta
  <2>2. CASE e.type \notin Kinds
    <3>0. e.data \in Deltas
      BY <2>2 DEF Formed
    <3>1. e.data.size \in Seq(Part) /\ e.data.code \in Seq(Coded)
      BY <3>0 DEF Deltas
    <3>3. Len(e.data.size) \in Nat
      BY <3>1
    <3>4. Len(e.data.code) \in Nat
      BY <3>1
    <3>5. PICK m \in Nat : m = Len(e.data.size)
      BY <3>3
    <3>6. PICK n \in Nat : n = Len(e.data.code)
      BY <3>4
    <3>2. SizeOf(e) = m + n
      BY <2>2, <3>5, <3>6 DEF SizeOf, IsDelta
    <3> QED BY <3>2
  <2> QED BY <2>1, <2>2
<1>2. e.size \in Seq(Part)
  BY <1>1, HeaderSizeRoundTrip DEF Formed
<1>3. Len(e.size) \in Nat
  BY <1>2
<1> DEFINE l == CASE e.type = "ref" -> HashLen [] e.type = "ofs" -> Len(e.back) [] OTHER -> 0
<1>4. l \in Nat
  <2>1. HashLen \in Nat
    BY PacksAssumption
  <2>2. e.type = "ofs" => Len(e.back) \in Nat
    BY DEF Formed, Ends
  <2> QED BY <2>1, <2>2
<1>5. Length(e) = Len(e.size) + l + SizeOf(e) + 1
  BY DEF Length
<1> HIDE DEF l
<1> QED
  BY <1>1, <1>2, <1>3, <1>4, <1>5

\* An entry more at the end of a file.
LEMMA PackGrows ==
  ASSUME NEW p, IsPack(p), NEW e \in Entries, Formed(e), e.loc = End(p)
  PROVE  /\ IsPack(Append(p, e)) /\ Len(Append(p, e)) = Len(p) + 1
         /\ Append(p, e)[Len(p) + 1] = e
         /\ \A k \in 1..Len(p) : Append(p, e)[k] = p[k]
         /\ End(p) < End(Append(p, e))
<1> DEFINE q == Append(p, e)
           n == Len(p)
<1>1. p \in Seq(Entries)
  BY DEF IsPack
<1>2. /\ q \in Seq(Entries) /\ Len(q) = n + 1 /\ q[n + 1] = e /\ n \in Nat
      /\ \A k \in 1..n : q[k] = p[k]
      /\ q # <<>> /\ Last(q) = e
  <2>1. q \in Seq(Entries) /\ Len(q) = n + 1 /\ q[n + 1] = e /\ n \in Nat /\ \A k \in 1..n : q[k] = p[k]
    BY <1>1
  <2>2. q # <<>>
    BY <2>1
  <2>3. Last(q) = q[Len(q)]
    BY DEF Last
  <2> QED BY <2>1, <2>2, <2>3
<1> HIDE DEF q, n
<1>3. End(q) = e.loc + Length(e)
  BY <1>2 DEF End
<1>4. Length(e) \in Nat \ {0} /\ End(p) \in Nat \ {0}
  BY LengthIs DEF IsPack
<1>5. End(q) \in Nat \ {0} /\ End(p) < End(q)
  BY <1>3, <1>4
<1>6. \A k \in 1..n : /\ p[k].loc < End(p) /\ Formed(p[k]) /\ p[k].loc \in Nat
  BY DEF IsPack, Formed, n
<1>7. \A k \in 1..n + 1 : k \in 1..n \/ k = n + 1
  BY <1>2
<1>8. \A k \in 1..Len(q) : Formed(q[k]) /\ q[k].loc < End(q)
  <2> SUFFICES ASSUME NEW k \in 1..n + 1 PROVE Formed(q[k]) /\ q[k].loc < End(q)
    BY <1>2
  <2>1. CASE k \in 1..n
    BY <1>2, <1>4, <1>5, <1>6, <2>1
  <2>2. CASE k = n + 1
    BY <1>2, <1>4, <1>5, <2>2
  <2> QED BY <1>7, <2>1, <2>2
<1>9. ASSUME NEW j \in 1..Len(q), NEW k \in 1..Len(q), j < k PROVE q[j].loc < q[k].loc
  <2>1. j \in 1..n
    BY <1>2, <1>9
  <2>2. CASE k \in 1..n
    BY <1>2, <1>9, <2>1, <2>2 DEF IsPack, n
  <2>3. CASE k = n + 1
    BY <1>2, <1>6, <2>1, <2>3
  <2> QED BY <1>2, <1>7, <2>2, <2>3
<1>10. IsPack(q)
  BY <1>2, <1>5, <1>8, <1>9 DEF IsPack
<1> QED
  BY <1>2, <1>5, <1>10 DEF q, n

\* An empty file is one.
LEMMA EmptyPack ==
  ASSUME NEW p, p = <<>>
  PROVE  IsPack(p) /\ Len(p) = 0
<1>1. p \in Seq(Entries) /\ Len(p) = 0
  OBVIOUS
<1>2. End(p) = HeaderLen /\ HeaderLen \in Nat \ {0}
  BY PacksAssumption DEF End
<1> QED
  BY <1>1, <1>2 DEF IsPack

\* Entries that are written are formed.
LEMMA FullIs ==
  ASSUME NEW at \in Nat \ {0}, NEW o \in Object
  PROVE  Full(at, o) \in Entries /\ Formed(Full(at, o)) /\ Full(at, o).loc = at
<1> DEFINE e == Full(at, o)
           b == <<>>
<1>0. b \in Seq(Part)
  OBVIOUS
<1>1. e = Entry(at, Kind[o], Unknown, b, Content[o])
  BY DEF Full
<1> HIDE DEF e, b
<1>2. /\ e.loc = at /\ e.type = Kind[o] /\ e.data = Content[o] /\ e.size = WriteVariable(SizeOf(e))
      /\ e = [loc |-> at, type |-> Kind[o], size |-> WriteVariable(SizeOf(e)), ref |-> Unknown, back |-> b,
              data |-> Content[o]]
  BY <1>1, EntryIs
<1>3. Kind[o] \in Kinds /\ Content[o] \in Seq(Nat) /\ "ref" \notin Kinds /\ "ofs" \notin Kinds
  BY KindsAre
<1>4. Formed(e)
  BY <1>2, <1>3 DEF Formed
<1>5. e.size \in Seq(Part)
  BY <1>4, LengthIs
<1>6. e \in Entries
  BY <1>0, <1>2, <1>3, <1>5 DEF Entries
<1> QED
  BY <1>2, <1>4, <1>6 DEF e

\* An entry with a delta is formed, whichever way it names its base.
LEMMA DeltaIs ==
  ASSUME NEW at \in Nat \ {0}, NEW type \in {"ref", "ofs"}, NEW ref \in Object \cup {Unknown},
         NEW back \in Seq(Part), NEW data \in Deltas,
         type = "ref" => ref \in Object, type = "ofs" => Ends(back)
  PROVE  LET e == Entry(at, type, ref, back, data) IN e \in Entries /\ Formed(e) /\ e.loc = at
<1> DEFINE e == Entry(at, type, ref, back, data)
<1>2. /\ e.loc = at /\ e.type = type /\ e.data = data /\ e.ref = ref /\ e.back = back
      /\ e.size = WriteVariable(SizeOf(e))
      /\ e = [loc |-> at, type |-> type, size |-> WriteVariable(SizeOf(e)), ref |-> ref, back |-> back,
              data |-> data]
  BY EntryIs
<1> HIDE DEF e
<1>3. type \notin Kinds
  BY KindsAre
<1>4. Formed(e)
  BY <1>2, <1>3 DEF Formed
<1>5. e.size \in Seq(Part)
  BY <1>4, LengthIs
<1>6. e \in Entries
  BY <1>2, <1>5 DEF Entries
<1> QED
  BY <1>2, <1>4, <1>6 DEF e

\* A variable-length integer ends.
LEMMA UvarintEnds ==
  ASSUME NEW n \in Nat
  PROVE  Ends(Uvarint[n])
<1> DEFINE m == [k \in Nat |-> k]
           S == {k \in Nat : Ends(Uvarint[k])}
<1>1. m \in [Nat -> Nat]
  OBVIOUS
<1>2. ASSUME NEW x \in Nat, \A y \in Nat : m[y] < m[x] => y \in S PROVE x \in S
  <2>1. CASE x < Group
    <3> DEFINE s == <<LastPart(x)>>
    <3>1. Uvarint[x] = s
      BY <2>1, UvarintIs
    <3>2. s \in Seq(Part) /\ Len(s) = 1 /\ ~s[1].more
      BY PartsAre
    <3> HIDE DEF s
    <3> QED BY <3>1, <3>2 DEF Ends
  <2>2. CASE ~(x < Group)
    <3>1. PICK q \in Nat : q = x \div Group /\ q < x
      <4>0. Group \in Nat \ {0} /\ Group > 1
        BY WidthAssumption
      <4>1. PICK q \in Nat : q = x \div Group /\ q * Group <= x /\ x < q * Group + Group
        BY <4>0, DivIs
      <4>2. q * 2 <= q * Group
        BY <4>0
      <4> QED BY <2>2, <4>0, <4>1, <4>2
    <3>2. x % Group \in Nat
      BY WidthAssumption
    <3> DEFINE y == NextPart(x % Group)
               t == Uvarint[q]
               s == <<y>> \o t
    <3>3. Uvarint[x] = s
      BY <2>2, <3>1, UvarintIs
    <3>4. y \in Part
      BY <3>2, PartsAre
    <3>5. Ends(t)
      BY <1>2, <3>1
    <3> HIDE DEF y, t
    <3>6. t \in Seq(Part) /\ \E k \in 1..Len(t) : ~t[k].more
      BY <3>5 DEF Ends
    <3>7. s \in Seq(Part) /\ Len(s) = Len(t) + 1 /\ s # <<>> /\ Tail(s) = t
      BY <3>4, <3>6, PutFirst
    <3> HIDE DEF s
    <3>8. PICK k \in 1..Len(t) : ~t[k].more
      BY <3>6
    <3>9. k + 1 \in 1..Len(s) /\ s[k + 1] = t[k]
      BY SMTT(30), <3>6, <3>7
    <3>10. Ends(s)
      BY <3>7, <3>8, <3>9 DEF Ends
    <3> QED BY <3>3, <3>10
  <2> QED BY <2>1, <2>2
<1>3. Nat \subseteq S
  <2> HIDE DEF m, S
  <2> QED BY <1>1, <1>2, MeasureInduction
<1> QED
  BY <1>3

-----------------------------------------------------------------------------
(* Packs that are sent.                                                    *)

\* The deltas of git are deltas.
LEMMA SentDeltaIs ==
  ASSUME NEW a \in Object, NEW b \in Object
  PROVE  SentDelta(a, b) \in Deltas
<1>1. Content[a] \in Seq(Nat) /\ Content[b] \in Seq(Nat)
  BY KindsAre
<1>2. WriteDelta(Content[a], Content[b]) \in Deltas
  BY <1>1, WriteDeltaIs
<1>3. Len(Content[b]) \in Nat
  BY <1>1
<1>4. Uvarint[Len(Content[b])] \in Seq(Part) /\ WriteInsert[Content[b]] \in Seq(Coded)
  BY <1>1, <1>3, UvarintIs, WriteInsertIs
<1>5. [size |-> Uvarint[Len(Content[b])], code |-> WriteInsert[Content[b]]] \in Deltas
  BY <1>4 DEF Deltas
<1> QED
  BY <1>2, <1>5 DEF SentDelta

\* The entry for s at the end of p.
PlaceOf(plan, p, id) == CHOOSE k \in 1..Len(p) : plan[k].id = id
Added(plan, p, s) ==
  CASE s.how = "full" -> Full(End(p), s.id)
    [] s.how = "ref" -> Entry(End(p), "ref", s.of, <<>>, SentDelta(s.of, s.id))
    [] s.how = "ofs" -> Entry(End(p), "ofs", Unknown, GitOffset[End(p) - p[PlaceOf(plan, p, s.of)].loc],
                              SentDelta(s.of, s.id))

\* It is formed, and where the file ended.
LEMMA AddedIs ==
  ASSUME NEW plan \in Sent, NEW k \in 1..Len(plan), NEW p, IsPack(p), Len(p) = k - 1
  PROVE  LET e == Added(plan, p, plan[k]) IN e \in Entries /\ Formed(e) /\ e.loc = End(p)
<1> DEFINE s == plan[k]
           e == Added(plan, p, s)
           at == End(p)
           data == SentDelta(s.of, s.id)
           b == <<>>
<1>1. /\ plan \in Seq([id : Object, how : {"full", "ref", "ofs"}, of : Object])
      /\ s.how = "ofs" => \E j \in 1..k - 1 : plan[j].id = s.of
  BY PacksAssumption
<1>2. s.id \in Object /\ s.how \in {"full", "ref", "ofs"} /\ s.of \in Object
  <2>1. s \in [id : Object, how : {"full", "ref", "ofs"}, of : Object]
    <3> DEFINE R == [id : Object, how : {"full", "ref", "ofs"}, of : Object]
    <3>1. plan \in Seq(R)
      BY <1>1
    <3> HIDE DEF R
    <3>2. s \in R
      BY <3>1
    <3> QED BY <3>2 DEF R
  <2> QED BY <2>1
<1>3. at \in Nat \ {0} /\ b \in Seq(Part)
  BY DEF IsPack
<1>4. data \in Deltas
  BY <1>2, SentDeltaIs
<1> HIDE DEF s, at, data, b
<1>5. CASE s.how = "full"
  <2>1. e = Full(at, s.id)
    BY <1>5 DEF Added, at
  <2> HIDE DEF e
  <2> QED BY <1>2, <1>3, <2>1, FullIs DEF e, at, s
<1>6. CASE s.how = "ref"
  <2>1. e = Entry(at, "ref", s.of, b, data)
    BY <1>6 DEF Added, at, data, b
  <2> HIDE DEF e
  <2>2. "ref" \in {"ref", "ofs"} /\ s.of \in Object \cup {Unknown}
    BY <1>2
  <2>3. e \in Entries /\ Formed(e) /\ e.loc = at
    BY <1>2, <1>3, <1>4, <2>1, <2>2, DeltaIs
  <2> QED BY <2>3 DEF e, at, s
<1>7. CASE s.how = "ofs"
  <2> DEFINE j == PlaceOf(plan, p, s.of)
             back == GitOffset[at - p[j].loc]
  <2>1. e = Entry(at, "ofs", Unknown, back, data)
    BY <1>7 DEF Added, at, data
  <2>2. j \in 1..Len(p)
    <3>1. \E i \in 1..Len(p) : plan[i].id = s.of
      BY <1>1, <1>7 DEF s
    <3> QED BY <3>1 DEF PlaceOf
  <2> HIDE DEF e, j
  <2>3. at - p[j].loc \in Nat
    <3>1. p[j].loc < at /\ p[j].loc \in Nat
      BY <2>2 DEF IsPack, at, Formed
    <3> QED BY <1>3, <3>1
  <2>4. Ends(back) /\ back \in Seq(Part)
    BY <2>3, OffsetRoundTrip DEF Ends
  <2> HIDE DEF back
  <2>5. "ofs" \in {"ref", "ofs"} /\ Unknown \in Object \cup {Unknown}
    OBVIOUS
  <2>6. e \in Entries /\ Formed(e) /\ e.loc = at
    BY <1>3, <1>4, <2>1, <2>4, <2>5, DeltaIs
  <2> QED BY <2>6 DEF e, at, s
<1> QED
  BY <1>2, <1>5, <1>6, <1>7 DEF s

\* Packs that are sent are packs, of as many entries as planned.
LEMMA SentPackIs ==
  ASSUME NEW plan \in Sent
  PROVE  IsPack(SentPack(plan)) /\ Len(SentPack(plan)) = Len(plan) /\ Len(plan) \in Nat \ {0}
<1> DEFINE n == Len(plan)
           S == {p \in Seq(Entries) : IsPack(p)}
           Q == (1..n) \X S
           x == <<>>
           A(k, p) == Append(p, Added(plan, p, plan[k]))
           G(k, p) == IF Len(p) = k - 1 THEN A(k, p) ELSE p
           g == [q \in Q |-> G(q[1], q[2])]
           P(f) == f = [k \in 0..Len(plan) |-> IF k = 0 THEN <<>> ELSE LET p == f[k - 1] IN A(k, p)]
           f == CHOOSE h : P(h)
<1>0. n \in Nat \ {0}
  BY PacksAssumption
<1>1. \A k \in 1..n, p \in S : Len(p) = k - 1 => A(k, p) \in S /\ Len(A(k, p)) = k
  <2> SUFFICES ASSUME NEW k \in 1..n, NEW p \in S, Len(p) = k - 1 PROVE A(k, p) \in S /\ Len(A(k, p)) = k
    OBVIOUS
  <2> DEFINE e == Added(plan, p, plan[k])
  <2>1. IsPack(p)
    OBVIOUS
  <2>2. e \in Entries /\ Formed(e) /\ e.loc = End(p)
    BY <2>1, AddedIs
  <2> HIDE DEF e
  <2>3. IsPack(Append(p, e)) /\ Len(Append(p, e)) = Len(p) + 1
    BY <2>1, <2>2, PackGrows
  <2>4. Append(p, e) \in Seq(Entries)
    BY <2>3 DEF IsPack
  <2> QED BY <2>3, <2>4 DEF e
<1> HIDE DEF A
<1>2. x \in S /\ Len(x) = 0
  BY EmptyPack DEF IsPack
<1>3. g \in [Q -> S]
  BY <1>1
<1> HIDE DEF S, x, G, n
<1>4. PICK h \in [0..n -> S] : Stepwise(h, n, x, g)
  <2>1. n \in Nat /\ Q = (1..n) \X S
    BY <1>0
  <2> HIDE DEF Q, g
  <2> QED BY <1>2, <1>3, <2>1, StepRecursion
<1>5. \A k \in 0..n : h[k] = IF k = 0 THEN x ELSE G(k, h[k - 1])
  <2> SUFFICES ASSUME NEW k \in 0..n PROVE h[k] = IF k = 0 THEN x ELSE G(k, h[k - 1])
    OBVIOUS
  <2>1. k # 0 => k \in 1..n /\ h[k - 1] \in S
    BY <1>0
  <2> QED BY <1>4, <2>1 DEF Stepwise
<1>6. 0..n \subseteq {k \in 0..n : h[k] \in S /\ Len(h[k]) = k}
  <2> DEFINE T == {k \in 0..n : h[k] \in S /\ Len(h[k]) = k}
  <2>1. 0 \in T
    BY <1>0, <1>2, <1>5
  <2>2. ASSUME NEW k \in 1..n, k - 1 \in T PROVE k \in T
    <3>1. k \in 0..n /\ k # 0 /\ h[k - 1] \in S /\ Len(h[k - 1]) = k - 1
      BY <2>2, <1>0
    <3>2. h[k] = A(k, h[k - 1])
      BY <1>5, <3>1 DEF G
    <3> QED BY <1>1, <3>1, <3>2
  <2> HIDE DEF T
  <2>4. 0..n \subseteq T
    BY <1>0, <2>1, <2>2, StepInduction
  <2> QED BY <2>4 DEF T
<1>7. \A k \in 0..n : h[k] = IF k = 0 THEN x ELSE A(k, h[k - 1])
  <2> SUFFICES ASSUME NEW k \in 0..n PROVE h[k] = IF k = 0 THEN x ELSE A(k, h[k - 1])
    OBVIOUS
  <2>1. k # 0 => k - 1 \in 0..n /\ Len(h[k - 1]) = k - 1
    BY <1>0, <1>6
  <2> QED BY <1>5, <2>1 DEF G
<1>8. P(h)
  BY <1>7 DEF x, n
<1>9. P(f)
  <2> HIDE DEF P
  <2> QED BY <1>8
<1>10. SentPack(plan) = f[Len(plan)]
  BY DEF SentPack, Added, PlaceOf, A
<1> HIDE DEF f
<1>11. \A k \in 0..n : f[k] = IF k = 0 THEN x ELSE A(k, f[k - 1])
  BY <1>9 DEF x, n
<1> HIDE DEF P
<1>12. 0..n \subseteq {k \in 0..n : f[k] = h[k]}
  <2> DEFINE T == {k \in 0..n : f[k] = h[k]}
  <2>1. 0 \in T
    BY <1>0, <1>7, <1>11
  <2>2. ASSUME NEW k \in 1..n, k - 1 \in T PROVE k \in T
    <3>1. k \in 0..n /\ k # 0 /\ f[k - 1] = h[k - 1]
      BY <2>2, <1>0
    <3> QED BY <1>7, <1>11, <3>1
  <2> HIDE DEF T
  <2>4. 0..n \subseteq T
    BY <1>0, <2>1, <2>2, StepInduction
  <2> QED BY <2>4 DEF T
<1>13. f[n] \in S /\ Len(f[n]) = n
  BY <1>0, <1>6, <1>12
<1> QED
  BY <1>0, <1>10, <1>13 DEF S, n

-----------------------------------------------------------------------------
(* What entries stand for.                                                 *)

Values == [kind : Kinds, content : Seq(Nat)]
Maybe == Values \cup {Nothing}
Whole(e) == [kind |-> e.type, content |-> e.data]

\* Nothing is no value, and a value with another content is one.
LEMMA ValuesAre ==
  /\ Nothing \notin Values
  /\ \A v \in Values : v.kind \in Kinds /\ v.content \in Seq(Nat)
  /\ \A o \in Object : ObjectOf(o) \in Values
  /\ \A k \in Kinds, c \in Seq(Nat) : [kind |-> k, content |-> c] \in Values
<1>1. Nothing.kind = "none"
  BY DEF Nothing
<1>2. \A v \in Values : v.kind \in Kinds /\ v.content \in Seq(Nat)
  BY DEF Values
<1>3. Nothing \notin Values
  BY <1>1, <1>2, KindsAre
<1>4. \A k \in Kinds, c \in Seq(Nat) : [kind |-> k, content |-> c] \in Values
  BY DEF Values
<1>5. \A o \in Object : ObjectOf(o) \in Values
  BY <1>4, KindsAre DEF ObjectOf
<1> QED
  BY <1>2, <1>3, <1>4, <1>5

\* A value with another content is what its parts say.
LEMMA WithContent ==
  ASSUME NEW v \in Values, NEW c \in Seq(Nat)
  PROVE  /\ [v EXCEPT !.content = c] \in Values
         /\ [v EXCEPT !.content = c] = [kind |-> v.kind, content |-> c]
<1>1. v = [kind |-> v.kind, content |-> v.content]
  BY Zenon DEF Values
<1>2. v.kind \in Kinds
  BY ValuesAre
<1>3. [v EXCEPT !.content = c] = [kind |-> v.kind, content |-> c]
  BY <1>1
<1>4. [kind |-> v.kind, content |-> c] \in Values
  BY <1>2, ValuesAre
<1> QED
  BY <1>3, <1>4

\* The hash of a value is the one of an object or of none, and two objects do
\* not have the same.
LEMMA IdsAre ==
  /\ Unknown \notin Object
  /\ \A v : IdOf(v) \in Object \cup {Unknown}
  /\ \A v : IdOf(v) \in Object => v = ObjectOf(IdOf(v))
  /\ \A o \in Object : IdOf(ObjectOf(o)) = o
<1>1. Unknown \notin Object
  <2> SUFFICES ASSUME Unknown \in Object PROVE FALSE
    OBVIOUS
  <2>1. Unknown < Unknown /\ Unknown \in Nat
    BY ObjectAssumption
  <2> QED BY <2>1
<1>2. ASSUME NEW v
      PROVE  /\ IdOf(v) \in Object \cup {Unknown}
             /\ IdOf(v) \in Object => v = ObjectOf(IdOf(v))
  <2> DEFINE c == CHOOSE o \in Object : ObjectOf(o) = v
  <2>1. CASE \E o \in Object : ObjectOf(o) = v
    <3>1. IdOf(v) = c
      BY <2>1 DEF IdOf
    <3>2. c \in Object /\ ObjectOf(c) = v
      BY <2>1
    <3> QED BY <3>1, <3>2
  <2>2. CASE ~\E o \in Object : ObjectOf(o) = v
    <3>1. IdOf(v) = Unknown
      BY <2>2 DEF IdOf
    <3> QED BY <1>1, <3>1
  <2> QED BY <2>1, <2>2
<1>3. ASSUME NEW o \in Object PROVE IdOf(ObjectOf(o)) = o
  <2> DEFINE c == IdOf(ObjectOf(o))
  <2>1. c # Unknown \/ c \in Object
    <3>1. c = CHOOSE b \in Object : ObjectOf(b) = ObjectOf(o)
      BY DEF IdOf
    <3> QED BY <3>1
  <2>2. c \in Object
    BY <1>2, <2>1
  <2>3. ObjectOf(c) = ObjectOf(o)
    BY <1>2, <2>2
  <2> HIDE DEF c
  <2>4. Kind[c] = Kind[o] /\ Content[c] = Content[o]
    BY <2>3 DEF ObjectOf
  <2> QED BY <2>2, <2>4, ObjectAssumption DEF c
<1> QED
  BY <1>1, <1>2, <1>3

\* What is read of an entry that is no delta, and of one that is.
LEMMA ResolvedIs ==
  ASSUME NEW e, Formed(e), NEW base \in Maybe
  PROVE  /\ ~IsDelta(e) => Whole(e) \in Values /\ Resolved(e, base) = Whole(e)
         /\ IsDelta(e) => /\ e.data.code \in Seq(Coded)
                          /\ base = Nothing => Resolved(e, base) = Nothing
         /\ Resolved(e, base) \in Maybe
<1>1. ASSUME ~IsDelta(e) PROVE Whole(e) \in Values /\ Resolved(e, base) = Whole(e)
  <2>1. e.type \in Kinds /\ e.data \in Seq(Nat)
    BY <1>1 DEF IsDelta, Formed
  <2>2. ReadHeaderSize(e.size) = Len(e.data) /\ Len(e.data) \in Nat
    <3>1. e.size = WriteVariable(Len(e.data))
      BY <1>1 DEF SizeOf, Formed
    <3>2. Len(e.data) \in Nat
      BY <2>1
    <3> QED BY <3>1, <3>2, HeaderSizeRoundTrip
  <2>3. ReadHeaderSize(e.size) = 0 => e.data = <<>>
    <3>1. \A d \in Seq(Nat) : Len(d) = 0 => d = <<>>
      OBVIOUS
    <3> QED BY <2>1, <2>2, <3>1
  <2>4. Resolved(e, base) = Whole(e)
    BY <1>1, <2>3 DEF Resolved, Whole
  <2>5. Whole(e) \in Values
    BY <2>1, ValuesAre DEF Whole
  <2> QED BY <2>4, <2>5
<1>2. ASSUME IsDelta(e)
      PROVE  /\ e.data.code \in Seq(Coded)
             /\ base = Nothing => Resolved(e, base) = Nothing
             /\ Resolved(e, base) \in Maybe
  <2>1. e.data.code \in Seq(Coded)
    <3>1. e.data \in Deltas
      BY <1>2 DEF Formed, IsDelta
    <3> QED BY <3>1 DEF Deltas
  <2>2. base = Nothing => Resolved(e, base) = Nothing
    BY <1>2 DEF Resolved
  <2>3. ASSUME base # Nothing PROVE Resolved(e, base) \in Maybe
    <3> DEFINE c == ReadAll(e.data, base.content)
    <3>1. base \in Values
      BY <2>3 DEF Maybe
    <3>2. c \in Seq(Nat) \cup {Bad}
      BY <2>1, <3>1, ReadAllIs, ValuesAre
    <3>3. Resolved(e, base) = IF c = Bad THEN Nothing ELSE [base EXCEPT !.content = c]
      BY <1>2, <2>3 DEF Resolved
    <3> HIDE DEF c
    <3>4. c # Bad => [base EXCEPT !.content = c] \in Values
      BY <3>1, <3>2, WithContent
    <3> QED BY <3>3, <3>4 DEF Maybe
  <2> QED BY <2>1, <2>2, <2>3 DEF Maybe
<1> QED
  BY <1>1, <1>2 DEF Maybe

\* A delta that applies is read so too.
LEMMA AppliedIs ==
  ASSUME NEW e, Formed(e), IsDelta(e), NEW base \in Values
  PROVE  /\ Applied(e, base) \in Maybe
         /\ Applied(e, base) # Nothing =>
              LET r == ReadCode(e.data.code, base.content)
              IN /\ Resolved(e, base) = Applied(e, base)
                 /\ r.ok /\ SizeIsRight(e.data, r.content)
                 /\ Applied(e, base) = [base EXCEPT !.content = r.content]
         /\ LET r == ReadCode(e.data.code, base.content)
            IN r.ok /\ SizeIsRight(e.data, r.content) =>
                 Applied(e, base) # Nothing /\ Applied(e, base) = [base EXCEPT !.content = r.content]
<1> DEFINE r == ReadCode(e.data.code, base.content)
           c == ReadAll(e.data, base.content)
<1>1. e.data.code \in Seq(Coded)
  BY ResolvedIs DEF Maybe
<1>2. base.content \in Seq(Nat) /\ base # Nothing
  BY ValuesAre
<1>3. c \in Seq(Nat) \cup {Bad} /\ (c # Bad => c = r.content) /\ (c # Bad <=> r.ok)
  BY <1>1, <1>2, ReadAllIs
<1>4. Applied(e, base) = IF SizeIsRight(e.data, c) THEN [base EXCEPT !.content = c] ELSE Nothing
  BY DEF Applied, Made
<1>5. Resolved(e, base) = IF c = Bad THEN Nothing ELSE [base EXCEPT !.content = c]
  BY <1>2 DEF Resolved
<1>6. SizeIsRight(e.data, c) => c # Bad
  BY DEF SizeIsRight
<1> HIDE DEF r, c
<1>7. c # Bad => [base EXCEPT !.content = c] \in Values
  BY <1>3, WithContent
<1> QED
  BY <1>3, <1>4, <1>5, <1>6, <1>7, ValuesAre DEF Maybe, r

\* Each location has one entry.
LEMMA EntryAtIs ==
  ASSUME IsPack(pack)
  PROVE  /\ \A k \in 1..Len(pack) : pack[k].loc \in Locations /\ EntryAt(pack[k].loc) = pack[k]
         /\ \A l \in Locations : \E k \in 1..Len(pack) : l = pack[k].loc /\ EntryAt(l) = pack[k]
         /\ \A j, k \in 1..Len(pack) : pack[j].loc = pack[k].loc => j = k
         /\ \A l \in Locations : Formed(EntryAt(l)) /\ l \in Nat \ {0}
<1>1. \A k \in 1..Len(pack) : pack[k].loc \in Nat \ {0} /\ Formed(pack[k])
  BY DEF IsPack, Formed
<1>2. ASSUME NEW j \in 1..Len(pack), NEW k \in 1..Len(pack), pack[j].loc = pack[k].loc PROVE j = k
  <2>1. ~(j < k) /\ ~(k < j)
    BY <1>1, <1>2 DEF IsPack
  <2> QED BY <2>1
<1>3. ASSUME NEW k \in 1..Len(pack) PROVE pack[k].loc \in Locations /\ EntryAt(pack[k].loc) = pack[k]
  <2> DEFINE c == CHOOSE i \in 1..Len(pack) : pack[i].loc = pack[k].loc
  <2>1. c \in 1..Len(pack) /\ pack[c].loc = pack[k].loc
    OBVIOUS
  <2>2. EntryAt(pack[k].loc) = pack[c]
    BY DEF EntryAt
  <2> HIDE DEF c
  <2>3. c = k
    BY <1>2, <2>1
  <2> QED BY <2>2, <2>3 DEF Locations
<1>4. \A l \in Locations : \E k \in 1..Len(pack) : l = pack[k].loc /\ EntryAt(l) = pack[k]
  BY <1>3 DEF Locations
<1> QED
  BY <1>1, <1>2, <1>3, <1>4

\* The rounds in which Follow reads.
Reads(v, known, bases, l) == IF l \in DOMAIN known THEN known[l] ELSE Resolved(EntryAt(l), At(v, bases[l]))
Starts(known, l) == IF l \in DOMAIN known THEN known[l] ELSE Nothing
Rounds(f, known, bases) ==
  /\ f[0] \in [Locations -> Maybe] /\ \A l \in Locations : f[0][l] = Starts(known, l)
  /\ \A n \in 1..Len(pack) + 1 : /\ f[n] \in [Locations -> Maybe] /\ f[n - 1] \in [Locations -> Maybe]
                                 /\ \A l \in Locations : f[n][l] = Reads(f[n - 1], known, bases, l)

\* What is read at a location is what the last round has there.
LEMMA FollowIs ==
  ASSUME IsPack(pack), NEW known, NEW bases, \A l \in DOMAIN known : known[l] \in Maybe
  PROVE  \E f : Rounds(f, known, bases) /\ \A l : Follow(l, known, bases) = At(f[Len(pack) + 1], l)
<1> DEFINE n == Len(pack) + 1
           S == [Locations -> Maybe]
           Q == (1..n) \X S
           x == [l \in Locations |-> Starts(known, l)]
           G(k, v) == [l \in Locations |-> Reads(v, known, bases, l)]
           g == [q \in Q |-> G(q[1], q[2])]
           P(f) == f = [k \in 0..Len(pack) + 1 |->
                          [l \in Locations |-> IF l \in DOMAIN known THEN known[l]
                                               ELSE IF k = 0 THEN Nothing
                                               ELSE Resolved(EntryAt(l), At(f[k - 1], bases[l]))]]
           f == CHOOSE h : P(h)
<1>0. n \in Nat
  BY DEF IsPack
<1>1. \A k \in 1..n, v \in S : G(k, v) \in S
  <2> SUFFICES ASSUME NEW v \in S, NEW l \in Locations PROVE Reads(v, known, bases, l) \in Maybe
    OBVIOUS
  <2>1. At(v, bases[l]) \in Maybe
    BY DEF At, Maybe
  <2>2. Formed(EntryAt(l))
    BY EntryAtIs
  <2>3. Resolved(EntryAt(l), At(v, bases[l])) \in Maybe
    BY <2>1, <2>2, ResolvedIs
  <2> QED BY <2>3 DEF Reads
<1>2. x \in S
  BY DEF Starts, Maybe
<1> HIDE DEF G, S, n
<1>3. g \in [Q -> S]
  BY <1>1
<1> HIDE DEF x
<1>4. PICK h \in [0..n -> S] : Stepwise(h, n, x, g)
  <2>1. Q = (1..n) \X S
    OBVIOUS
  <2> HIDE DEF Q, g
  <2> QED BY <1>0, <1>2, <1>3, <2>1, StepRecursion
<1>5. \A k \in 0..n : h[k] = IF k = 0 THEN x ELSE G(k, h[k - 1])
  <2> SUFFICES ASSUME NEW k \in 0..n PROVE h[k] = IF k = 0 THEN x ELSE G(k, h[k - 1])
    OBVIOUS
  <2>1. k # 0 => k \in 1..n /\ h[k - 1] \in S
    BY <1>0
  <2> QED BY <1>4, <2>1 DEF Stepwise
<1> DEFINE body(k, h1) == [l \in Locations |-> IF l \in DOMAIN known THEN known[l]
                                               ELSE IF k = 0 THEN Nothing
                                               ELSE Resolved(EntryAt(l), At(h1[k - 1], bases[l]))]
<1>6. ASSUME NEW k, NEW h1 PROVE body(k, h1) = IF k = 0 THEN x ELSE G(k, h1[k - 1])
  BY DEF x, G, Starts, Reads
<1>7. P(h)
  <2>1. \A k \in 0..n : h[k] = body(k, h)
    <3> HIDE DEF body
    <3> QED BY <1>5, <1>6
  <2>2. h = [k \in 0..n |-> body(k, h)]
    <3> HIDE DEF body
    <3> QED BY <2>1
  <2> QED BY <2>2 DEF n
<1>8. P(f)
  <2> HIDE DEF P
  <2> QED BY <1>7
<1>9. \A l : Follow(l, known, bases) = At(f[Len(pack) + 1], l)
  BY DEF Follow
<1> HIDE DEF f
<1>10. \A k \in 0..n : f[k] = IF k = 0 THEN x ELSE G(k, f[k - 1])
  <2>1. f = [k \in 0..n |-> body(k, f)]
    BY <1>8 DEF n
  <2> HIDE DEF body
  <2> QED BY <1>6, <2>1
<1> HIDE DEF P, body
<1>11. 0..n \subseteq {k \in 0..n : f[k] \in S}
  <2> DEFINE T == {k \in 0..n : f[k] \in S}
  <2>1. 0 \in T
    BY <1>0, <1>2, <1>10
  <2>2. ASSUME NEW k \in 1..n, k - 1 \in T PROVE k \in T
    <3>1. k \in 0..n /\ k # 0 /\ f[k - 1] \in S
      BY <2>2, <1>0
    <3> QED BY <1>1, <1>10, <3>1
  <2> HIDE DEF T
  <2>4. 0..n \subseteq T
    BY <1>0, <2>1, <2>2, StepInduction
  <2> QED BY <2>4 DEF T
<1>12. f[0] \in S /\ \A l \in Locations : f[0][l] = Starts(known, l)
  <2>1. 0 \in 0..n
    BY <1>0
  <2> QED BY <1>10, <1>11, <2>1 DEF x
<1>13. ASSUME NEW k \in 1..n
       PROVE  f[k] \in S /\ f[k - 1] \in S /\ \A l \in Locations : f[k][l] = Reads(f[k - 1], known, bases, l)
  <2>1. k \in 0..n /\ k - 1 \in 0..n /\ k # 0
    BY <1>0
  <2>2. f[k] = G(k, f[k - 1])
    BY <1>10, <2>1
  <2> QED BY <1>11, <2>1, <2>2 DEF G
<1>14. Rounds(f, known, bases)
  BY <1>12, <1>13 DEF Rounds, n, S
<1> QED
  BY <1>9, <1>14

\* What is read at a location is a value or nothing.
LEMMA FollowTyped ==
  ASSUME IsPack(pack), NEW known, NEW bases, \A l \in DOMAIN known : known[l] \in Maybe, NEW l
  PROVE  Follow(l, known, bases) \in Maybe /\ (Follow(l, known, bases) # Nothing => l \in Locations)
<1>1. PICK f : Rounds(f, known, bases) /\ \A i : Follow(i, known, bases) = At(f[Len(pack) + 1], i)
  BY FollowIs
<1>2. Len(pack) + 1 \in 1..Len(pack) + 1
  BY DEF IsPack
<1>3. f[Len(pack) + 1] \in [Locations -> Maybe]
  BY <1>1, <1>2 DEF Rounds
<1> QED
  BY <1>1, <1>3 DEF At, Maybe

-----------------------------------------------------------------------------
(* Types.                                                                  *)

Items == [id : Object, loc : Nat]
Options == [own : BOOLEAN, use : {"index", "unpack"}, recover : BOOLEAN, window : Window, ofs : BOOLEAN]

WindowIs == window \in Seq(Items) /\ \A k \in 1..Len(window) : window[k].loc < End(pack)
CacheIs == \A l \in DOMAIN cache : cache[l] \in Values
DeltasAre == deltas \in Seq(Nat) /\ \A k \in Range(deltas) : IsDelta(pack[k])
Fresh == phase = "pack" => read = 0 /\ deltas = <<>> /\ prior = <<>> /\ cache = <<>> /\ stored = {} /\ lost = {}
AllRead == phase = "resolve" => read = Len(pack)
OptionsAre == opts \in Options /\ (opts.recover => opts.use = "unpack")

Typed ==
  /\ TypeOK /\ OptionsAre /\ todo \in Seq(Object) /\ IsPack(pack) /\ WindowIs /\ CacheIs /\ DeltasAre
  /\ Fresh /\ AllRead

\* A location more, or another, for a hash.
LEMMA PlacedIs ==
  ASSUME NEW id, NEW loc
  PROVE  /\ DOMAIN Placed(id, loc) = DOMAIN prior \cup {id}
         /\ Placed(id, loc)[id] = loc
  BY DEF Placed

\* The others stay where they are.
LEMMA PlacedAt ==
  ASSUME NEW id, NEW loc, NEW f, f = Placed(id, loc), NEW h \in DOMAIN prior, h # id
  PROVE  f[h] = prior[h]
  BY DEF Placed

\* What is in the cache afterwards.
LEMMA CachedIs ==
  ASSUME IsPack(pack), CacheIs, DOMAIN cache \subseteq Locations, NEW locs \in SUBSET Locations, Cached(locs)
  PROVE  /\ DOMAIN cache' \subseteq DOMAIN cache \cup locs
         /\ \A l \in DOMAIN cache' : /\ cache'[l] \in Values
                                     /\ l \in DOMAIN cache => cache'[l] = cache[l]
                                     /\ l \notin DOMAIN cache => cache'[l] = ValueAt(l) /\ l \in locs
<1> DEFINE bases == [l \in Locations |-> BaseOf(EntryAt(l))]
<1>1. PICK kept \in SUBSET (DOMAIN cache \cup {l \in locs : ValueAt(l) # Nothing}) : cache' = [l \in kept |-> ValueAt(l)]
  BY DEF Cached
<1>2. \A l : ValueAt(l) = Follow(l, cache, bases)
  BY DEF ValueAt
<1> HIDE DEF bases
<1>3. \A l \in DOMAIN cache : cache[l] \in Maybe
  BY DEF CacheIs, Maybe
<1>4. ASSUME NEW l \in DOMAIN cache PROVE ValueAt(l) = cache[l]
  <2>1. PICK f : Rounds(f, cache, bases) /\ \A i : Follow(i, cache, bases) = At(f[Len(pack) + 1], i)
    BY <1>3, FollowIs
  <2>2. Len(pack) + 1 \in 1..Len(pack) + 1
    BY DEF IsPack
  <2>3. l \in Locations
    OBVIOUS
  <2>4. f[Len(pack) + 1][l] = Reads(f[(Len(pack) + 1) - 1], cache, bases, l)
    BY <2>1, <2>2, <2>3 DEF Rounds
  <2> QED BY <1>2, <2>1, <2>3, <2>4 DEF At, Reads
<1>5. \A l : ValueAt(l) \in Maybe
  BY <1>2, <1>3, FollowTyped
<1>6. ASSUME NEW l \in DOMAIN cache'
      PROVE  /\ cache'[l] \in Values
             /\ l \in DOMAIN cache => cache'[l] = cache[l]
             /\ l \notin DOMAIN cache => cache'[l] = ValueAt(l) /\ l \in locs
  <2>1. l \in kept /\ cache'[l] = ValueAt(l)
    BY <1>1
  <2>2. CASE l \in DOMAIN cache
    BY <1>4, <2>1, <2>2 DEF CacheIs
  <2>3. CASE l \notin DOMAIN cache
    <3>1. l \in locs /\ ValueAt(l) # Nothing
      BY <1>1, <2>1, <2>3
    <3> QED BY <1>5, <2>1, <2>3, <3>1 DEF Maybe
  <2> QED BY <2>2, <2>3
<1> QED
  BY <1>1, <1>6

\* Chains are at locations that are not in the cache.
LEMMA ChainIs ==
  ASSUME NEW loc
  PROVE  Chain(loc) \subseteq Locations \ DOMAIN cache
  BY DEF Chain

\* A pack starts typed.
LEMMA InitTyped == Init => Typed
<1> SUFFICES ASSUME Init PROVE Typed
  OBVIOUS
<1> USE DEF Init
<1>1. OptionsAre
  BY DEF OptionsAre, Options
<1>2. todo \in Seq(Object) /\ IsPack(pack)
  <2>1. CASE opts.own
    <3>1. todo \in Wanted /\ pack = <<>>
      BY <2>1
    <3>2. todo \in Seq(Object)
      BY <3>1, PacksAssumption
    <3> QED BY <3>1, <3>2, EmptyPack
  <2>2. CASE ~opts.own
    <3>1. todo = <<>> /\ \E s \in Sent : pack = SentPack(s)
      BY <2>2
    <3> QED BY <3>1, SentPackIs
  <2> QED BY <2>1, <2>2
<1>3. WindowIs
  BY DEF WindowIs
<1>4. CacheIs /\ DeltasAre /\ Fresh /\ AllRead
  BY DEF CacheIs, DeltasAre, Fresh, AllRead, Range
<1>5. TypeOK
  <2>1. Len(pack) \in Nat
    BY <1>2 DEF IsPack
  <2>2. \A k \in 1..Len(pack) - 1 : pack[k].loc < pack[k + 1].loc
    BY <1>2, <2>1 DEF IsPack
  <2>3. Range(deltas) = {} /\ Range(prior) = {} /\ DOMAIN prior = {} /\ DOMAIN cache = {}
    BY DEF Range
  <2> QED BY <2>1, <2>2, <2>3 DEF TypeOK
<1> QED
  BY <1>1, <1>2, <1>3, <1>4, <1>5 DEF Typed

\* What has to be shown of a step that leaves the file as it is.
Ran ==
  /\ phase \in {"read", "resolve", "done"} /\ outcome \in {"running", "ok", "error", "panic", "cut", "unwritten"}
  /\ (outcome = "running") = (phase # "done") /\ AllRead
Queued == read \in 0..Len(pack) /\ Range(deltas) \subseteq 1..read /\ DeltasAre
Reached == {pack[k].loc : k \in 1..read}
PriorIs == DOMAIN prior \subseteq Object \cup {Unknown} /\ Range(prior) \subseteq {0} \cup Reached
CacheOf == DOMAIN cache \subseteq Reached /\ CacheIs

\* Then the types stay.
LEMMA StaysTyped ==
  ASSUME Typed, UNCHANGED <<opts, todo, window, pack>>, Ran', Queued', PriorIs', CacheOf', stored' \cup lost' \subseteq Values
  PROVE  Typed'
<1>1. OptionsAre' /\ todo' \in Seq(Object) /\ IsPack(pack')
  BY DEF Typed, OptionsAre
<1>2. WindowIs'
  BY DEF Typed, WindowIs
<1>3. phase' # "pack"
  BY DEF Ran
<1>4. \A k \in 1..Len(pack') - 1 : pack'[k].loc < pack'[k + 1].loc
  BY DEF Typed, TypeOK
<1>5. TypeOK'
  BY <1>4 DEF TypeOK, Ran, Queued, PriorIs, Reached, CacheOf, Values
<1>6. CacheIs' /\ DeltasAre' /\ Fresh' /\ AllRead'
  BY <1>3 DEF CacheOf, Queued, Fresh, Ran
<1> QED
  BY <1>1, <1>2, <1>5, <1>6 DEF Typed

\* And what is known before one.
LEMMA TypedGives ==
  ASSUME Typed
  PROVE  /\ IsPack(pack) /\ Len(pack) \in Nat /\ read \in 0..Len(pack) /\ read \in Nat
         /\ Queued /\ PriorIs /\ CacheOf /\ stored \cup lost \subseteq Values
         /\ Reached \subseteq Locations
<1>1. IsPack(pack) /\ CacheIs /\ DeltasAre /\ TypeOK
  BY DEF Typed
<1>2. Len(pack) \in Nat /\ read \in 0..Len(pack)
  BY <1>1 DEF IsPack, TypeOK
<1>3. Queued /\ PriorIs /\ CacheOf /\ stored \cup lost \subseteq Values
  BY <1>1 DEF TypeOK, Queued, PriorIs, Reached, CacheOf, Values
<1>4. Reached \subseteq Locations
  <2>1. \A k \in 1..read : k \in 1..Len(pack)
    BY <1>2
  <2> QED BY <2>1 DEF Reached, Locations
<1> QED
  BY <1>1, <1>2, <1>3, <1>4

\* The tail of the queue.
LEMMA QueueTail ==
  ASSUME Queued, deltas # <<>>
  PROVE  /\ Head(deltas) \in Range(deltas) /\ Head(deltas) \in 1..read /\ IsDelta(pack[Head(deltas)])
         /\ Tail(deltas) \in Seq(Nat) /\ Range(Tail(deltas)) \subseteq Range(deltas)
<1>1. deltas \in Seq(Nat)
  BY DEF Queued, DeltasAre
<1>2. Len(deltas) \in Nat \ {0}
  BY <1>1
<1>3. Head(deltas) = deltas[1] /\ 1 \in DOMAIN deltas
  BY <1>1, <1>2
<1>4. Head(deltas) \in Range(deltas)
  BY <1>3 DEF Range
<1>5. Tail(deltas) \in Seq(Nat) /\ DOMAIN Tail(deltas) = 1..Len(deltas) - 1
  BY <1>1, <1>2
<1>6. \A k \in 1..Len(deltas) - 1 : Tail(deltas)[k] = deltas[k + 1] /\ k + 1 \in DOMAIN deltas
  BY <1>1, <1>2
<1>7. Range(Tail(deltas)) \subseteq Range(deltas)
  BY <1>5, <1>6 DEF Range
<1> QED
  BY <1>4, <1>5, <1>7 DEF Queued, DeltasAre

\* One more in the queue.
LEMMA QueueMore ==
  ASSUME Queued, NEW k
  PROVE  /\ Range(Append(deltas, k)) = Range(deltas) \cup {k}
         /\ k \in Nat => Append(deltas, k) \in Seq(Nat)
<1>1. deltas \in Seq(Nat) /\ Len(deltas) \in Nat
  BY DEF Queued, DeltasAre
<1> DEFINE d == Append(deltas, k)
<1>2. DOMAIN d = 1..Len(deltas) + 1 /\ d[Len(deltas) + 1] = k /\ \A j \in 1..Len(deltas) : d[j] = deltas[j]
  BY <1>1
<1>3. DOMAIN deltas = 1..Len(deltas)
  BY <1>1
<1>4. k \in Nat => d \in Seq(Nat)
  BY <1>1
<1> HIDE DEF d
<1>5. Range(d) = Range(deltas) \cup {k}
  BY <1>1, <1>2, <1>3 DEF Range
<1> QED
  BY <1>4, <1>5 DEF d

\* A whole entry is read.
LEMMA ReadFullTyped == Typed /\ ReadFull => Typed'
<1> SUFFICES ASSUME Typed, ReadFull PROVE Typed'
  OBVIOUS
<1> DEFINE v == Whole(This)
<1>1. /\ phase = "read" /\ read < Len(pack) /\ This.type \in Kinds
      /\ prior' = Placed(IdOf(v), This.loc) /\ read' = read + 1
      /\ stored' \subseteq stored \cup {v}
      /\ UNCHANGED <<opts, phase, outcome, todo, window, pack, deltas, cache, failed, lost>>
  BY DEF ReadFull, Reading, This, Whole
<1>2. /\ IsPack(pack) /\ Len(pack) \in Nat /\ read \in 0..Len(pack) /\ read \in Nat
      /\ Queued /\ PriorIs /\ CacheOf /\ stored \cup lost \subseteq Values
  BY TypedGives
<1>3. v \in Values
  <2>1. read + 1 \in 1..Len(pack)
    BY <1>1, <1>2
  <2>2. Formed(This)
    BY <1>2, <2>1 DEF IsPack, This
  <2> QED BY <1>1, <2>2, ValuesAre DEF Whole, Formed
<1> HIDE DEF v
<1>4. Ran'
  BY <1>1 DEF Typed, TypeOK, Ran, AllRead
<1>5. Queued'
  BY <1>1, <1>2 DEF Queued, DeltasAre, Range
<1>6. Reached' = Reached \cup {This.loc}
  BY <1>1, <1>2 DEF Reached, This
<1>7. PriorIs'
  <2>1. DOMAIN prior' = DOMAIN prior \cup {IdOf(v)}
    BY <1>1, PlacedIs
  <2>2. ASSUME NEW h \in DOMAIN prior' PROVE prior'[h] \in {0} \cup Reached'
    <3>1. prior'[h] = This.loc \/ (h \in DOMAIN prior /\ prior'[h] = prior[h])
      <4> DEFINE id == IdOf(v)
      <4>1. prior' = Placed(id, This.loc) /\ DOMAIN prior' = DOMAIN prior \cup {id}
        BY <1>1, <2>1
      <4> HIDE DEF id
      <4>2. prior'[id] = This.loc
        BY <4>1, PlacedIs
      <4>3. h \in DOMAIN prior /\ h # id => prior'[h] = prior[h]
        BY <4>1, PlacedAt
      <4> QED BY <2>2, <4>1, <4>2, <4>3
    <3> QED BY <1>2, <1>6, <3>1 DEF PriorIs, Range
  <2>3. IdOf(v) \in Object \cup {Unknown}
    BY IdsAre
  <2> QED BY <1>2, <2>1, <2>2, <2>3 DEF PriorIs, Range
<1>8. CacheOf'
  BY <1>1, <1>2, <1>6 DEF CacheOf, CacheIs
<1> QED
  BY <1>1, <1>2, <1>3, <1>4, <1>5, <1>7, <1>8, StaysTyped

\* A delta is read whose base has a hash.
LEMMA ReadRefTyped == Typed /\ ReadRef => Typed'
<1> SUFFICES ASSUME Typed, ReadRef PROVE Typed'
  OBVIOUS
<1>1. /\ phase = "read" /\ read < Len(pack) /\ This.type = "ref"
      /\ prior' = [h \in DOMAIN prior \cup {This.ref} |-> IF h \in DOMAIN prior THEN prior[h] ELSE 0]
      /\ read' = read + 1 /\ deltas' = Append(deltas, read + 1)
      /\ UNCHANGED <<opts, phase, outcome, todo, window, pack, cache, failed, stored, lost>>
  BY DEF ReadRef, Reading, This
<1>2. /\ IsPack(pack) /\ Len(pack) \in Nat /\ read \in 0..Len(pack) /\ read \in Nat
      /\ Queued /\ PriorIs /\ CacheOf /\ stored \cup lost \subseteq Values
  BY TypedGives
<1>3. This.ref \in Object /\ IsDelta(pack[read + 1])
  <2>1. read + 1 \in 1..Len(pack)
    BY <1>1, <1>2
  <2>2. Formed(This)
    BY <1>2, <2>1 DEF IsPack, This
  <2> QED BY <1>1, <2>2, KindsAre DEF Formed, IsDelta, This
<1>4. Ran'
  BY <1>1 DEF Typed, TypeOK, Ran, AllRead
<1>5. Queued'
  <2>1. Range(deltas') = Range(deltas) \cup {read + 1} /\ deltas' \in Seq(Nat)
    BY <1>1, <1>2, QueueMore
  <2>2. \A k \in Range(deltas') : IsDelta(pack'[k])
    BY <1>1, <1>2, <1>3, <2>1 DEF Queued, DeltasAre
  <2>3. read' \in 0..Len(pack') /\ Range(deltas') \subseteq 1..read'
    BY <1>1, <1>2, <2>1 DEF Queued
  <2> QED BY <2>1, <2>2, <2>3 DEF Queued, DeltasAre
<1>6. Reached' = Reached \cup {This.loc}
  BY <1>1, <1>2 DEF Reached, This
<1>7. PriorIs'
  BY <1>1, <1>2, <1>3, <1>6 DEF PriorIs, Range
<1>8. CacheOf'
  BY <1>1, <1>2, <1>6 DEF CacheOf, CacheIs
<1> QED
  BY <1>1, <1>2, <1>4, <1>5, <1>7, <1>8, StaysTyped

\* A delta is read whose base has a location.
LEMMA ReadOfsTyped == Typed /\ ReadOfs => Typed'
<1> SUFFICES ASSUME Typed, ReadOfs PROVE Typed'
  OBVIOUS
<1>1. /\ phase = "read" /\ read < Len(pack) /\ This.type = "ofs"
      /\ \/ deltas' = Append(deltas, read + 1) /\ read' = read + 1 /\ UNCHANGED <<phase, outcome>>
         \/ phase' = "done" /\ outcome' = "panic" /\ UNCHANGED <<deltas, read>>
      /\ UNCHANGED <<opts, todo, window, pack, prior, cache, failed, stored, lost>>
  BY DEF ReadOfs, Reading, This, Stop
<1>2. /\ IsPack(pack) /\ Len(pack) \in Nat /\ read \in 0..Len(pack) /\ read \in Nat
      /\ Queued /\ PriorIs /\ CacheOf /\ stored \cup lost \subseteq Values
  BY TypedGives
<1>3. IsDelta(pack[read + 1])
  BY <1>1, KindsAre DEF IsDelta, This
<1>4. Ran'
  BY <1>1 DEF Typed, TypeOK, Ran, AllRead
<1>5. Queued' /\ Reached \subseteq Reached'
  <2>1. CASE deltas' = Append(deltas, read + 1) /\ read' = read + 1
    <3>1. Range(deltas') = Range(deltas) \cup {read + 1} /\ deltas' \in Seq(Nat)
      BY <1>2, <2>1, QueueMore
    <3>2. \A k \in Range(deltas') : IsDelta(pack'[k])
      BY <1>1, <1>2, <1>3, <3>1 DEF Queued, DeltasAre
    <3>3. read' \in 0..Len(pack') /\ Range(deltas') \subseteq 1..read'
      BY <1>1, <1>2, <2>1, <3>1 DEF Queued
    <3>4. Reached \subseteq Reached'
      BY <1>1, <1>2, <2>1 DEF Reached
    <3> QED BY <3>1, <3>2, <3>3, <3>4 DEF Queued, DeltasAre
  <2>2. CASE UNCHANGED <<deltas, read>>
    BY <1>1, <1>2, <2>2 DEF Queued, DeltasAre, Range, Reached
  <2> QED BY <1>1, <2>1, <2>2
<1>7. PriorIs'
  BY <1>1, <1>2, <1>5 DEF PriorIs, Range
<1>8. CacheOf'
  BY <1>1, <1>2, <1>5 DEF CacheOf, CacheIs
<1> QED
  BY <1>1, <1>2, <1>4, <1>5, <1>7, <1>8, StaysTyped

\* A delta is resolved, one way or another: the queue is shorter or as it was,
\* a location is known or none, and the cache has what was resolved.
LEMMA ResolveTyped ==
  ASSUME Typed, phase = "resolve", deltas # <<>>,
         \/ deltas' = Tail(deltas) /\ UNCHANGED <<phase, outcome>>
         \/ phase' = "done" /\ outcome' = "error" /\ UNCHANGED deltas,
         \/ UNCHANGED prior
         \/ \E v : prior' = Placed(IdOf(v), Waiting.loc),
         UNCHANGED cache \/ \E l : Cached(Chain(l)),
         stored' \cup lost' \subseteq Values,
         UNCHANGED <<opts, todo, window, pack, read>>
  PROVE  Typed'
<1>1. /\ IsPack(pack) /\ Len(pack) \in Nat /\ read \in 0..Len(pack) /\ read \in Nat
      /\ Queued /\ PriorIs /\ CacheOf /\ stored \cup lost \subseteq Values /\ Reached \subseteq Locations
  BY TypedGives
<1>2. read = Len(pack)
  BY DEF Typed, AllRead
<1>3. Reached = Locations /\ Reached' = Reached
  BY <1>2 DEF Reached, Locations
<1>4. Ran'
  <2>1. phase' \in {"resolve", "done"} /\ outcome' \in {"running", "error"} /\ (outcome' = "running") = (phase' # "done")
    BY DEF Typed, TypeOK
  <2>2. AllRead'
    BY <1>2 DEF AllRead
  <2> QED BY <2>1, <2>2 DEF Ran
<1>5. Queued'
  <2>1. deltas' \in Seq(Nat) /\ Range(deltas') \subseteq Range(deltas)
    BY <1>1, QueueTail DEF Queued, DeltasAre, Range
  <2> QED BY <1>1, <2>1 DEF Queued, DeltasAre
<1>6. PriorIs'
  <2>1. CASE UNCHANGED prior
    BY <1>1, <1>3, <2>1 DEF PriorIs, Range
  <2>2. CASE \E v : prior' = Placed(IdOf(v), Waiting.loc)
    <3>1. PICK v : prior' = Placed(IdOf(v), Waiting.loc)
      BY <2>2
    <3> DEFINE id == IdOf(v)
    <3>2. id \in Object \cup {Unknown} /\ prior' = Placed(id, Waiting.loc)
      BY <3>1, IdsAre
    <3>3. Waiting.loc \in Reached
      BY <1>1, QueueTail DEF Waiting, Reached
    <3> HIDE DEF id
    <3>4. DOMAIN prior' = DOMAIN prior \cup {id} /\ prior'[id] = Waiting.loc
      BY <3>2, PlacedIs
    <3>5. \A h \in DOMAIN prior : h # id => prior'[h] = prior[h]
      BY <3>2, PlacedAt
    <3>6. \A h \in DOMAIN prior' : prior'[h] \in {0} \cup Reached'
      BY <1>1, <1>3, <3>3, <3>4, <3>5 DEF PriorIs, Range
    <3> QED BY <1>1, <3>2, <3>4, <3>6 DEF PriorIs, Range
  <2> QED BY <2>1, <2>2
<1>7. CacheOf'
  <2>1. CASE UNCHANGED cache
    BY <1>1, <1>3, <2>1 DEF CacheOf, CacheIs
  <2>2. CASE \E l : Cached(Chain(l))
    <3>1. PICK l : Cached(Chain(l))
      BY <2>2
    <3> DEFINE locs == Chain(l)
    <3>2. locs \in SUBSET Locations
      BY ChainIs
    <3>3. CacheIs /\ DOMAIN cache \subseteq Locations /\ Cached(locs)
      BY <1>1, <3>1 DEF CacheOf
    <3> HIDE DEF locs
    <3>4. DOMAIN cache' \subseteq DOMAIN cache \cup locs /\ \A i \in DOMAIN cache' : cache'[i] \in Values
      BY <1>1, <3>2, <3>3, CachedIs
    <3> QED BY <1>3, <3>2, <3>3, <3>4 DEF CacheOf, CacheIs
  <2> QED BY <2>1, <2>2
<1> QED
  BY <1>4, <1>5, <1>6, <1>7, StaysTyped

\* What is read of the delta that waits is a value.
LEMMA ResultIs ==
  ASSUME Typed, phase = "resolve", deltas # <<>>, BaseValue # Nothing
  PROVE  BaseValue \in Values /\ ResultValue \in Values /\ Result.content \in Seq(Nat) /\ Result.ok \in BOOLEAN
<1>1. IsPack(pack) /\ Len(pack) \in Nat /\ read \in 0..Len(pack) /\ Queued /\ CacheOf
  BY TypedGives
<1>2. Head(deltas) \in 1..Len(pack) /\ IsDelta(Waiting)
  BY <1>1, QueueTail DEF Waiting
<1>3. Waiting.data.code \in Seq(Coded)
  <2>1. Formed(Waiting)
    BY <1>1, <1>2 DEF IsPack, Waiting
  <2> QED BY <1>2, <2>1, ResolvedIs DEF Maybe
<1>4. BaseValue \in Values
  <2> DEFINE bases == [l \in Locations |-> BaseOf(EntryAt(l))]
             l == BaseOf(Waiting)
  <2>1. BaseValue = Follow(l, cache, bases)
    BY DEF BaseValue, ValueAt
  <2>2. \A i \in DOMAIN cache : cache[i] \in Maybe
    BY <1>1 DEF CacheOf, CacheIs, Maybe
  <2> HIDE DEF bases, l
  <2>3. BaseValue \in Maybe
    BY <1>1, <2>1, <2>2, FollowTyped
  <2> QED BY <2>3 DEF Maybe
<1>5. BaseValue.content \in Seq(Nat)
  BY <1>4, ValuesAre
<1> DEFINE r == ReadCode(Waiting.data.code, BaseValue.content)
<1>6. r.content \in Seq(Nat) /\ r.ok \in BOOLEAN
  BY <1>3, <1>5, ReadCodeIs DEF Results
<1>7. Result = r
  BY DEF Result
<1> HIDE DEF r
<1>8. ResultValue \in Values
  <2>1. Result.content \in Seq(Nat)
    BY <1>6, <1>7
  <2> QED BY <1>4, <2>1, WithContent DEF ResultValue
<1> QED
  BY <1>4, <1>6, <1>7, <1>8

\* The actions of the resolving.
LEMMA ResolvingTyped == Typed /\ (NoBase \/ IndexDelta \/ UnpackDelta \/ SkipDelta) => Typed'
<1>1. ASSUME Typed, NoBase PROVE Typed'
  <2>1. /\ phase = "resolve" /\ deltas # <<>>
        /\ \/ deltas' = Tail(deltas) /\ UNCHANGED <<phase, outcome>>
           \/ phase' = "done" /\ outcome' = "error" /\ UNCHANGED deltas
        /\ Cached(Chain(BaseOf(Waiting)))
        /\ UNCHANGED <<opts, todo, window, pack, read, prior, stored, lost>>
    BY <1>1 DEF NoBase, Resolving, Stop
  <2>2. stored' \cup lost' \subseteq Values
    BY <1>1, <2>1, TypedGives
  <2>3. UNCHANGED cache \/ \E l : Cached(Chain(l))
    BY <2>1
  <2> QED BY <1>1, <2>1, <2>2, <2>3, ResolveTyped
<1>2. ASSUME Typed, IndexDelta PROVE Typed'
  <2>1. /\ phase = "resolve" /\ deltas # <<>>
        /\ \/ deltas' = Tail(deltas) /\ UNCHANGED <<phase, outcome>>
           \/ phase' = "done" /\ outcome' = "error" /\ UNCHANGED deltas
        /\ UNCHANGED prior \/ prior' = Placed(IdOf(ResultValue), Waiting.loc)
        /\ UNCHANGED cache \/ Cached(Chain(Waiting.loc))
        /\ UNCHANGED <<opts, todo, window, pack, read, stored, lost>>
    BY <1>2 DEF IndexDelta, Resolving, Stop
  <2>2. stored' \cup lost' \subseteq Values
    BY <1>2, <2>1, TypedGives
  <2>3. UNCHANGED cache \/ \E l : Cached(Chain(l))
    BY <2>1
  <2>4. UNCHANGED prior \/ \E v : prior' = Placed(IdOf(v), Waiting.loc)
    BY <2>1
  <2> QED BY <1>2, <2>1, <2>2, <2>3, <2>4, ResolveTyped
<1>3. ASSUME Typed, UnpackDelta PROVE Typed'
  <2>1. /\ phase = "resolve" /\ deltas # <<>> /\ BaseValue # Nothing
        /\ deltas' = Tail(deltas) /\ UNCHANGED <<phase, outcome>>
        /\ UNCHANGED prior \/ prior' = Placed(IdOf(ResultValue), Waiting.loc)
        /\ Cached(Chain(BaseOf(Waiting)))
        /\ stored' \cup lost' \subseteq stored \cup lost \cup {ResultValue}
        /\ UNCHANGED <<opts, todo, window, pack, read>>
    BY <1>3 DEF UnpackDelta, Resolving
  <2>2. stored' \cup lost' \subseteq Values
    BY <1>3, <2>1, TypedGives, ResultIs
  <2>3. UNCHANGED cache \/ \E l : Cached(Chain(l))
    BY <2>1
  <2>4. UNCHANGED prior \/ \E v : prior' = Placed(IdOf(v), Waiting.loc)
    BY <2>1
  <2> QED BY <1>3, <2>1, <2>2, <2>3, <2>4, ResolveTyped
<1>4. ASSUME Typed, SkipDelta PROVE Typed'
  <2>1. /\ phase = "resolve" /\ deltas # <<>>
        /\ deltas' = Tail(deltas) /\ UNCHANGED <<phase, outcome>>
        /\ Cached(Chain(BaseOf(Waiting)))
        /\ UNCHANGED <<opts, todo, window, pack, read, prior, stored, lost>>
    BY <1>4 DEF SkipDelta, Resolving
  <2>2. stored' \cup lost' \subseteq Values
    BY <1>4, <2>1, TypedGives
  <2>3. UNCHANGED cache \/ \E l : Cached(Chain(l))
    BY <2>1
  <2> QED BY <1>4, <2>1, <2>2, <2>3, ResolveTyped
<1> QED
  BY <1>1, <1>2, <1>3, <1>4

\* The steps from one part of the work to the next.
LEMMA PhaseTyped == Typed /\ (PackPanics \/ Open \/ Cut \/ WriteFails \/ ReadTrailer \/ Finish) => Typed'
<1> SUFFICES ASSUME Typed, PackPanics \/ Open \/ Cut \/ WriteFails \/ ReadTrailer \/ Finish PROVE Typed'
  OBVIOUS
<1>1. UNCHANGED <<opts, todo, window, pack, read, deltas, prior, cache, stored, lost>>
  BY DEF PackPanics, Open, Cut, WriteFails, Reading, ReadTrailer, Finish
<1>2. \/ phase # "done" /\ phase' = "done" /\ outcome' \in {"panic", "cut", "unwritten", "error", "ok"}
      \/ phase = "pack" /\ phase' = "read" /\ UNCHANGED outcome
      \/ phase = "read" /\ read = Len(pack) /\ phase' = "resolve" /\ UNCHANGED outcome
  BY DEF PackPanics, Open, Cut, WriteFails, Reading, ReadTrailer, Finish, Stop
<1>3. Queued /\ PriorIs /\ CacheOf /\ stored \cup lost \subseteq Values
  BY TypedGives
<1>4. Ran'
  BY <1>1, <1>2 DEF Ran, Typed, TypeOK, AllRead
<1>5. Queued' /\ PriorIs' /\ CacheOf'
  BY <1>1, <1>3 DEF Queued, DeltasAre, PriorIs, CacheOf, CacheIs, Reached, Range
<1> QED
  BY <1>1, <1>3, <1>4, <1>5, StaysTyped

\* What is in the window.
LEMMA WindowItems ==
  ASSUME Typed
  PROVE  /\ \A w \in Range(window) : w.id \in Object /\ w.loc \in Nat /\ w.loc < End(pack)
         /\ window # <<>> => Last(window) \in Range(window)
<1>1. window \in Seq(Items) /\ \A k \in 1..Len(window) : window[k].loc < End(pack)
  BY DEF Typed, WindowIs
<1>2. \A w \in Range(window) : w \in Items /\ w.loc < End(pack)
  BY <1>1 DEF Range
<1>3. window # <<>> => Last(window) \in Range(window)
  BY <1>1 DEF Last, Range
<1> QED
  BY <1>2, <1>3 DEF Items

\* A delta against an object of the window.
LEMMA DeltaEntryIs ==
  ASSUME Typed, NEW o \in Object, NEW w \in Tried(o), ~Panics(Content[w.id], Content[o])
  PROVE  DeltaEntry(o, w) \in Entries /\ Formed(DeltaEntry(o, w)) /\ DeltaEntry(o, w).loc = End(pack)
<1> DEFINE e == DeltaEntry(o, w)
           ref == Last(window)
           at == End(pack)
           data == WriteDelta(Content[w.id], Content[o])
           none == <<>>
<1>1. w \in Range(window)
  BY DEF Tried
<1>2. window # <<>>
  BY <1>1 DEF Range
<1>3. w.id \in Object /\ ref.id \in Object /\ ref.loc \in Nat /\ ref.loc < at
  BY <1>1, <1>2, WindowItems
<1>4. at \in Nat \ {0}
  BY DEF Typed, IsPack
<1>5. data \in Deltas
  <2>1. Content[w.id] \in Seq(Nat) /\ Content[o] \in Seq(Nat)
    BY <1>3, KindsAre
  <2> QED BY <2>1, WriteDeltaIs
<1>6. none \in Seq(Part)
  OBVIOUS
<1>7. e = IF opts.ofs THEN Entry(at, "ofs", Unknown, Uvarint[at - ref.loc], data)
          ELSE Entry(at, "ref", ref.id, none, data)
  BY DEF DeltaEntry
<1> HIDE DEF e, ref, at, data, none
<1>8. CASE opts.ofs
  <2> DEFINE back == Uvarint[at - ref.loc]
  <2>1. at - ref.loc \in Nat
    BY <1>3, <1>4
  <2>2. Ends(back) /\ back \in Seq(Part)
    BY <2>1, UvarintEnds DEF Ends
  <2>3. e = Entry(at, "ofs", Unknown, back, data)
    BY <1>7, <1>8
  <2>4. "ofs" \in {"ref", "ofs"} /\ Unknown \in Object \cup {Unknown}
    OBVIOUS
  <2> HIDE DEF back
  <2>5. e \in Entries /\ Formed(e) /\ e.loc = at
    BY <1>4, <1>5, <2>2, <2>3, <2>4, DeltaIs
  <2> QED BY <2>5 DEF e, at
<1>9. CASE ~opts.ofs
  <2>1. e = Entry(at, "ref", ref.id, none, data)
    BY <1>7, <1>9
  <2>2. "ref" \in {"ref", "ofs"} /\ ref.id \in Object \cup {Unknown}
    BY <1>3
  <2>3. e \in Entries /\ Formed(e) /\ e.loc = at
    BY <1>3, <1>4, <1>5, <1>6, <2>1, <2>2, DeltaIs
  <2> QED BY <2>3 DEF e, at
<1> QED
  BY <1>8, <1>9

\* The window slides.
LEMMA SlideIs ==
  ASSUME Typed, NEW item \in Items, NEW e, End(pack) <= e, e \in Nat, item.loc < e
  PROVE  Slide(item) \in Seq(Items) /\ \A k \in 1..Len(Slide(item)) : Slide(item)[k].loc < e
<1> DEFINE s == Slide(item)
           i == (Len(pack) % opts.window) + 1
<1>1. window \in Seq(Items) /\ (\A k \in 1..Len(window) : window[k].loc < End(pack)) /\ Len(window) \in Nat
  BY DEF Typed, WindowIs
<1>2. \A k \in 1..Len(window) : window[k].loc \in Nat
  <2>1. \A k \in 1..Len(window) : window[k] \in Items
    BY <1>1
  <2> QED BY <2>1 DEF Items
<1>3. End(pack) \in Nat
  BY DEF Typed, IsPack
<1>4. \A k \in 1..Len(window) : window[k].loc < e
  BY <1>1, <1>2, <1>3
<1>5. s = Append(window, item) \/ s = window \/ s = [window EXCEPT ![i] = item]
  BY DEF Slide
<1> HIDE DEF s, i
<1>6. CASE s = Append(window, item)
  BY <1>1, <1>4, <1>6 DEF s
<1>7. CASE s = window
  BY <1>1, <1>4, <1>7 DEF s
<1>8. CASE s = [window EXCEPT ![i] = item]
  <2>1. DOMAIN s = 1..Len(window) /\ \A k \in 1..Len(window) : s[k] = IF k = i THEN item ELSE window[k]
    BY <1>1, <1>8
  <2>2. \A k \in 1..Len(window) : s[k] \in Items /\ s[k].loc < e
    BY <1>1, <1>4, <2>1
  <2>3. s \in [1..Len(window) -> Items]
    BY <1>8, <2>1, <2>2
  <2>4. s \in Seq(Items) /\ Len(s) = Len(window)
    BY <1>1, <2>3
  <2> QED BY <2>2, <2>4 DEF s
<1> QED
  BY <1>5, <1>6, <1>7, <1>8

\* One object is packed.
LEMMA PackObjectTyped == Typed /\ PackObject => Typed'
<1> SUFFICES ASSUME Typed, PackObject PROVE Typed'
  OBVIOUS
<1> DEFINE o == Head(todo)
           item == [id |-> o, loc |-> End(pack)]
<1>1. /\ phase = "pack" /\ todo # <<>> /\ todo' = Tail(todo)
      /\ window' = Slide(item)
      /\ UNCHANGED <<opts, phase, outcome, read, deltas, prior, cache, failed, index, stored, lost>>
  BY DEF PackObject
<1>2. todo \in Seq(Object) /\ IsPack(pack)
  BY DEF Typed
<1>3. o \in Object /\ todo' \in Seq(Object)
  BY <1>1, <1>2
<1>4. PICK e : /\ e = Full(End(pack), o) \/ \E w \in Tried(o) : e = DeltaEntry(o, w) /\ ~Panics(Content[w.id], Content[o])
               /\ pack' = Append(pack, e)
  BY DEF PackObject
<1>5. End(pack) \in Nat \ {0}
  BY <1>2 DEF IsPack
<1> HIDE DEF o
<1>6. e \in Entries /\ Formed(e) /\ e.loc = End(pack)
  BY <1>3, <1>4, <1>5, FullIs, DeltaEntryIs
<1>7. IsPack(pack') /\ End(pack) < End(pack')
  BY <1>2, <1>4, <1>6, PackGrows
<1>8. item \in Items
  BY <1>3, <1>5 DEF Items
<1>9. WindowIs'
  <2>1. End(pack') \in Nat /\ item.loc < End(pack') /\ End(pack) <= End(pack')
    BY <1>5, <1>7 DEF IsPack
  <2>2. Slide(item) \in Seq(Items) /\ \A k \in 1..Len(Slide(item)) : Slide(item)[k].loc < End(pack')
    BY <1>8, <2>1, SlideIs
  <2> QED BY <1>1, <2>2 DEF WindowIs
<1>10. read = 0 /\ deltas = <<>> /\ prior = <<>> /\ cache = <<>> /\ stored = {} /\ lost = {}
  BY <1>1 DEF Typed, Fresh
<1>11. OptionsAre' /\ CacheIs' /\ DeltasAre' /\ Fresh' /\ AllRead'
  BY <1>1, <1>10 DEF Typed, OptionsAre, CacheIs, DeltasAre, Fresh, AllRead, Range
<1>12. TypeOK'
  <2>1. Len(pack') \in Nat
    BY <1>7 DEF IsPack
  <2>2. \A k \in 1..Len(pack') - 1 : pack'[k].loc < pack'[k + 1].loc
    BY <1>7, <2>1 DEF IsPack
  <2>3. Range(deltas) = {} /\ Range(prior) = {} /\ DOMAIN prior = {} /\ DOMAIN cache = {}
    BY <1>10 DEF Range
  <2>4. phase' = "pack" /\ outcome' = "running"
    BY <1>1 DEF Typed, TypeOK
  <2> QED BY <1>1, <1>10, <2>1, <2>2, <2>3, <2>4 DEF TypeOK
<1> QED
  BY <1>3, <1>7, <1>9, <1>11, <1>12 DEF Typed

\* Every step keeps the types.
LEMMA NextTyped == Typed /\ [Next]_vars => Typed'
<1>1. Typed /\ Next => Typed'
  BY PackObjectTyped, ReadFullTyped, ReadRefTyped, ReadOfsTyped, ResolvingTyped, PhaseTyped DEF Next
<1>2. Typed /\ UNCHANGED vars => Typed'
  BY DEF vars, Typed, TypeOK, OptionsAre, WindowIs, CacheIs, DeltasAre, Fresh, AllRead, Range
<1> QED
  BY <1>1, <1>2

\* What a reader of packs knows and keeps is of the types it should be: its
\* locations are those of entries it has read, in a file whose entries are one
\* after the other, whether it is its own or git's.
THEOREM PacksTyped == Spec => []TypeOK
<1>1. Typed => TypeOK
  BY DEF Typed
<1> QED
  BY <1>1, InitTyped, NextTyped, PTL DEF Spec

-----------------------------------------------------------------------------
(* What a pack stands for.                                                 *)

\* The entry j of p is a base of e, when it is known what some of them are.
Based(p, e, known, j) ==
  /\ j \in 1..Len(p) /\ known[j] # Nothing
  /\ e.type = "ofs" => p[j].loc = Before(e)
  /\ e.type = "ref" => IdOf(known[j]) = e.ref

\* A delta is either of two types.
LEMMA DeltaTypes ==
  ASSUME NEW e, Formed(e), IsDelta(e)
  PROVE  (e.type = "ref" \/ e.type = "ofs") /\ e.type \notin Kinds /\ (e.type = "ref" => e.ref \in Object)
  BY DEF Formed, IsDelta

\* All bases of a delta are the same, and it is applied to that.
LEMMA StandsForIs ==
  ASSUME NEW p, IsPack(p), NEW e, Formed(e), NEW known \in [1..Len(p) -> Maybe]
  PROVE  /\ StandsFor(p, e, known) \in Maybe
         /\ ~IsDelta(e) => StandsFor(p, e, known) = Whole(e) /\ Whole(e) \in Values
         /\ IsDelta(e) =>
              /\ \A j : Based(p, e, known, j) => StandsFor(p, e, known) = Applied(e, known[j]) /\ known[j] \in Values
              /\ StandsFor(p, e, known) # Nothing => \E j : Based(p, e, known, j)
<1> DEFINE s == StandsFor(p, e, known)
           places == {j \in 1..Len(p) : e.type = "ofs" => p[j].loc = Before(e)}
           right == {b \in {known[j] : j \in places} : b # Nothing /\ (e.type = "ref" => IdOf(b) = e.ref)}
<1>1. s = IF ~IsDelta(e) THEN Whole(e)
          ELSE IF right = {} THEN Nothing ELSE Applied(e, CHOOSE b \in right : TRUE)
  BY DEF StandsFor, Whole
<1>2. \A b : b \in right <=> \E j : Based(p, e, known, j) /\ b = known[j]
  BY DEF Based
<1> HIDE DEF s, right, places
<1>3. CASE ~IsDelta(e)
  <2>1. Whole(e) \in Values
    BY <1>3, ResolvedIs DEF Maybe
  <2> QED BY <1>1, <1>3, <2>1 DEF s, Maybe
<1>4. CASE IsDelta(e)
  <2>1. ASSUME NEW i, NEW j, Based(p, e, known, i), Based(p, e, known, j) PROVE known[i] = known[j]
    <3>1. CASE e.type = "ofs"
      <4>1. i \in 1..Len(p) /\ j \in 1..Len(p) /\ p[i].loc = p[j].loc
        BY <2>1, <3>1 DEF Based
      <4>2. p[i].loc \in Nat /\ p[j].loc \in Nat
        BY <4>1 DEF IsPack, Formed
      <4>3. ~(i < j) /\ ~(j < i)
        BY <4>1, <4>2 DEF IsPack
      <4> QED BY <4>1, <4>3
    <3>2. CASE e.type = "ref"
      <4>1. IdOf(known[i]) = e.ref /\ IdOf(known[j]) = e.ref
        BY <2>1, <3>2 DEF Based
      <4>2. e.ref \in Object
        BY <3>2 DEF Formed
      <4> QED BY <4>1, <4>2, IdsAre
    <3> QED BY <1>4, <3>1, <3>2, DeltaTypes
  <2>2. ASSUME NEW j, Based(p, e, known, j) PROVE known[j] \in Values
    BY <2>2 DEF Based, Maybe
  <2>3. ASSUME NEW j, Based(p, e, known, j) PROVE s = Applied(e, known[j])
    <3>1. known[j] \in right
      BY <1>2, <2>3
    <3> DEFINE c == CHOOSE b \in right : TRUE
    <3>2. c \in right /\ s = Applied(e, c)
      BY <1>1, <1>4, <3>1
    <3> HIDE DEF c
    <3>3. PICK i : Based(p, e, known, i) /\ c = known[i]
      BY <1>2, <3>2
    <3>4. c = known[j]
      BY <2>1, <2>3, <3>3
    <3> QED BY <3>2, <3>4
  <2>4. s # Nothing => \E j : Based(p, e, known, j)
    BY <1>1, <1>2, <1>4
  <2>5. s \in Maybe
    <3>1. CASE \E j : Based(p, e, known, j)
      <4>1. PICK j : Based(p, e, known, j)
        BY <3>1
      <4>2. s = Applied(e, known[j]) /\ known[j] \in Values
        BY <2>2, <2>3, <4>1
      <4> QED BY <1>4, <4>2, AppliedIs
    <3>2. CASE ~\E j : Based(p, e, known, j)
      BY <2>4, <3>2 DEF Maybe
    <3> QED BY <3>1, <3>2
  <2> QED BY <1>4, <2>2, <2>3, <2>4, <2>5 DEF s
<1> QED
  BY <1>3, <1>4

\* What is known in a is known in b.
Below(a, b) == \A k \in DOMAIN a : a[k] # Nothing => b[k] = a[k]
\* One round more.
Round(p, known) == [k \in 1..Len(p) |-> StandsFor(p, p[k], known)]
Partly(p) == [1..Len(p) -> Maybe]

\* More that is known leaves what follows from it.
LEMMA RoundGrows ==
  ASSUME NEW p, IsPack(p), NEW a \in Partly(p), NEW b \in Partly(p), Below(a, b)
  PROVE  Round(p, a) \in Partly(p) /\ Round(p, b) \in Partly(p) /\ Below(Round(p, a), Round(p, b))
<1>1. ASSUME NEW c \in Partly(p) PROVE Round(p, c) \in Partly(p)
  <2>1. \A k \in 1..Len(p) : StandsFor(p, p[k], c) \in Maybe
    <3> SUFFICES ASSUME NEW k \in 1..Len(p) PROVE StandsFor(p, p[k], c) \in Maybe
      OBVIOUS
    <3>1. Formed(p[k]) /\ c \in [1..Len(p) -> Maybe]
      BY DEF IsPack, Partly
    <3> QED BY <3>1, StandsForIs
  <2> QED BY <2>1 DEF Round, Partly
<1>2. ASSUME NEW k \in 1..Len(p), StandsFor(p, p[k], a) # Nothing
      PROVE  StandsFor(p, p[k], b) = StandsFor(p, p[k], a)
  <2> DEFINE e == p[k]
  <2>1. Formed(e) /\ a \in [1..Len(p) -> Maybe] /\ b \in [1..Len(p) -> Maybe]
    BY DEF IsPack, Partly
  <2> HIDE DEF e
  <2>2. CASE ~IsDelta(e)
    BY <2>1, <2>2, StandsForIs DEF e
  <2>3. CASE IsDelta(e)
    <3>1. PICK j : Based(p, e, a, j)
      BY <1>2, <2>1, <2>3, StandsForIs DEF e
    <3>2. b[j] = a[j]
      BY <2>1, <3>1 DEF Based, Below
    <3>3. Based(p, e, b, j)
      BY <3>1, <3>2 DEF Based
    <3>4. StandsFor(p, e, a) = Applied(e, a[j])
      BY <2>1, <2>3, <3>1, StandsForIs
    <3>5. StandsFor(p, e, b) = Applied(e, b[j])
      BY <2>1, <2>3, <3>3, StandsForIs
    <3> QED BY <3>2, <3>4, <3>5 DEF e
  <2> QED BY <2>2, <2>3
<1> QED
  BY <1>1, <1>2 DEF Below, Round

\* The rounds by which it is known what a pack stands for.
Learned(f, p) ==
  /\ \A n \in 0..Len(p) : f[n] \in Partly(p)
  /\ \A k \in 1..Len(p) : f[0][k] = Nothing
  /\ \A n \in 1..Len(p) : f[n] = Round(p, f[n - 1])

\* What a pack stands for is what the last of them knows.
LEMMA MeaningOfIs ==
  ASSUME NEW p, IsPack(p)
  PROVE  \E f : Learned(f, p) /\ MeaningOf(p) = f[Len(p)]
<1> DEFINE n == Len(p)
           S == Partly(p)
           Q == (1..n) \X S
           x == [k \in 1..Len(p) |-> Nothing]
           g == [q \in Q |-> Round(p, q[2])]
           P(f) == f = [i \in 0..Len(p) |->
                          [k \in 1..Len(p) |-> IF i = 0 THEN Nothing ELSE StandsFor(p, p[k], f[i - 1])]]
           f == CHOOSE h : P(h)
<1>0. n \in Nat
  BY DEF IsPack
<1>1. \A a \in S : Round(p, a) \in S
  <2>1. \A a \in S : Below(a, a)
    BY DEF Below
  <2> QED BY <2>1, RoundGrows
<1>2. x \in S /\ \A k \in 1..Len(p) : x[k] = Nothing
  BY DEF Partly, Maybe
<1>3. g \in [Q -> S]
  BY <1>1
<1> HIDE DEF S, n
<1>4. PICK h \in [0..n -> S] : Stepwise(h, n, x, g)
  <2>1. Q = (1..n) \X S
    OBVIOUS
  <2> HIDE DEF Q, g, x
  <2> QED BY <1>0, <1>2, <1>3, <2>1, StepRecursion
<1>5. \A i \in 0..n : h[i] = IF i = 0 THEN x ELSE Round(p, h[i - 1])
  <2> SUFFICES ASSUME NEW i \in 0..n PROVE h[i] = IF i = 0 THEN x ELSE Round(p, h[i - 1])
    OBVIOUS
  <2>1. i # 0 => i \in 1..n /\ h[i - 1] \in S
    BY <1>0
  <2> QED BY <1>4, <2>1 DEF Stepwise
<1> DEFINE body(i, h1) == [k \in 1..Len(p) |-> IF i = 0 THEN Nothing ELSE StandsFor(p, p[k], h1[i - 1])]
<1>6. ASSUME NEW i, NEW h1 PROVE body(i, h1) = IF i = 0 THEN x ELSE Round(p, h1[i - 1])
  BY DEF Round
<1> HIDE DEF x, g
<1>7. P(h)
  <2>1. \A i \in 0..n : h[i] = body(i, h)
    <3> HIDE DEF body
    <3> QED BY <1>5, <1>6
  <2>2. h = [i \in 0..n |-> body(i, h)]
    <3> HIDE DEF body
    <3> QED BY <2>1
  <2> QED BY <2>2 DEF n
<1>8. P(f)
  <2> HIDE DEF P
  <2> QED BY <1>7
<1>9. MeaningOf(p) = f[Len(p)]
  BY DEF MeaningOf
<1> HIDE DEF f
<1>10. \A i \in 0..n : f[i] = IF i = 0 THEN x ELSE Round(p, f[i - 1])
  <2>1. f = [i \in 0..n |-> body(i, f)]
    BY <1>8 DEF n
  <2> HIDE DEF body
  <2> QED BY <1>6, <2>1
<1> HIDE DEF P, body
<1>11. \A i \in 0..n : f[i] \in S
  <2> DEFINE T == {i \in 0..n : f[i] \in S}
  <2>1. 0 \in T
    BY <1>0, <1>2, <1>10
  <2>2. ASSUME NEW k \in 1..n, k - 1 \in T PROVE k \in T
    <3>1. k \in 0..n /\ k # 0 /\ f[k - 1] \in S
      BY <2>2, <1>0
    <3> QED BY <1>1, <1>10, <3>1
  <2> HIDE DEF T
  <2>4. 0..n \subseteq T
    BY <1>0, <2>1, <2>2, StepInduction
  <2> QED BY <2>4 DEF T
<1>12. f[0] = x /\ \A i \in 1..n : f[i] = Round(p, f[i - 1])
  BY <1>0, <1>10
<1> QED
  BY <1>2, <1>9, <1>11, <1>12 DEF Learned, n, S

\* Every round knows what the one before did.
LEMMA LearnedGrows ==
  ASSUME NEW p, IsPack(p), NEW f, Learned(f, p)
  PROVE  /\ \A n \in 0..Len(p) : f[n] \in Partly(p) /\ Below(f[n], Round(p, f[n]))
         /\ \A n \in 0..Len(p) : Below(f[n], f[Len(p)])
<1> DEFINE N == Len(p)
<1>0. N \in Nat
  BY DEF IsPack
<1>1. \A n \in 0..N : f[n] \in Partly(p)
  BY DEF Learned
<1>2. 0..N \subseteq {n \in 0..N : Below(f[n], Round(p, f[n]))}
  <2> DEFINE T == {n \in 0..N : Below(f[n], Round(p, f[n]))}
  <2>1. 0 \in T
    BY <1>0, <1>1 DEF Learned, Below, Partly
  <2>2. ASSUME NEW k \in 1..N, k - 1 \in T PROVE k \in T
    <3>1. k \in 0..N /\ k - 1 \in 0..N /\ f[k] = Round(p, f[k - 1])
      BY <2>2, <1>0 DEF Learned
    <3> DEFINE a == f[k - 1]
               b == f[k]
    <3>2. a \in Partly(p) /\ b \in Partly(p) /\ Below(a, b)
      BY <1>1, <2>2, <3>1
    <3> HIDE DEF a, b
    <3>3. Below(Round(p, a), Round(p, b))
      BY <3>2, RoundGrows
    <3> QED BY <3>1, <3>3 DEF a, b
  <2> HIDE DEF T
  <2>3. 0..N \subseteq T
    BY <1>0, <2>1, <2>2, StepInduction
  <2> QED BY <2>3 DEF T
<1>3. 0..N \subseteq {d \in 0..N : Below(f[N - d], f[N])}
  <2> DEFINE T == {d \in 0..N : Below(f[N - d], f[N])}
  <2>1. 0 \in T
    BY <1>0 DEF Below
  <2>2. ASSUME NEW d \in 1..N, d - 1 \in T PROVE d \in T
    <3>1. N - d \in 0..N /\ (N - d) + 1 = N - (d - 1) /\ N - (d - 1) \in 1..N /\ d \in 0..N
      BY <1>0
    <3> DEFINE i == N - d
               a == f[i]
               b == f[i + 1]
    <3>2. b = Round(p, a)
      BY <3>1 DEF Learned
    <3>3. Below(a, b) /\ a \in Partly(p) /\ b \in Partly(p)
      <4>1. i \in 0..N /\ i + 1 \in 0..N
        BY <3>1
      <4> QED BY <1>1, <1>2, <3>2, <4>1
    <3>4. Below(b, f[N])
      BY <2>2, <3>1
    <3> HIDE DEF a, b
    <3>5. Below(a, f[N])
      BY <3>3, <3>4 DEF Below, Partly
    <3> QED BY <3>1, <3>5 DEF a
  <2> HIDE DEF T
  <2>3. 0..N \subseteq T
    BY <1>0, <2>1, <2>2, StepInduction
  <2> QED BY <2>3 DEF T
<1>4. ASSUME NEW n \in 0..N PROVE Below(f[n], f[N])
  <2>1. N - n \in 0..N /\ N - (N - n) = n
    BY <1>0
  <2> QED BY <1>3, <2>1
<1> QED
  BY <1>1, <1>2, <1>4

\* After as many rounds as there are entries nothing more is learned.
LEMMA MeaningIs ==
  ASSUME NEW p, IsPack(p), NEW f, Learned(f, p)
  PROVE  Round(p, f[Len(p)]) = f[Len(p)]
<1> DEFINE N == Len(p)
           Known(a) == {k \in 1..N : a[k] # Nothing}
           Card(a) == Cardinality(Known(a))
<1>0. N \in Nat
  BY DEF IsPack
<1>1. \A n \in 0..N : f[n] \in Partly(p) /\ Below(f[n], Round(p, f[n]))
  BY LearnedGrows
<1>2. \A a : IsFiniteSet(Known(a)) /\ Card(a) \in Nat /\ Card(a) <= N /\ (Card(a) = N => Known(a) = 1..N)
  <2> SUFFICES ASSUME NEW a
               PROVE  IsFiniteSet(Known(a)) /\ Card(a) \in Nat /\ Card(a) <= N /\ (Card(a) = N => Known(a) = 1..N)
    OBVIOUS
  <2>1. IsFiniteSet(1..N) /\ Cardinality(1..N) = N
    <3>1. 1 \in Int /\ N \in Int
      BY <1>0
    <3> QED BY SMTT(30), <1>0, <3>1, FS_Interval
  <2>2. Known(a) \in SUBSET (1..N)
    OBVIOUS
  <2> HIDE DEF Known
  <2>3. IsFiniteSet(Known(a)) /\ Card(a) <= N /\ (Card(a) = N => Known(a) = 1..N)
    BY <2>1, <2>2, FS_Subset
  <2> QED BY <2>3, FS_CardinalityType
<1>3. 0..N \subseteq {n \in 0..N : Round(p, f[n]) = f[n] \/ n <= Card(f[n])}
  <2> DEFINE T == {n \in 0..N : Round(p, f[n]) = f[n] \/ n <= Card(f[n])}
  <2>1. 0 \in T
    <3>1. Card(f[0]) \in Nat
      BY <1>2
    <3> HIDE DEF Card
    <3>2. 0 <= Card(f[0]) /\ 0 \in 0..N
      BY <1>0, <3>1
    <3> QED BY <3>2
  <2>2. ASSUME NEW k \in 1..N, k - 1 \in T PROVE k \in T
    <3>1. k \in 0..N /\ k - 1 \in 0..N /\ f[k] = Round(p, f[k - 1])
      BY <2>2, <1>0 DEF Learned
    <3> DEFINE a == f[k - 1]
               b == f[k]
    <3>2. b = Round(p, a) /\ a \in Partly(p) /\ b \in Partly(p) /\ Below(a, b)
      BY <1>1, <3>1
    <3>3. Round(p, a) = a \/ k - 1 <= Card(a)
      BY <2>2
    <3>4. ASSUME b # a, k - 1 <= Card(a) PROVE k <= Card(b)
      <4> HIDE DEF a, b
      <4>1. \A i \in 1..N : a[i] # Nothing => b[i] = a[i]
        BY <3>2 DEF Below, Partly
      <4>2. PICK i \in 1..N : a[i] # b[i]
        BY <3>2, <3>4 DEF Partly
      <4>3. Known(a) \in SUBSET Known(b) /\ i \in Known(b) /\ i \notin Known(a)
        BY <4>1, <4>2
      <4> HIDE DEF Known
      <4>4. Card(a) <= Card(b) /\ Card(a) # Card(b)
        <5>1. IsFiniteSet(Known(b))
          BY <1>2
        <5> QED BY <4>3, <5>1, FS_Subset
      <4>5. Card(a) \in Nat /\ Card(b) \in Nat
        BY <1>2
      <4> HIDE DEF Card
      <4> QED BY <3>4, <4>4, <4>5
    <3>5. b = a => Round(p, b) = b
      BY <3>2
    <3> QED BY <3>1, <3>2, <3>3, <3>4, <3>5
  <2> HIDE DEF T
  <2>3. 0..N \subseteq T
    BY <1>0, <2>1, <2>2, StepInduction
  <2> QED BY <2>3 DEF T
<1>4. CASE Round(p, f[N]) # f[N]
  <2> DEFINE a == f[N]
  <2>1. N \in 0..N
    BY <1>0
  <2>2. N <= Card(a) /\ a \in Partly(p) /\ Below(a, Round(p, a))
    BY <1>1, <1>3, <1>4, <2>1
  <2> HIDE DEF a
  <2>3. Card(a) \in Nat /\ Card(a) <= N /\ (Card(a) = N => Known(a) = 1..N)
    BY <1>2
  <2>4. Card(a) = N
    <3> HIDE DEF Card
    <3> QED BY <1>0, <2>2, <2>3
  <2>5. \A k \in 1..N : a[k] # Nothing
    BY <2>3, <2>4
  <2>6. \A k \in 1..N : Round(p, a)[k] = a[k]
    BY <2>2, <2>5 DEF Below, Partly
  <2>7. Round(p, a) = a
    BY <2>2, <2>6 DEF Round, Partly
  <2> QED BY <1>4, <2>7 DEF a
<1> QED
  BY <1>4

\* What the entries of the file stand for is what follows from it.
LEMMA MeaningStands ==
  ASSUME IsPack(pack)
  PROVE  /\ Meaning \in [1..Len(pack) -> Maybe]
         /\ \A k \in 1..Len(pack) : Meaning[k] = StandsFor(pack, pack[k], Meaning)
         /\ \E f : /\ Learned(f, pack) /\ Meaning = f[Len(pack)]
                   /\ \A n \in 0..Len(pack) : f[n] \in Partly(pack) /\ Below(f[n], Meaning)
<1>1. PICK f : Learned(f, pack) /\ MeaningOf(pack) = f[Len(pack)]
  BY MeaningOfIs
<1>2. Meaning = f[Len(pack)]
  BY <1>1 DEF Meaning
<1>3. Round(pack, Meaning) = Meaning
  BY <1>1, <1>2, MeaningIs
<1>4. \A n \in 0..Len(pack) : f[n] \in Partly(pack) /\ Below(f[n], Meaning)
  BY <1>1, <1>2, LearnedGrows
<1>5. Len(pack) \in 0..Len(pack)
  BY DEF IsPack
<1>6. Meaning \in [1..Len(pack) -> Maybe]
  BY <1>2, <1>4, <1>5 DEF Partly
<1>7. ASSUME NEW k \in 1..Len(pack) PROVE Meaning[k] = StandsFor(pack, pack[k], Meaning)
  <2> DEFINE m == Meaning
  <2>1. Round(pack, m) = m
    BY <1>3
  <2> HIDE DEF m
  <2>2. m[k] = StandsFor(pack, pack[k], m)
    BY <2>1 DEF Round
  <2> QED BY <2>2 DEF m
<1> QED
  BY <1>1, <1>2, <1>4, <1>6, <1>7

-----------------------------------------------------------------------------
(* A pack of this program's has the objects that were asked for.           *)

\* How an entry holds an object of w: whole, or as a delta of the one before.
IsWhole(w, k) == pack[k].type = Kind[w[k]] /\ pack[k].data = Content[w[k]]
IsAgainst(w, k) ==
  /\ k - 1 \in 1..Len(pack)
  /\ Kind[w[k - 1]] = Kind[w[k]] /\ ~Panics(Content[w[k - 1]], Content[w[k]])
  /\ pack[k].data = WriteDelta(Content[w[k - 1]], Content[w[k]])
  /\ \/ pack[k].type = "ref" /\ pack[k].ref = w[k - 1]
     \/ pack[k].type = "ofs" /\ pack[k].back = Uvarint[pack[k].loc - pack[k - 1].loc]
HeldBy(w) == \A k \in 1..Len(pack) : IsWhole(w, k) \/ IsAgainst(w, k)
ToDo(w) == Len(pack) + Len(todo) = Len(w) /\ \A i \in 1..Len(todo) : todo[i] = w[Len(pack) + i]
LastItem(w) == [id |-> w[Len(pack)], loc |-> pack[Len(pack)].loc]
WindowHas(w) == window = IF opts.window = 0 \/ Len(pack) = 0 THEN <<>> ELSE <<LastItem(w)>>
InPack(w) == w \in Wanted /\ ToDo(w) /\ HeldBy(w) /\ WindowHas(w)

Packed == opts.own /\ opts.window <= 1 => \E w : InPack(w)
Emptied == phase \in {"read", "resolve"} => todo = <<>>

\* What was asked for.
LEMMA WantedIs ==
  ASSUME NEW w \in Wanted
  PROVE  /\ w \in Seq(Object) /\ Len(w) \in Nat \ {0}
         /\ \A k \in 1..Len(w) : w[k] \in Object
         /\ \A j, k \in 1..Len(w) : j # k => w[j] # w[k]
<1>1. w \in Seq(Object) /\ w # <<>> /\ \A j, k \in 1..Len(w) : j # k => w[j] # w[k]
  BY PacksAssumption
<1> QED
  BY <1>1

\* Nothing is in it at the start.
LEMMA InitPacked == Init => Packed /\ Emptied
<1> SUFFICES ASSUME Init PROVE Packed /\ Emptied
  OBVIOUS
<1>1. ASSUME opts.own PROVE InPack(todo)
  <2>1. todo \in Wanted /\ pack = <<>> /\ window = <<>>
    BY <1>1 DEF Init
  <2>2. Len(pack) = 0 /\ Len(todo) \in Nat
    BY <2>1, WantedIs
  <2> QED BY <2>1, <2>2 DEF InPack, ToDo, HeldBy, WindowHas
<1>2. phase = "pack"
  BY DEF Init
<1> QED
  BY <1>1, <1>2 DEF Packed, Emptied

\* The entry of the next object.
LEMMA NextEntry ==
  ASSUME Typed, NEW w, InPack(w), opts.window <= 1, NEW n, n = Len(pack), NEW o, o = w[n + 1], o \in Object,
         NEW e, e = Full(End(pack), o)
                \/ \E v \in Tried(o) : e = DeltaEntry(o, v) /\ ~Panics(Content[v.id], Content[o])
  PROVE  \/ e.type = Kind[o] /\ e.data = Content[o]
         \/ /\ n \in 1..Len(pack) /\ Kind[w[n]] = Kind[o] /\ ~Panics(Content[w[n]], Content[o])
            /\ e.data = WriteDelta(Content[w[n]], Content[o])
            /\ \/ e.type = "ref" /\ e.ref = w[n]
               \/ e.type = "ofs" /\ e.back = Uvarint[End(pack) - pack[n].loc]
<1>1. ASSUME e = Full(End(pack), o) PROVE e.type = Kind[o] /\ e.data = Content[o]
  BY <1>1, EntryIs DEF Full
<1>2. ASSUME NEW v \in Tried(o), e = DeltaEntry(o, v), ~Panics(Content[v.id], Content[o])
      PROVE  /\ n \in 1..Len(pack) /\ Kind[w[n]] = Kind[o] /\ ~Panics(Content[w[n]], Content[o])
             /\ e.data = WriteDelta(Content[w[n]], Content[o])
             /\ \/ e.type = "ref" /\ e.ref = w[n]
                \/ e.type = "ofs" /\ e.back = Uvarint[End(pack) - pack[n].loc]
  <2>1. v \in Range(window) /\ Kind[v.id] = Kind[o]
    BY DEF Tried
  <2>2. window # <<>>
    BY <2>1 DEF Range
  <2>3. window = <<LastItem(w)>> /\ n # 0 /\ n \in Nat
    BY <2>2 DEF InPack, WindowHas, Typed, IsPack
  <2>4. v = LastItem(w) /\ Last(window) = LastItem(w)
    BY <2>1, <2>3 DEF Range, Last
  <2>5. v.id = w[n] /\ v.loc = pack[n].loc /\ n \in 1..Len(pack)
    BY <2>3, <2>4 DEF LastItem
  <2>6. e = IF opts.ofs THEN Entry(End(pack), "ofs", Unknown, Uvarint[End(pack) - v.loc], WriteDelta(Content[v.id], Content[o]))
            ELSE Entry(End(pack), "ref", v.id, <<>>, WriteDelta(Content[v.id], Content[o]))
    BY <1>2, <2>4 DEF DeltaEntry
  <2>7. /\ e.data = WriteDelta(Content[v.id], Content[o])
        /\ \/ e.type = "ref" /\ e.ref = v.id
           \/ e.type = "ofs" /\ e.back = Uvarint[End(pack) - v.loc]
    BY <2>6, EntryIs
  <2> QED BY <1>2, <2>1, <2>5, <2>7
<1> QED
  BY <1>1, <1>2

\* One object is packed.
LEMMA PackObjectPacked == Typed /\ Packed /\ PackObject => Packed'
<1> SUFFICES ASSUME Typed, Packed, PackObject, opts.own, opts.window <= 1 PROVE \E w : InPack(w)'
  BY DEF Packed, PackObject
<1>1. PICK w : InPack(w)
  BY DEF Packed
<1> DEFINE n == Len(pack)
           o == Head(todo)
           item == [id |-> o, loc |-> End(pack)]
<1>2. /\ todo # <<>> /\ todo' = Tail(todo) /\ window' = Slide(item) /\ UNCHANGED opts
  BY DEF PackObject
<1>3. PICK e : /\ e = Full(End(pack), o) \/ \E v \in Tried(o) : e = DeltaEntry(o, v) /\ ~Panics(Content[v.id], Content[o])
               /\ pack' = Append(pack, e)
  BY DEF PackObject
<1>4. todo \in Seq(Object) /\ IsPack(pack) /\ n \in Nat
  BY DEF Typed, IsPack
<1>5. /\ o = w[n + 1] /\ o \in Object /\ Len(todo) \in Nat \ {0} /\ Len(Tail(todo)) = Len(todo) - 1
      /\ \A i \in 1..Len(todo) - 1 : Tail(todo)[i] = todo[i + 1] /\ i + 1 \in 1..Len(todo)
  <2>1. /\ o = todo[1] /\ o \in Object /\ Len(todo) \in Nat \ {0} /\ Len(Tail(todo)) = Len(todo) - 1
        /\ \A i \in 1..Len(todo) - 1 : Tail(todo)[i] = todo[i + 1] /\ i + 1 \in 1..Len(todo)
    BY <1>2, <1>4
  <2>2. 1 \in 1..Len(todo)
    BY <2>1
  <2> QED BY <1>1, <2>1, <2>2 DEF InPack, ToDo
<1>6. End(pack) \in Nat \ {0}
  BY <1>4 DEF IsPack
<1>7. e \in Entries /\ Formed(e) /\ e.loc = End(pack)
  <2> HIDE DEF o
  <2> QED BY <1>3, <1>5, <1>6, FullIs, DeltaEntryIs
<1>8. /\ Len(pack') = n + 1 /\ pack'[n + 1] = e
      /\ \A k \in 1..n : pack'[k] = pack[k]
  BY <1>3, <1>4, <1>7, PackGrows
<1> HIDE DEF o
<1>9. \/ e.type = Kind[o] /\ e.data = Content[o]
      \/ /\ n \in 1..n /\ Kind[w[n]] = Kind[o] /\ ~Panics(Content[w[n]], Content[o])
         /\ e.data = WriteDelta(Content[w[n]], Content[o])
         /\ \/ e.type = "ref" /\ e.ref = w[n]
            \/ e.type = "ofs" /\ e.back = Uvarint[End(pack) - pack[n].loc]
  <2> HIDE DEF n
  <2>1. n = Len(pack)
    BY DEF n
  <2> QED BY <1>1, <1>3, <1>5, <2>1, NextEntry
<1>10. HeldBy(w)'
  <2> SUFFICES ASSUME NEW k \in 1..n + 1 PROVE (IsWhole(w, k) \/ IsAgainst(w, k))'
    BY <1>8 DEF HeldBy
  <2>1. CASE k \in 1..n
    <3>1. IsWhole(w, k) \/ IsAgainst(w, k)
      BY <1>1, <2>1 DEF InPack, HeldBy
    <3>2. pack'[k] = pack[k]
      BY <1>8, <2>1
    <3>3. IsWhole(w, k) => IsWhole(w, k)'
      BY <3>2 DEF IsWhole
    <3>4. IsAgainst(w, k) => IsAgainst(w, k)'
      <4> SUFFICES ASSUME IsAgainst(w, k) PROVE IsAgainst(w, k)'
        OBVIOUS
      <4>1. k - 1 \in 1..n
        BY DEF IsAgainst
      <4>2. pack'[k - 1] = pack[k - 1] /\ k - 1 \in 1..Len(pack')
        BY <1>4, <1>8, <4>1
      <4> QED BY <3>2, <4>2 DEF IsAgainst
    <3> QED BY <3>1, <3>3, <3>4
  <2>2. CASE k = n + 1
    <3>1. pack'[k] = e /\ w[k] = o /\ k - 1 = n
      BY <1>4, <1>5, <1>8, <2>2
    <3>2. CASE e.type = Kind[o] /\ e.data = Content[o]
      BY <3>1, <3>2 DEF IsWhole
    <3>3. CASE ~(e.type = Kind[o] /\ e.data = Content[o])
      <4>1. pack'[n] = pack[n] /\ n \in 1..Len(pack')
        BY <1>4, <1>8, <1>9, <3>3
      <4>2. IsAgainst(w, k)'
        BY <1>7, <1>9, <3>1, <3>3, <4>1 DEF IsAgainst
      <4> QED BY <4>2
    <3> QED BY <3>2, <3>3
  <2> QED BY <1>4, <2>1, <2>2
<1>11. ToDo(w)'
  <2>1. n + Len(todo) = Len(w) /\ \A i \in 1..Len(todo) : todo[i] = w[n + i]
    BY <1>1 DEF InPack, ToDo
  <2>2. \A i \in 1..Len(todo) - 1 : Tail(todo)[i] = w[n + (i + 1)]
    BY <1>5, <2>1
  <2>3. Len(pack') + Len(todo') = Len(w)
    BY <1>2, <1>4, <1>5, <1>8, <2>1
  <2>4. \A i \in 1..Len(todo') : todo'[i] = w[Len(pack') + i]
    <3> SUFFICES ASSUME NEW i \in 1..Len(todo) - 1 PROVE Tail(todo)[i] = w[(n + 1) + i]
      BY <1>2, <1>5, <1>8
    <3>1. (n + 1) + i = n + (i + 1)
      BY <1>4, <1>5
    <3> QED BY <2>2, <3>1
  <2> QED BY <2>3, <2>4 DEF ToDo
<1>12. WindowHas(w)'
  <2>0. opts.window \in Nat /\ opts.window \in {0, 1}
    <3> DEFINE v == opts.window
    <3>1. v \in Window
      BY DEF Typed, OptionsAre, Options
    <3>2. Window \in SUBSET Nat
      BY PacksAssumption
    <3>3. v \in Nat /\ v <= 1
      BY <3>1, <3>2
    <3> HIDE DEF v
    <3>4. v \in {0, 1}
      BY <3>3
    <3> QED BY <3>3, <3>4 DEF v
  <2>1. LastItem(w)' = item
    BY <1>5, <1>7, <1>8 DEF LastItem
  <2>2. CASE opts.window = 0
    <3>1. window' = window /\ window = <<>>
      BY <1>1, <1>2, <1>4, <2>2 DEF Slide, InPack, WindowHas
    <3> QED BY <1>2, <2>2, <3>1 DEF WindowHas
  <2>3. CASE opts.window = 1 /\ n = 0
    <3>1. window' = Append(window, item) /\ window = <<>>
      BY <1>1, <1>2, <2>3 DEF Slide, InPack, WindowHas
    <3>2. window' = <<item>>
      BY <3>1
    <3> QED BY <1>2, <1>4, <1>8, <2>1, <2>3, <3>2 DEF WindowHas
  <2>4. CASE opts.window = 1 /\ n # 0
    <3>1. window' = [window EXCEPT ![(n % 1) + 1] = item] /\ window = <<LastItem(w)>>
      BY <1>1, <1>2, <1>4, <2>4 DEF Slide, InPack, WindowHas
    <3>2. (n % 1) + 1 = 1
      BY <1>4
    <3>3. window' = <<item>>
      BY <3>1, <3>2
    <3> QED BY <1>2, <1>4, <1>8, <2>1, <2>4, <3>3 DEF WindowHas
  <2> QED BY <2>0, <2>2, <2>3, <2>4
<1>13. InPack(w)'
  BY <1>1, <1>10, <1>11, <1>12 DEF InPack
<1> QED
  BY <1>13

\* Other steps leave the file as it is, and what is lost stays so.
LEMMA OthersLeave ==
  ASSUME Next, ~PackObject
  PROVE  UNCHANGED <<opts, todo, window, pack>> /\ lost \subseteq lost'
<1> SUFFICES ASSUME PackPanics \/ Open \/ ReadFull \/ WriteFails \/ ReadRef \/ ReadOfs \/ Cut \/ ReadTrailer
                    \/ NoBase \/ IndexDelta \/ UnpackDelta \/ SkipDelta \/ Finish
             PROVE  UNCHANGED <<opts, todo, window, pack>> /\ lost \subseteq lost'
  BY DEF Next
<1> QED
  BY DEF PackPanics, Open, ReadFull, WriteFails, ReadRef, ReadOfs, Cut, ReadTrailer, NoBase, IndexDelta, UnpackDelta,
         SkipDelta, Finish

\* Every step keeps what was asked for in the pack.
LEMMA NextPacked == Typed /\ Packed /\ Emptied /\ [Next]_vars => (Packed /\ Emptied)'
<1>1. ASSUME Packed, UNCHANGED <<opts, todo, window, pack>> PROVE Packed'
  <2>1. \A w : InPack(w) => InPack(w)'
    BY <1>1 DEF InPack, ToDo, HeldBy, IsWhole, IsAgainst, WindowHas, LastItem
  <2> QED BY <1>1, <2>1 DEF Packed
<1>2. ASSUME Typed, Packed, Next PROVE Packed'
  BY <1>1, <1>2, OthersLeave, PackObjectPacked
<1>3. ASSUME Emptied, Next PROVE Emptied'
  <2>1. CASE PackObject
    BY <2>1 DEF PackObject, Emptied
  <2>2. CASE Open
    BY <2>2 DEF Open, Emptied
  <2>3. CASE ReadTrailer
    BY <1>3, <2>3 DEF ReadTrailer, Emptied
  <2>4. CASE ReadFull \/ ReadRef \/ ReadOfs
    BY <1>3, <2>4 DEF ReadFull, ReadRef, ReadOfs, Emptied, Stop
  <2>5. CASE NoBase \/ IndexDelta \/ UnpackDelta \/ SkipDelta
    BY <1>3, <2>5 DEF NoBase, IndexDelta, UnpackDelta, SkipDelta, Emptied, Stop
  <2>6. CASE PackPanics \/ WriteFails \/ Cut \/ Finish
    BY <2>6 DEF PackPanics, WriteFails, Cut, Finish, Stop, Emptied
  <2> QED BY <1>3, <2>1, <2>2, <2>3, <2>4, <2>5, <2>6 DEF Next
<1>4. ASSUME Emptied, UNCHANGED vars PROVE Emptied'
  BY <1>4 DEF Emptied, vars
<1> QED
  BY <1>1, <1>2, <1>3, <1>4 DEF vars

\* An offset that is one part is read as it was written.
LEMMA OnePart ==
  ASSUME NEW n \in Nat, \A d \in Range(Uvarint[n]) : ~d.more
  PROVE  ReadDeltaOffset(Uvarint[n]) = n
<1>1. n < Group
  <2> SUFFICES ASSUME ~(n < Group) PROVE FALSE
    OBVIOUS
  <2> DEFINE q == n \div Group
             t == Uvarint[q]
             y == NextPart(n % Group)
             s == <<y>> \o t
  <2>1. Uvarint[n] = s
    BY UvarintIs
  <2>2. q \in Nat /\ n % Group \in Nat
    BY WidthAssumption
  <2>3. t \in Seq(Part)
    BY <2>2, UvarintIs
  <2>4. y \in Part /\ y.more
    BY <2>2, PartsAre
  <2> HIDE DEF y, t
  <2>5. s \in Seq(Part) /\ s[1] = y /\ 1 \in DOMAIN s
    BY <2>3, <2>4
  <2> HIDE DEF s
  <2>6. y \in Range(s)
    BY <2>5 DEF Range
  <2> QED BY <2>1, <2>4, <2>6
<1> DEFINE s == <<LastPart(n)>>
<1>2. Uvarint[n] = s
  BY <1>1, UvarintIs
<1>3. s \in Seq(Part) /\ Len(s) = 1 /\ ~s[1].more /\ s[1].digit = n
  BY PartsAre
<1> HIDE DEF s
<1>4. Ends(s)
  BY <1>3 DEF Ends
<1>5. Taken(s) = 1
  BY <1>3, <1>4, TakenIs
<1> QED
  BY <1>2, <1>3, <1>4, <1>5, DeltaOffsetIs

\* The calculator does not split copies of what is packed.
LEMMA ContentsFit ==
  ASSUME NEW a \in Object, NEW b \in Object, a # b
  PROVE  Short(Content[a]) /\ NoLong(Content[a], Content[b])
  BY CopyAssumption DEF Short, NoLong

\* What a delta of an object against another stands for.
LEMMA AgainstIs ==
  ASSUME NEW a \in Object, NEW b \in Object, a # b, Kind[a] = Kind[b], ~Panics(Content[a], Content[b]),
         NEW e, Formed(e), IsDelta(e), e.data = WriteDelta(Content[a], Content[b])
  PROVE  Applied(e, ObjectOf(a)) = ObjectOf(b)
<1> DEFINE src == Content[a]
           dst == Content[b]
           base == ObjectOf(a)
<1>1. src \in Seq(Nat) /\ dst \in Seq(Nat) /\ Short(src) /\ NoLong(src, dst)
  BY ContentsFit, KindsAre
<1>2. base \in Values /\ base.content = src /\ base.kind = Kind[a]
  BY ValuesAre DEF ObjectOf
<1>3. ReadAll(WriteDelta(src, dst), src) = dst /\ SizeIsRight(WriteDelta(src, dst), dst)
  <2> HIDE DEF src, dst
  <2>1. ~Panics(src, dst)
    BY DEF src, dst
  <2> QED BY <1>1, <2>1, DeltaRoundTrip
<1>4. Applied(e, base) = [base EXCEPT !.content = dst]
  <2>1. ReadAll(e.data, base.content) = dst
    BY <1>2, <1>3
  <2>2. SizeIsRight(e.data, dst)
    BY <1>3
  <2> HIDE DEF src, dst, base
  <2> QED BY <2>1, <2>2 DEF Applied, Made
<1>5. [base EXCEPT !.content = dst] = [kind |-> base.kind, content |-> dst]
  <2> HIDE DEF base, dst
  <2> QED BY <1>1, <1>2, WithContent
<1> QED
  BY <1>2, <1>4, <1>5 DEF ObjectOf

\* Every entry of such a pack stands for what it was written for.
LEMMA PackedMeans ==
  ASSUME IsPack(pack), NEW w \in Wanted, Len(w) = Len(pack), HeldBy(w),
         \A k \in 1..Len(pack) : \A d \in Range(pack[k].back) : ~d.more
  PROVE  \A k \in 1..Len(pack) : Meaning[k] = ObjectOf(w[k])
<1> DEFINE m == Meaning
           n == Len(pack)
           T == {k \in 0..n : k = 0 \/ m[k] = ObjectOf(w[k])}
<1>1. m \in [1..Len(pack) -> Maybe] /\ \A k \in 1..n : m[k] = StandsFor(pack, pack[k], m)
  BY MeaningStands
<1>2. n \in Nat
  BY DEF IsPack
<1>3. \A k \in 1..n : w[k] \in Object /\ Formed(pack[k])
  BY WantedIs DEF IsPack
<1> HIDE DEF m
<1>4. ASSUME NEW k \in 1..n, k - 1 \in T PROVE k \in T
  <2> DEFINE e == pack[k]
             b == w[k]
  <2>1. b \in Object /\ Formed(e) /\ m[k] = StandsFor(pack, e, m)
    BY <1>1, <1>3
  <2>2. CASE IsWhole(w, k)
    <3>1. e.type = Kind[b] /\ e.data = Content[b]
      BY <2>2 DEF IsWhole
    <3> HIDE DEF e, b
    <3>2. ~IsDelta(e)
      BY <2>1, <3>1, KindsAre DEF IsDelta
    <3>3. m[k] = Whole(e)
      BY <1>1, <2>1, <3>2, StandsForIs
    <3>4. m[k] = ObjectOf(b)
      BY <3>1, <3>3 DEF Whole, ObjectOf
    <3> QED BY <3>4 DEF b
  <2>3. CASE IsAgainst(w, k)
    <3> DEFINE j == k - 1
               a == w[j]
    <3>1. /\ j \in 1..n /\ Kind[a] = Kind[b] /\ ~Panics(Content[a], Content[b])
          /\ e.data = WriteDelta(Content[a], Content[b])
          /\ \/ e.type = "ref" /\ e.ref = a
             \/ e.type = "ofs" /\ e.back = Uvarint[e.loc - pack[j].loc]
      BY <2>3 DEF IsAgainst
    <3>2. a \in Object /\ a # b
      <4>1. j # k /\ j \in 1..Len(w) /\ k \in 1..Len(w)
        BY <1>2, <3>1
      <4> QED BY <1>3, <3>1, <4>1, WantedIs
    <3>3. m[j] = ObjectOf(a) /\ ObjectOf(a) \in Values
      <4>1. j # 0
        BY <3>1
      <4> QED BY <1>4, <3>2, <4>1, ValuesAre
    <3>4. IsDelta(e)
      BY <3>1, KindsAre DEF IsDelta
    <3>5. e.type = "ofs" => pack[j].loc = Before(e)
      <4> SUFFICES ASSUME e.type = "ofs" PROVE pack[j].loc = Before(e)
        OBVIOUS
      <4>1. e.back = Uvarint[e.loc - pack[j].loc] /\ \A d \in Range(e.back) : ~d.more
        BY <3>1
      <4>2. j < k /\ pack[j].loc \in Nat /\ e.loc \in Nat /\ pack[j].loc < e.loc
        BY <1>2, <1>3, <3>1 DEF IsPack, Formed
      <4> DEFINE d == e.loc - pack[j].loc
      <4>3. d \in Nat
        BY <4>2
      <4>4. e.loc - d = pack[j].loc
        BY <4>2
      <4> HIDE DEF d
      <4>5. ReadDeltaOffset(Uvarint[d]) = d
        BY <4>1, <4>3, OnePart DEF d
      <4>6. e.back = Uvarint[d]
        BY <4>1 DEF d
      <4> QED BY <4>4, <4>5, <4>6 DEF Before
    <3>6. Based(pack, e, m, j)
      <4>1. m[j] # Nothing
        BY <3>3, ValuesAre
      <4>2. e.type = "ref" => IdOf(m[j]) = e.ref
        BY <3>1, <3>2, <3>3, IdsAre
      <4> QED BY <3>1, <3>5, <4>1, <4>2 DEF Based
    <3> HIDE DEF e, j, a, b
    <3>7. m[k] = Applied(e, m[j])
      BY <1>1, <2>1, <3>4, <3>6, StandsForIs
    <3>8. Applied(e, ObjectOf(a)) = ObjectOf(b)
      BY <2>1, <3>1, <3>2, <3>4, AgainstIs
    <3> QED BY <3>3, <3>7, <3>8 DEF b
  <2> QED BY <2>2, <2>3 DEF HeldBy
<1>5. 0 \in T
  BY <1>2
<1>6. 0..n \subseteq T
  <2> HIDE DEF T
  <2> QED BY <1>2, <1>4, <1>5, StepInduction
<1> QED
  BY <1>2, <1>6 DEF m

\* A pack that this program writes with a window of one object at most, and
\* whose offsets are of one byte, has the objects that were asked for: what
\* longer offsets do to it is a matter of how they are written.
THEOREM PacksHoldObjects == Spec => []PackHoldsObjects
<1>1. ASSUME Typed, Packed, Emptied PROVE PackHoldsObjects
  <2> SUFFICES ASSUME opts.window <= 1, \A k \in 1..Len(pack) : \A d \in Range(pack[k].back) : ~d.more,
                      opts.own, phase \in {"read", "resolve"}
               PROVE  \E w \in Wanted : Len(w) = Len(pack) /\ \A k \in 1..Len(pack) : Meaning[k] = ObjectOf(w[k])
    BY DEF PackHoldsObjects, PackFaithful
  <2>1. PICK w : InPack(w)
    BY <1>1 DEF Packed
  <2>2. w \in Wanted /\ HeldBy(w) /\ Len(pack) + Len(todo) = Len(w) /\ todo = <<>>
    BY <1>1, <2>1 DEF InPack, ToDo, Emptied
  <2>3. IsPack(pack) /\ Len(pack) \in Nat
    BY <1>1 DEF Typed, IsPack
  <2>4. Len(w) = Len(pack)
    BY <2>2, <2>3
  <2> QED BY <2>2, <2>3, <2>4, PackedMeans
<1> QED
  BY <1>1, InitTyped, NextTyped, InitPacked, NextPacked, PTL DEF Spec

-----------------------------------------------------------------------------
(* What is read by following chains of deltas.                             *)

\* What is known at locations is what the entries there stand for.
KnownRight(known) == \A l \in DOMAIN known : \E k \in 1..Len(pack) : l = pack[k].loc /\ known[l] = Meaning[k]
\* The entry j is where the base of the entry k is looked for, and is it.
BaseAt(bases, k, j) == bases[pack[k].loc] = pack[j].loc /\ Based(pack, pack[k], Meaning, j)

\* An entry stands for what its base makes of it.
LEMMA BasedMeans ==
  ASSUME IsPack(pack), NEW k \in 1..Len(pack)
  PROVE  /\ Formed(pack[k]) /\ Meaning[k] \in Maybe
         /\ ~IsDelta(pack[k]) => Meaning[k] = Whole(pack[k]) /\ Whole(pack[k]) \in Values
         /\ \A j : IsDelta(pack[k]) /\ Based(pack, pack[k], Meaning, j) =>
                     /\ Meaning[k] = Applied(pack[k], Meaning[j]) /\ Meaning[j] \in Values /\ j \in 1..Len(pack)
                     /\ Meaning[k] # Nothing => Resolved(pack[k], Meaning[j]) = Meaning[k]
<1> DEFINE e == pack[k]
           m == Meaning
<1>1. Formed(e)
  BY DEF IsPack
<1>2. m \in [1..Len(pack) -> Maybe] /\ m[k] = StandsFor(pack, e, m)
  BY MeaningStands
<1> HIDE DEF e, m
<1>3. ~IsDelta(e) => m[k] = Whole(e) /\ Whole(e) \in Values
  BY <1>1, <1>2, StandsForIs
<1>4. ASSUME NEW j, IsDelta(e), Based(pack, e, m, j)
      PROVE  /\ m[k] = Applied(e, m[j]) /\ m[j] \in Values /\ j \in 1..Len(pack)
             /\ m[k] # Nothing => Resolved(e, m[j]) = m[k]
  <2>1. m[k] = Applied(e, m[j]) /\ m[j] \in Values
    BY <1>1, <1>2, <1>4, StandsForIs
  <2>2. m[k] # Nothing => Resolved(e, m[j]) = m[k]
    BY <1>1, <1>4, <2>1, AppliedIs
  <2>3. j \in 1..Len(pack)
    BY <1>4 DEF Based
  <2> QED BY <2>1, <2>2, <2>3
<1>5. m[k] \in Maybe
  BY <1>2
<1> QED
  BY <1>1, <1>3, <1>4, <1>5 DEF e, m

\* In one round: what is read of an entry, when at its base is read nothing or
\* what is right.
LEMMA ReadsRight ==
  ASSUME IsPack(pack), NEW known, KnownRight(known), NEW bases, NEW v \in [Locations -> Maybe],
         NEW k \in 1..Len(pack), Meaning[k] # Nothing
  PROVE  /\ pack[k].loc \in DOMAIN known \/ ~IsDelta(pack[k]) => Reads(v, known, bases, pack[k].loc) = Meaning[k]
         /\ pack[k].loc \notin DOMAIN known /\ IsDelta(pack[k]) =>
              /\ bases[pack[k].loc] \notin Locations => Reads(v, known, bases, pack[k].loc) = Nothing
              /\ \A j : BaseAt(bases, k, j) =>
                          /\ v[pack[j].loc] = Meaning[j] => Reads(v, known, bases, pack[k].loc) = Meaning[k]
                          /\ v[pack[j].loc] = Nothing => Reads(v, known, bases, pack[k].loc) = Nothing
<1> DEFINE l == pack[k].loc
           r == Reads(v, known, bases, l)
           e == pack[k]
<1>1. l \in Locations /\ EntryAt(l) = e /\ \A i \in 1..Len(pack) : pack[i].loc = l => i = k
  BY EntryAtIs
<1>2. CASE l \in DOMAIN known
  <2>1. PICK i \in 1..Len(pack) : l = pack[i].loc /\ known[l] = Meaning[i]
    BY <1>2 DEF KnownRight
  <2>2. i = k
    BY <1>1, <2>1
  <2>3. r = known[l]
    BY <1>2 DEF Reads
  <2> QED BY <1>2, <2>1, <2>2, <2>3
<1>3. CASE l \notin DOMAIN known
  <2> DEFINE b == At(v, bases[l])
  <2>1. r = Resolved(e, b)
    BY <1>1, <1>3 DEF Reads
  <2>2. b \in Maybe
    BY DEF At, Maybe
  <2>3. Formed(e)
    BY DEF IsPack
  <2> HIDE DEF r, b, e
  <2>4. ~IsDelta(e) => r = Meaning[k]
    <3>1. ~IsDelta(e) => Resolved(e, b) = Whole(e)
      BY <2>2, <2>3, ResolvedIs
    <3>2. ~IsDelta(e) => Meaning[k] = Whole(e)
      BY BasedMeans DEF e
    <3> QED BY <2>1, <3>1, <3>2
  <2>5. IsDelta(e) /\ b = Nothing => r = Nothing
    BY <2>1, <2>2, <2>3, ResolvedIs
  <2>6. bases[l] \notin Locations => b = Nothing
    BY DEF At, b
  <2>7. ASSUME NEW j, IsDelta(e), BaseAt(bases, k, j)
        PROVE  /\ v[pack[j].loc] = Meaning[j] => r = Meaning[k]
               /\ v[pack[j].loc] = Nothing => r = Nothing
    <3>1. Based(pack, e, Meaning, j) /\ bases[l] = pack[j].loc
      BY <2>7 DEF BaseAt, e
    <3>2. j \in 1..Len(pack) /\ Resolved(e, Meaning[j]) = Meaning[k]
      BY <2>7, <3>1, BasedMeans DEF e
    <3>3. b = v[pack[j].loc]
      BY <3>1, <3>2, EntryAtIs DEF At, b
    <3> QED BY <2>1, <2>5, <2>7, <3>2, <3>3
  <2> QED BY <1>3, <2>4, <2>5, <2>6, <2>7 DEF r, e
<1> QED
  BY <1>2, <1>3

\* What is known is a value or nothing.
LEMMA KnownTyped ==
  ASSUME IsPack(pack), NEW known, KnownRight(known)
  PROVE  \A l \in DOMAIN known : known[l] \in Maybe
<1> SUFFICES ASSUME NEW l \in DOMAIN known PROVE known[l] \in Maybe
  OBVIOUS
<1>1. PICK k \in 1..Len(pack) : l = pack[k].loc /\ known[l] = Meaning[k]
  BY DEF KnownRight
<1> QED
  BY <1>1, BasedMeans

\* A chain within entries that stand for something, each with its base where
\* it is looked for or none, is read rightly if at all.
LEMMA FollowSound ==
  ASSUME IsPack(pack), NEW known, KnownRight(known), NEW bases, NEW C \in SUBSET (1..Len(pack)),
         \A k \in C : Meaning[k] # Nothing,
         \A k \in C : IsDelta(pack[k]) => bases[pack[k].loc] \notin Locations \/ \E j \in C : BaseAt(bases, k, j)
  PROVE  \A k \in C : Follow(pack[k].loc, known, bases) \in {Nothing, Meaning[k]}
<1> DEFINE N == Len(pack)
<1>0. N \in Nat
  BY DEF IsPack
<1>1. PICK f : Rounds(f, known, bases) /\ \A i : Follow(i, known, bases) = At(f[N + 1], i)
  <2>1. \A l \in DOMAIN known : known[l] \in Maybe
    BY KnownTyped
  <2> QED BY <2>1, FollowIs
<1> DEFINE T == {n \in 0..N + 1 : \A k \in C : f[n][pack[k].loc] \in {Nothing, Meaning[k]}}
<1>2. \A k \in C : k \in 1..N /\ pack[k].loc \in Locations
  BY EntryAtIs
<1>3. 0 \in T
  <2> SUFFICES ASSUME NEW k \in C PROVE f[0][pack[k].loc] \in {Nothing, Meaning[k]}
    BY <1>0
  <2>1. f[0][pack[k].loc] = Starts(known, pack[k].loc)
    BY <1>1, <1>2 DEF Rounds
  <2>2. CASE pack[k].loc \in DOMAIN known
    <3>1. PICK i \in 1..N : pack[k].loc = pack[i].loc /\ known[pack[k].loc] = Meaning[i]
      BY <2>2 DEF KnownRight
    <3>2. i = k
      BY <1>2, <3>1, EntryAtIs
    <3> QED BY <2>1, <2>2, <3>1, <3>2 DEF Starts
  <2> QED BY <2>1, <2>2 DEF Starts
<1>4. ASSUME NEW n \in 1..N + 1, n - 1 \in T PROVE n \in T
  <2>0. n \in 0..N + 1
    BY <1>0
  <2> SUFFICES ASSUME NEW k \in C PROVE f[n][pack[k].loc] \in {Nothing, Meaning[k]}
    BY <2>0
  <2> DEFINE v == f[n - 1]
             l == pack[k].loc
  <2>1. v \in [Locations -> Maybe] /\ f[n][l] = Reads(v, known, bases, l)
    BY <1>1, <1>2 DEF Rounds
  <2>2. \A j \in C : v[pack[j].loc] = Nothing \/ v[pack[j].loc] = Meaning[j]
    BY <1>4
  <2> HIDE DEF v
  <2>3. k \in 1..Len(pack) /\ Meaning[k] # Nothing
    BY <1>2
  <2>4. CASE l \in DOMAIN known \/ ~IsDelta(pack[k])
    BY SMTT(30), <2>1, <2>3, <2>4, ReadsRight
  <2>5. CASE ~(l \in DOMAIN known \/ ~IsDelta(pack[k]))
    <3>1. CASE bases[l] \notin Locations
      BY <2>1, <2>3, <2>5, <3>1, ReadsRight
    <3>2. CASE \E j \in C : BaseAt(bases, k, j)
      <4>1. PICK j \in C : BaseAt(bases, k, j)
        BY <3>2
      <4>2. v[pack[j].loc] = Nothing \/ v[pack[j].loc] = Meaning[j]
        BY <2>2
      <4> QED BY <2>1, <2>3, <2>5, <4>1, <4>2, ReadsRight
    <3> QED BY <2>5, <3>1, <3>2
  <2> QED BY <2>4, <2>5
<1>5. 0..N + 1 \subseteq T
  <2>1. N + 1 \in Nat
    BY <1>0
  <2> HIDE DEF T
  <2> QED BY <1>3, <1>4, <2>1, StepInduction
<1>6. N + 1 \in 0..N + 1
  BY <1>0
<1> QED
  BY <1>1, <1>2, <1>5, <1>6 DEF At

\* And is read, if each has its base where it is looked for and no other.
LEMMA FollowKnows ==
  ASSUME IsPack(pack), NEW known, KnownRight(known), NEW bases, NEW C \in SUBSET (1..Len(pack)),
         \A k \in C : Meaning[k] # Nothing,
         \A k \in C : IsDelta(pack[k]) =>
           \E j \in C : BaseAt(bases, k, j) /\ \A i : Based(pack, pack[k], Meaning, i) => i = j
  PROVE  \A k \in C : Follow(pack[k].loc, known, bases) = Meaning[k]
<1> DEFINE N == Len(pack)
<1>0. N \in Nat
  BY DEF IsPack
<1>1. PICK f : Rounds(f, known, bases) /\ \A i : Follow(i, known, bases) = At(f[N + 1], i)
  BY FollowIs, KnownTyped
<1>2. PICK g : /\ Learned(g, pack) /\ Meaning = g[N]
               /\ \A n \in 0..N : g[n] \in Partly(pack) /\ Below(g[n], Meaning)
  BY MeaningStands
<1>3. \A k \in C : k \in 1..N /\ pack[k].loc \in Locations
  BY EntryAtIs
<1> DEFINE T == {n \in 0..N : \A k \in C : g[n][k] # Nothing =>
                                \A m \in 0..N + 1 : n <= m => f[m][pack[k].loc] = Meaning[k]}
<1>4. 0 \in T
  BY <1>0, <1>2, <1>3 DEF Learned
<1>5. ASSUME NEW n \in 1..N, n - 1 \in T PROVE n \in T
  <2> SUFFICES ASSUME NEW k \in C, g[n][k] # Nothing, NEW m \in 0..N + 1, n <= m
               PROVE  f[m][pack[k].loc] = Meaning[k]
    BY <1>0
  <2> DEFINE v == f[m - 1]
             l == pack[k].loc
             a == g[n - 1]
             e == pack[k]
  <2>1. /\ m \in 1..N + 1 /\ m - 1 \in 0..N + 1 /\ n - 1 <= m - 1 /\ n - 1 \in 0..N
    BY <1>0, <1>5
  <2>2. v \in [Locations -> Maybe] /\ f[m][l] = Reads(v, known, bases, l)
    BY <1>1, <1>3, <2>1 DEF Rounds
  <2>3. \A j \in C : a[j] # Nothing => v[pack[j].loc] = Meaning[j]
    BY <1>5, <2>1
  <2>4. k \in 1..Len(pack) /\ Meaning[k] # Nothing
    BY <1>3
  <2>5. a \in [1..Len(pack) -> Maybe] /\ Below(a, Meaning) /\ g[n][k] = StandsFor(pack, e, a)
    BY <1>2, <2>1, <2>4 DEF Learned, Partly, Round
  <2> HIDE DEF v, a
  <2>6. CASE l \in DOMAIN known \/ ~IsDelta(e)
    BY <2>2, <2>4, <2>6, ReadsRight
  <2>7. CASE ~(l \in DOMAIN known \/ ~IsDelta(e))
    <3>1. Formed(e)
      BY <2>4 DEF IsPack
    <3>2. PICK i : Based(pack, e, a, i)
      <4> HIDE DEF e
      <4> QED BY <2>5, <2>7, <3>1, StandsForIs
    <3>3. a[i] = Meaning[i] /\ a[i] # Nothing
      BY <2>5, <3>2 DEF Based, Below
    <3>4. Based(pack, e, Meaning, i)
      BY <3>2, <3>3 DEF Based
    <3>5. PICK j \in C : BaseAt(bases, k, j) /\ \A h : Based(pack, e, Meaning, h) => h = j
      BY <2>7
    <3>6. i = j
      BY <3>4, <3>5
    <3>7. v[pack[j].loc] = Meaning[j]
      BY <2>3, <3>3, <3>6
    <3> QED BY <2>2, <2>4, <2>7, <3>5, <3>7, ReadsRight
  <2> QED BY <2>6, <2>7
<1>6. 0..N \subseteq T
  <2> HIDE DEF T
  <2> QED BY <1>0, <1>4, <1>5, StepInduction
<1>7. ASSUME NEW k \in C PROVE Follow(pack[k].loc, known, bases) = Meaning[k]
  <2>1. N \in T /\ N <= N + 1 /\ N + 1 \in 0..N + 1
    BY <1>0, <1>6
  <2>2. g[N][k] # Nothing
    BY <1>2
  <2>3. f[N + 1][pack[k].loc] = Meaning[k]
    BY <2>1, <2>2
  <2> QED BY <1>1, <1>3, <2>3 DEF At
<1> QED
  BY <1>7

\* The way of a chain stays in a set of locations that the bases of what is
\* there are in, or nowhere.
LEMMA ChainStays ==
  ASSUME Len(pack) \in Nat, NEW L \in SUBSET Locations, NEW loc, loc \in L \/ loc \notin Locations,
         \A l \in L : IsDelta(EntryAt(l)) => BaseOf(EntryAt(l)) \in L \/ BaseOf(EntryAt(l)) \notin Locations
  PROVE  Chain(loc) \subseteq L
<1> DEFINE n == Len(pack)
           Unread(l) == l \in Locations \ DOMAIN cache /\ IsDelta(EntryAt(l))
           S == {loc} \cup Locations \cup {BaseOf(EntryAt(l)) : l \in Locations}
           Q == (1..n) \X S
           G(v) == IF Unread(v) THEN BaseOf(EntryAt(v)) ELSE v
           g == [q \in Q |-> G(q[2])]
           P(f) == f = [i \in 0..Len(pack) |->
                          IF i = 0 THEN loc ELSE IF Unread(f[i - 1]) THEN BaseOf(EntryAt(f[i - 1])) ELSE f[i - 1]]
           f == CHOOSE h : P(h)
<1>1. \A v \in S : G(v) \in S
  OBVIOUS
<1>2. loc \in S
  OBVIOUS
<1>3. g \in [Q -> S]
  BY <1>1
<1> HIDE DEF S, G, n
<1>4. PICK h \in [0..n -> S] : Stepwise(h, n, loc, g)
  <2>1. Q = (1..n) \X S /\ n \in Nat
    BY DEF n
  <2> HIDE DEF Q, g
  <2> QED BY <1>2, <1>3, <2>1, StepRecursion
<1>5. \A i \in 0..n : h[i] = IF i = 0 THEN loc ELSE G(h[i - 1])
  <2> SUFFICES ASSUME NEW i \in 0..n PROVE h[i] = IF i = 0 THEN loc ELSE G(h[i - 1])
    OBVIOUS
  <2>1. i # 0 => i \in 1..n /\ i - 1 \in 0..n /\ h[i - 1] \in S
    BY DEF n
  <2> QED BY <1>4, <2>1 DEF Stepwise
<1>6. P(h)
  <2> HIDE DEF Unread
  <2> QED BY <1>5 DEF n, G
<1>7. P(f)
  <2> HIDE DEF P
  <2> QED BY <1>6
<1>8. Chain(loc) = {l \in {f[i] : i \in 0..Len(pack)} : Unread(l)}
  BY DEF Chain
<1> HIDE DEF f
<1>9. \A i \in 0..n : f[i] = IF i = 0 THEN loc ELSE G(f[i - 1])
  <2> HIDE DEF Unread
  <2> QED BY <1>7 DEF n, G
<1> HIDE DEF P
<1>10. 0..n \subseteq {i \in 0..n : f[i] \in L \/ f[i] \notin Locations}
  <2> DEFINE T == {i \in 0..n : f[i] \in L \/ f[i] \notin Locations}
  <2>1. 0 \in T
    BY <1>9 DEF n
  <2>2. ASSUME NEW k \in 1..n, k - 1 \in T PROVE k \in T
    <3>1. k \in 0..n /\ k # 0
      BY DEF n
    <3>2. f[k] = G(f[k - 1]) /\ (f[k - 1] \in L \/ f[k - 1] \notin Locations)
      BY <1>9, <2>2, <3>1
    <3>3. f[k] \in L \/ f[k] \notin Locations
      BY <3>2 DEF G
    <3> QED BY <3>1, <3>3
  <2>3. n \in Nat
    BY DEF n
  <2> HIDE DEF T
  <2>4. 0..n \subseteq T
    BY <2>1, <2>2, <2>3, StepInduction
  <2> QED BY <2>4 DEF T
<1> QED
  BY <1>8, <1>10 DEF n

-----------------------------------------------------------------------------
(* What a reader knows is right.                                           *)

\* Deltas without a meaning are met by index-pack, which stops there; what
\* unpack-objects stores of a pack that has some is not asked about.
Sound == opts.use = "index" \/ Nothing \notin Range(Meaning)

\* What was read and does not wait.
Settled == {k \in 1..read : k \notin Range(deltas)}

\* Deltas wait in the order of the file.
InOrder ==
  /\ \A i, j \in 1..Len(deltas) : i < j => deltas[i] < deltas[j]
  /\ \A k \in Settled : IsDelta(pack[k]) => phase \notin {"pack", "read"} /\ \A d \in Range(deltas) : k < d

\* The bases of what was read, by location, come before it, and those by hash
\* are asked for.
BasesRead ==
  \A k \in 1..read : /\ pack[k].type = "ofs" => \E j \in 1..k - 1 : pack[j].loc = Before(pack[k])
                     /\ pack[k].type = "ref" => pack[k].ref \in DOMAIN prior

\* Locations are known of what is settled, and that is what is stored, or lost
\* and then no base.
PriorRight ==
  /\ \A h \in DOMAIN prior : prior[h] # 0 => \E k \in Settled : prior[h] = pack[k].loc /\ IdOf(Meaning[k]) = h
  /\ ~opts.recover =>
       \A k \in Settled : /\ lost = {} => IdOf(Meaning[k]) \in DOMAIN prior /\ prior[IdOf(Meaning[k])] # 0
                          /\ pack[k].type = "ref" => prior[pack[k].ref] # 0
StoredRight ==
  opts.use = "unpack" => /\ stored \subseteq {Meaning[k] : k \in Settled}
                         /\ ~opts.recover => stored \cup lost = {Meaning[k] : k \in Settled}
AllKnown == \A k \in Settled : Meaning[k] # Nothing
Right == AllKnown /\ PriorRight /\ StoredRight /\ KnownRight(cache)

\* How it ends well.
EndsWell == (outcome = "ok" => read = Len(pack) /\ deltas = <<>>) /\ (failed => opts.recover)

Reader == InOrder /\ BasesRead /\ EndsWell /\ (Sound => Right)

\* What Meaning is after a step that leaves the file.
LEMMA MeaningStays ==
  ASSUME UNCHANGED pack
  PROVE  /\ Meaning' = Meaning /\ Locations' = Locations /\ \A l : EntryAt(l)' = EntryAt(l)
  BY DEF Meaning, Locations, EntryAt

\* A reader starts so.
LEMMA InitReader == Init => Reader
<1> SUFFICES ASSUME Init PROVE Reader
  OBVIOUS
<1> USE DEF Init
<1>1. Settled = {} /\ Len(deltas) = 0
  BY DEF Settled
<1>2. InOrder /\ BasesRead /\ EndsWell
  BY <1>1 DEF InOrder, BasesRead, EndsWell
<1>3. Right
  BY <1>1 DEF Right, AllKnown, PriorRight, StoredRight, KnownRight
<1> QED
  BY <1>2, <1>3 DEF Reader

\* And stays so while the pack is written.
LEMMA PackObjectReader == Typed /\ Reader /\ PackObject => Reader'
<1> SUFFICES ASSUME Typed, Reader, PackObject PROVE Reader'
  OBVIOUS
<1>1. phase = "pack" /\ UNCHANGED <<opts, phase, outcome, read, deltas, prior, cache, failed, stored, lost>>
  BY DEF PackObject
<1>2. read = 0 /\ deltas = <<>> /\ prior = <<>> /\ cache = <<>> /\ stored = {} /\ lost = {}
  BY <1>1 DEF Typed, Fresh
<1>3. Settled' = {} /\ Len(deltas) = 0
  BY <1>1, <1>2 DEF Settled
<1>4. InOrder' /\ BasesRead'
  BY <1>1, <1>2, <1>3 DEF InOrder, BasesRead
<1>5. EndsWell'
  BY <1>1 DEF EndsWell, Reader, Typed, TypeOK
<1>6. Right'
  BY <1>1, <1>2, <1>3 DEF Right, AllKnown, PriorRight, StoredRight, KnownRight
<1> QED
  BY <1>4, <1>5, <1>6 DEF Reader

\* Where the base of an entry is looked for, settled or first in the queue.
LEMMA BaseSettled ==
  ASSUME Typed, InOrder, BasesRead, AllKnown, PriorRight, NEW k \in 1..read, IsDelta(pack[k]),
         \A d \in Range(deltas) : k <= d
  PROVE  \/ BaseOf(pack[k]) \notin Locations
         \/ \E j \in Settled : BaseOf(pack[k]) = pack[j].loc /\ Based(pack, pack[k], Meaning, j)
<1>1. IsPack(pack) /\ Len(pack) \in Nat /\ read \in 0..Len(pack) /\ Queued
  BY TypedGives
<1>2. k \in 1..Len(pack) /\ Formed(pack[k])
  BY <1>1 DEF IsPack
<1>3. CASE pack[k].type = "ofs"
  <2>1. PICK j \in 1..k - 1 : pack[j].loc = Before(pack[k])
    BY <1>3 DEF BasesRead
  <2>2. j < k /\ j \in 1..read /\ j \in 1..Len(pack)
    BY <1>1, <2>1
  <2>3. j \notin Range(deltas)
    BY <2>2
  <2>4. j \in Settled /\ Meaning[j] # Nothing
    BY <2>2, <2>3 DEF Settled, AllKnown
  <2> QED BY <1>3, <2>1, <2>2, <2>4 DEF BaseOf, Based
<1>4. CASE pack[k].type = "ref"
  <2>1. pack[k].ref \in DOMAIN prior /\ BaseOf(pack[k]) = prior[pack[k].ref]
    BY <1>4 DEF BasesRead, BaseOf
  <2>2. CASE prior[pack[k].ref] = 0
    BY <1>1, <2>1, <2>2, EntryAtIs
  <2>3. CASE prior[pack[k].ref] # 0
    <3>1. PICK j \in Settled : prior[pack[k].ref] = pack[j].loc /\ IdOf(Meaning[j]) = pack[k].ref
      BY <2>1, <2>3 DEF PriorRight
    <3>2. j \in 1..Len(pack) /\ Meaning[j] # Nothing
      BY <1>1 DEF Settled, AllKnown
    <3> QED BY <1>4, <2>1, <3>1, <3>2 DEF Based
  <2> QED BY <2>2, <2>3
<1> QED
  BY <1>2, <1>3, <1>4, DeltaTypes

\* What is settled after an entry more is read.
LEMMA SettledMore ==
  ASSUME Typed, phase = "read", read < Len(pack), read' = read + 1
  PROVE  /\ deltas' = deltas => Settled' = Settled \cup {read + 1}
         /\ deltas' = Append(deltas, read + 1) => Settled' = Settled /\ Range(deltas') = Range(deltas) \cup {read + 1}
<1>1. Queued /\ read \in Nat
  BY TypedGives
<1>2. Range(deltas) \subseteq 1..read
  BY <1>1 DEF Queued
<1>3. ASSUME deltas' = deltas PROVE Settled' = Settled \cup {read + 1}
  BY <1>1, <1>2, <1>3 DEF Settled, Range
<1>4. ASSUME deltas' = Append(deltas, read + 1)
      PROVE  Settled' = Settled /\ Range(deltas') = Range(deltas) \cup {read + 1}
  <2>1. Range(deltas') = Range(deltas) \cup {read + 1}
    BY <1>1, <1>4, QueueMore
  <2> QED BY <1>1, <2>1 DEF Settled
<1> QED
  BY <1>3, <1>4

\* No delta is settled while entries are read.
LEMMA NoneSettled ==
  ASSUME phase = "read", InOrder
  PROVE  \A k \in Settled : ~IsDelta(pack[k])
  BY DEF InOrder

\* A whole entry is read.
LEMMA ReadFullReader == Typed /\ Reader /\ ReadFull => Reader'
<1> SUFFICES ASSUME Typed, Reader, ReadFull PROVE Reader'
  OBVIOUS
<1> DEFINE v == Whole(This)
           id == IdOf(v)
           r == read + 1
<1>1. /\ phase = "read" /\ read < Len(pack) /\ This.type \in Kinds
      /\ prior' = Placed(id, This.loc) /\ read' = r
      /\ opts.use = "unpack" => stored' = stored \cup {v}
      /\ UNCHANGED <<opts, phase, outcome, todo, window, pack, deltas, cache, failed, lost>>
  BY DEF ReadFull, Reading, This, Whole, Typed, OptionsAre, Options
<1>2. IsPack(pack) /\ Len(pack) \in Nat /\ read \in Nat /\ Queued /\ r \in 1..Len(pack)
  BY <1>1, TypedGives
<1>3. Settled' = Settled \cup {r}
  BY <1>1, SettledMore
<1>4. This = pack[r] /\ ~IsDelta(pack[r]) /\ Meaning[r] = v /\ v \in Values /\ This.loc \in Nat \ {0}
  <2>1. This = pack[r] /\ ~IsDelta(pack[r])
    BY <1>1 DEF This, IsDelta
  <2>2. This.loc \in Nat \ {0}
    BY <1>2, <2>1 DEF IsPack, Formed
  <2> HIDE DEF r
  <2> QED BY <1>2, <2>1, <2>2, BasedMeans
<1>5. DOMAIN prior' = DOMAIN prior \cup {id} /\ prior'[id] = This.loc
  BY <1>1, PlacedIs
<1>6. \A h \in DOMAIN prior : h # id => prior'[h] = prior[h]
  BY <1>1, PlacedAt
<1>7. Meaning' = Meaning
  BY <1>1, MeaningStays
<1> HIDE DEF v, id
<1>8. InOrder'
  <2>1. \A k \in Settled' : ~IsDelta(pack[k])
    BY <1>1, <1>3, <1>4, NoneSettled DEF Reader
  <2>2. \A i, j \in 1..Len(deltas) : i < j => deltas[i] < deltas[j]
    BY DEF Reader, InOrder
  <2> QED BY <1>1, <2>1, <2>2 DEF InOrder
<1>9. BasesRead'
  <2> SUFFICES ASSUME NEW k \in 1..r
               PROVE  /\ pack[k].type = "ofs" => \E j \in 1..k - 1 : pack[j].loc = Before(pack[k])
                      /\ pack[k].type = "ref" => pack[k].ref \in DOMAIN prior'
    BY <1>1 DEF BasesRead
  <2>1. CASE k \in 1..read
    BY <1>5, <2>1 DEF Reader, BasesRead
  <2>2. CASE k = r
    BY <1>1, <1>4, <2>2, KindsAre
  <2> QED BY <1>2, <2>1, <2>2
<1>10. EndsWell'
  BY <1>1 DEF EndsWell, Reader, Typed, TypeOK
<1>11. ASSUME Sound, Right PROVE Right'
  <2>1. AllKnown'
    <3>1. Meaning[r] # Nothing
      BY <1>4, ValuesAre
    <3> QED BY <1>3, <1>7, <1>11, <3>1 DEF Right, AllKnown
  <2>2. PriorRight'
    <3>1. ASSUME NEW h \in DOMAIN prior', prior'[h] # 0
          PROVE  \E k \in Settled' : prior'[h] = pack[k].loc /\ IdOf(Meaning[k]) = h
      <4>1. CASE h = id
        BY <1>3, <1>4, <1>5, <4>1 DEF id
      <4>2. CASE h # id
        <5>1. h \in DOMAIN prior /\ prior'[h] = prior[h]
          BY <1>5, <1>6, <4>2
        <5> QED BY <1>3, <1>11, <3>1, <5>1 DEF Right, PriorRight
      <4> QED BY <4>1, <4>2
    <3>2. \A h \in DOMAIN prior : prior[h] # 0 => prior'[h] # 0
      BY <1>4, <1>5, <1>6
    <3>3. ASSUME NEW k \in Settled', ~opts.recover
          PROVE  /\ lost' = {} => IdOf(Meaning[k]) \in DOMAIN prior' /\ prior'[IdOf(Meaning[k])] # 0
                 /\ pack[k].type = "ref" => prior'[pack[k].ref] # 0
      <4>1. CASE k = r
        <5>1. IdOf(Meaning[k]) = id
          BY <1>4, <4>1 DEF id
        <5>2. pack[k].type # "ref"
          BY <1>1, <1>4, <4>1, KindsAre
        <5> QED BY <1>4, <1>5, <5>1, <5>2
      <4>2. CASE k \in Settled
        <5>1. /\ lost' = {} => IdOf(Meaning[k]) \in DOMAIN prior /\ prior[IdOf(Meaning[k])] # 0
              /\ pack[k].type = "ref" => prior[pack[k].ref] # 0 /\ pack[k].ref \in DOMAIN prior
          BY <1>1, <1>11, <3>3, <4>2 DEF Right, PriorRight, Reader, BasesRead, Settled
        <5> QED BY <1>5, <3>2, <5>1
      <4> QED BY <1>3, <4>1, <4>2
    <3> QED BY <1>1, <1>7, <3>1, <3>3 DEF PriorRight
  <2>3. StoredRight'
    BY <1>1, <1>3, <1>4, <1>7, <1>11 DEF Right, StoredRight
  <2>4. KnownRight(cache)'
    BY <1>1, <1>7, <1>11 DEF Right, KnownRight
  <2> QED BY <2>1, <2>2, <2>3, <2>4 DEF Right
<1>12. Sound' => Sound
  BY <1>1, <1>7 DEF Sound, Range
<1> QED
  BY <1>8, <1>9, <1>10, <1>11, <1>12 DEF Reader

\* A delta is read.
LEMMA ReadDeltaReader ==
  ASSUME Typed, Reader, phase = "read", read < Len(pack), IsDelta(This),
         read' = read + 1, deltas' = Append(deltas, read + 1),
         UNCHANGED <<opts, phase, outcome, todo, window, pack, cache, failed, stored, lost>>,
         This.type = "ofs" => \E k \in 1..read : pack[k].loc = Before(This),
         DOMAIN prior \subseteq DOMAIN prior', This.type = "ref" => This.ref \in DOMAIN prior',
         \A h \in DOMAIN prior : prior'[h] = prior[h],
         \A h \in DOMAIN prior' : h \notin DOMAIN prior => prior'[h] = 0
  PROVE  Reader'
<1> DEFINE r == read + 1
<1>1. IsPack(pack) /\ Len(pack) \in Nat /\ read \in Nat /\ Queued /\ r \in 1..Len(pack)
  BY TypedGives
<1>2. Settled' = Settled /\ Range(deltas') = Range(deltas) \cup {r}
  BY SettledMore
<1>3. Meaning' = Meaning
  BY MeaningStays
<1>4. InOrder'
  <2>1. \A k \in Settled' : ~IsDelta(pack[k])
    BY <1>2, NoneSettled DEF Reader
  <2>2. deltas \in Seq(Nat) /\ Range(deltas) \subseteq 1..read
    BY <1>1 DEF Queued, DeltasAre
  <2>3. \A i \in 1..Len(deltas) : deltas[i] \in 1..read
    BY <2>2 DEF Range
  <2>4. \A i, j \in 1..Len(deltas) : i < j => deltas[i] < deltas[j]
    BY DEF Reader, InOrder
  <2>5. Len(deltas') = Len(deltas) + 1 /\ deltas'[Len(deltas) + 1] = r /\ Len(deltas) \in Nat
        /\ \A i \in 1..Len(deltas) : deltas'[i] = deltas[i]
    BY <2>2
  <2>6. ASSUME NEW i \in 1..Len(deltas'), NEW j \in 1..Len(deltas'), i < j PROVE deltas'[i] < deltas'[j]
    <3>1. i \in 1..Len(deltas) /\ deltas'[i] = deltas[i]
      BY <2>5, <2>6
    <3>2. CASE j \in 1..Len(deltas)
      BY <2>4, <2>5, <2>6, <3>1, <3>2
    <3>3. CASE j = Len(deltas) + 1
      <4>1. deltas[i] \in 1..read
        BY <2>3, <3>1
      <4> QED BY <1>1, <2>5, <3>1, <3>3, <4>1
    <3> QED BY <2>5, <3>2, <3>3
  <2> QED BY <2>1, <2>6 DEF InOrder
<1>5. BasesRead'
  <2> SUFFICES ASSUME NEW k \in 1..r
               PROVE  /\ pack[k].type = "ofs" => \E j \in 1..k - 1 : pack[j].loc = Before(pack[k])
                      /\ pack[k].type = "ref" => pack[k].ref \in DOMAIN prior'
    BY DEF BasesRead
  <2>1. CASE k \in 1..read
    BY <2>1 DEF Reader, BasesRead
  <2>2. CASE k = r
    <3>1. pack[k] = This /\ k - 1 = read
      BY <1>1, <2>2 DEF This
    <3> QED BY <3>1
  <2> QED BY <1>1, <2>1, <2>2
<1>6. EndsWell'
  BY DEF EndsWell, Reader, Typed, TypeOK
<1>7. ASSUME Right PROVE Right'
  <2>1. AllKnown' /\ StoredRight' /\ KnownRight(cache)'
    BY <1>2, <1>3, <1>7 DEF Right, AllKnown, StoredRight, KnownRight
  <2>2. PriorRight'
    <3>1. ASSUME NEW h \in DOMAIN prior', prior'[h] # 0
          PROVE  \E k \in Settled : prior'[h] = pack[k].loc /\ IdOf(Meaning[k]) = h
      <4>1. h \in DOMAIN prior /\ prior'[h] = prior[h]
        BY <3>1
      <4> QED BY <1>7, <3>1, <4>1 DEF Right, PriorRight
    <3>2. ASSUME NEW k \in Settled, ~opts.recover
          PROVE  /\ lost' = {} => IdOf(Meaning[k]) \in DOMAIN prior' /\ prior'[IdOf(Meaning[k])] # 0
                 /\ pack[k].type = "ref" => prior'[pack[k].ref] # 0
      <4>1. /\ lost' = {} => IdOf(Meaning[k]) \in DOMAIN prior /\ prior[IdOf(Meaning[k])] # 0
            /\ pack[k].type = "ref" => prior[pack[k].ref] # 0 /\ pack[k].ref \in DOMAIN prior
        BY <1>7, <3>2 DEF Right, PriorRight, Reader, BasesRead, Settled
      <4> QED BY <4>1
    <3> QED BY <1>2, <1>3, <3>1, <3>2 DEF PriorRight
  <2> QED BY <2>1, <2>2 DEF Right
<1>8. Sound' => Sound
  BY <1>3 DEF Sound, Range
<1> QED
  BY <1>4, <1>5, <1>6, <1>7, <1>8 DEF Reader

\* Steps that leave what was read as it is.
LEMMA LeavesReader ==
  ASSUME Reader, UNCHANGED <<opts, pack, read, deltas, prior, cache, failed, stored, lost>>,
         phase' \in {"pack", "read"} => phase \in {"pack", "read"},
         outcome' = "ok" => read = Len(pack) /\ deltas = <<>>
  PROVE  Reader'
<1>1. Settled' = Settled /\ Meaning' = Meaning
  BY MeaningStays DEF Settled, Range
<1>2. InOrder'
  BY <1>1 DEF Reader, InOrder, Range
<1>3. BasesRead' /\ EndsWell'
  BY DEF Reader, BasesRead, EndsWell
<1>4. Right => Right'
  BY <1>1 DEF Right, AllKnown, PriorRight, StoredRight, KnownRight
<1>5. Sound' => Sound
  BY <1>1 DEF Sound, Range
<1> QED
  BY <1>2, <1>3, <1>4, <1>5 DEF Reader

\* The steps that read a delta, and those from one part of the work to the next.
LEMMA ReadingReader ==
  Typed /\ Reader /\ (ReadRef \/ ReadOfs \/ PackPanics \/ Open \/ Cut \/ WriteFails \/ ReadTrailer
                      \/ Finish) => Reader'
<1>1. ASSUME Typed, Reader, ReadRef PROVE Reader'
  <2>1. /\ phase = "read" /\ read < Len(pack) /\ This.type = "ref"
        /\ prior' = [h \in DOMAIN prior \cup {This.ref} |-> IF h \in DOMAIN prior THEN prior[h] ELSE 0]
        /\ read' = read + 1 /\ deltas' = Append(deltas, read + 1)
        /\ UNCHANGED <<opts, phase, outcome, todo, window, pack, cache, failed, stored, lost>>
    BY <1>1 DEF ReadRef, Reading, This
  <2>2. IsDelta(This)
    BY <2>1, KindsAre DEF IsDelta
  <2>3. /\ DOMAIN prior \subseteq DOMAIN prior' /\ This.ref \in DOMAIN prior'
        /\ \A h \in DOMAIN prior : prior'[h] = prior[h]
        /\ \A h \in DOMAIN prior' : h \notin DOMAIN prior => prior'[h] = 0
    BY <2>1
  <2>4. This.type = "ofs" => \E k \in 1..read : pack[k].loc = Before(This)
    BY <2>1
  <2> QED BY <1>1, <2>1, <2>2, <2>3, <2>4, ReadDeltaReader
<1>2. ASSUME Typed, Reader, ReadOfs PROVE Reader'
  <2>1. /\ phase = "read" /\ read < Len(pack) /\ This.type = "ofs"
        /\ \/ /\ \E k \in 1..read : pack[k].loc = Before(This)
              /\ deltas' = Append(deltas, read + 1) /\ read' = read + 1 /\ UNCHANGED <<phase, outcome>>
           \/ phase' = "done" /\ outcome' = "panic" /\ UNCHANGED <<deltas, read>>
        /\ UNCHANGED <<opts, todo, window, pack, prior, cache, failed, stored, lost>>
    BY <1>2 DEF ReadOfs, Reading, This, Stop
  <2>2. IsDelta(This)
    BY <2>1, KindsAre DEF IsDelta
  <2>3. CASE UNCHANGED <<phase, outcome>> /\ deltas' = Append(deltas, read + 1) /\ read' = read + 1
    <3>1. \E k \in 1..read : pack[k].loc = Before(This)
      BY <2>1, <2>3
    <3>2. This.type = "ref" => This.ref \in DOMAIN prior'
      BY <2>1
    <3> QED BY <1>2, <2>1, <2>2, <2>3, <3>1, <3>2, ReadDeltaReader
  <2>4. CASE phase' = "done" /\ outcome' = "panic" /\ UNCHANGED <<deltas, read>>
    BY <1>2, <2>1, <2>4, LeavesReader
  <2> QED BY <2>1, <2>3, <2>4
<1>3. ASSUME Typed, Reader, PackPanics \/ Open \/ Cut \/ WriteFails \/ ReadTrailer \/ Finish PROVE Reader'
  <2>1. /\ UNCHANGED <<opts, pack, read, deltas, prior, cache, failed, stored, lost>>
        /\ phase' \in {"pack", "read"} => phase \in {"pack", "read"}
        /\ outcome' = "ok" => outcome = "ok" \/ (phase = "resolve" /\ deltas = <<>>)
    BY <1>3 DEF PackPanics, Open, Cut, WriteFails, Reading, ReadTrailer, Finish, Stop
  <2>2. outcome' = "ok" => read = Len(pack) /\ deltas = <<>>
    BY <1>3, <2>1 DEF Reader, EndsWell, Typed, AllRead
  <2> QED BY <1>3, <2>1, <2>2, LeavesReader
<1> QED
  BY <1>1, <1>2, <1>3

\* What is known of prior locations and of the queue, together.
Knowing == InOrder /\ BasesRead /\ AllKnown /\ PriorRight /\ KnownRight(cache)
BasesNow == [l \in Locations |-> BaseOf(EntryAt(l))]

\* Entries that stand for something, all that is settled among them, and that
\* no delta waits before.
Closed(C) ==
  /\ C \subseteq 1..read /\ Settled \subseteq C
  /\ \A k \in C : Meaning[k] # Nothing
  /\ \A k \in C : IsDelta(pack[k]) => \A d \in Range(deltas) : k <= d

\* The base of each delta of those is one of them, or nowhere in the file.
LEMMA ClosedBases ==
  ASSUME Typed, Knowing, NEW C, Closed(C)
  PROVE  /\ C \in SUBSET (1..Len(pack))
         /\ \A k \in C : IsDelta(pack[k]) => BasesNow[pack[k].loc] \notin Locations \/ \E j \in C : BaseAt(BasesNow, k, j)
<1>1. IsPack(pack) /\ Len(pack) \in Nat /\ read \in 0..Len(pack)
  BY TypedGives
<1>2. C \in SUBSET (1..Len(pack))
  BY <1>1 DEF Closed
<1>3. ASSUME NEW k \in C, IsDelta(pack[k])
      PROVE  BasesNow[pack[k].loc] \notin Locations \/ \E j \in C : BaseAt(BasesNow, k, j)
  <2>1. BasesNow[pack[k].loc] = BaseOf(pack[k])
    BY <1>1, <1>2, EntryAtIs DEF BasesNow
  <2>2. \/ BaseOf(pack[k]) \notin Locations
        \/ \E j \in Settled : BaseOf(pack[k]) = pack[j].loc /\ Based(pack, pack[k], Meaning, j)
    BY <1>3, BaseSettled DEF Knowing, Closed
  <2> QED BY <2>1, <2>2 DEF BaseAt, Closed
<1> QED
  BY <1>2, <1>3

\* What is read of them.
LEMMA ClosedReads ==
  ASSUME Typed, Knowing, NEW C, Closed(C)
  PROVE  /\ \A k \in C : ValueAt(pack[k].loc) \in {Nothing, Meaning[k]}
         /\ \A l : l \notin Locations => ValueAt(l) = Nothing
<1>1. \A l : ValueAt(l) = Follow(l, cache, BasesNow)
  BY DEF ValueAt, BasesNow
<1>2. IsPack(pack) /\ KnownRight(cache)
  BY DEF Typed, Knowing
<1>3. \A k \in C : Follow(pack[k].loc, cache, BasesNow) \in {Nothing, Meaning[k]}
  <2> DEFINE bases == BasesNow
  <2>1. /\ C \in SUBSET (1..Len(pack)) /\ \A k \in C : Meaning[k] # Nothing
        /\ \A k \in C : IsDelta(pack[k]) => bases[pack[k].loc] \notin Locations \/ \E j \in C : BaseAt(bases, k, j)
    BY ClosedBases DEF Closed
  <2> HIDE DEF bases
  <2>2. \A k \in C : Follow(pack[k].loc, cache, bases) \in {Nothing, Meaning[k]}
    BY <1>2, <2>1, FollowSound
  <2> QED BY <2>2 DEF bases
<1>4. \A l : l \notin Locations => ValueAt(l) = Nothing
  BY <1>1 DEF Follow, At
<1> QED
  BY <1>1, <1>3, <1>4

\* What is cached of them is right.
LEMMA ClosedCaches ==
  ASSUME Typed, Knowing, NEW C, Closed(C), NEW loc, loc \notin Locations \/ \E k \in C : loc = pack[k].loc,
         Cached(Chain(loc)), UNCHANGED pack
  PROVE  KnownRight(cache)'
<1> DEFINE L == {pack[k].loc : k \in C}
           locs == Chain(loc)
<1>1. IsPack(pack) /\ Len(pack) \in Nat /\ CacheOf /\ Reached \subseteq Locations
  BY TypedGives
<1>2. C \in SUBSET (1..Len(pack))
  BY ClosedBases
<1>3. L \in SUBSET Locations /\ (loc \in L \/ loc \notin Locations)
  BY <1>2 DEF Locations
<1>4. ASSUME NEW l \in L, IsDelta(EntryAt(l)) PROVE BaseOf(EntryAt(l)) \in L \/ BaseOf(EntryAt(l)) \notin Locations
  <2>1. PICK k \in C : l = pack[k].loc
    OBVIOUS
  <2>2. EntryAt(l) = pack[k] /\ l \in Locations
    BY <1>1, <1>2, <2>1, EntryAtIs
  <2>3. BasesNow[pack[k].loc] \notin Locations \/ \E j \in C : BaseAt(BasesNow, k, j)
    BY <1>4, <2>2, ClosedBases
  <2>4. BasesNow[l] = BaseOf(EntryAt(l))
    BY <2>2 DEF BasesNow
  <2> QED BY <2>1, <2>3, <2>4 DEF BaseAt
<1>5. locs \subseteq L
  <2> HIDE DEF L
  <2> QED BY <1>1, <1>3, <1>4, ChainStays
<1>6. locs \in SUBSET Locations /\ Cached(locs) /\ CacheIs /\ DOMAIN cache \subseteq Locations
  BY <1>1, <1>3, <1>5 DEF CacheOf
<1> HIDE DEF locs
<1>7. ASSUME NEW l \in DOMAIN cache'
      PROVE  /\ cache'[l] \in Values
             /\ l \in DOMAIN cache => cache'[l] = cache[l]
             /\ l \notin DOMAIN cache => cache'[l] = ValueAt(l) /\ l \in locs
  BY <1>1, <1>6, CachedIs
<1>8. ASSUME NEW l \in DOMAIN cache' PROVE \E k \in 1..Len(pack) : l = pack[k].loc /\ cache'[l] = Meaning[k]
  <2>1. CASE l \in DOMAIN cache
    BY <1>7, <2>1 DEF Knowing, KnownRight
  <2>2. CASE l \notin DOMAIN cache
    <3>1. cache'[l] = ValueAt(l) /\ l \in locs /\ cache'[l] # Nothing
      BY <1>7, <2>2, ValuesAre
    <3>2. PICK k \in C : l = pack[k].loc
      BY <1>5, <3>1
    <3>3. ValueAt(l) \in {Nothing, Meaning[k]}
      BY <3>2, ClosedReads
    <3> QED BY <1>2, <3>1, <3>2, <3>3
  <2> QED BY <2>1, <2>2
<1> QED
  BY <1>8, MeaningStays DEF KnownRight

\* The first of those that wait.
LEMMA HeadIs ==
  ASSUME Typed, InOrder, deltas # <<>>, NEW h, h = Head(deltas)
  PROVE  /\ h \in 1..read /\ h \in Range(deltas) /\ h \notin Settled /\ IsDelta(pack[h])
         /\ \A d \in Range(deltas) : h <= d
         /\ \A d \in Range(Tail(deltas)) : h < d /\ d \in Range(deltas)
         /\ Range(deltas) = {h} \cup Range(Tail(deltas))
         /\ \A i, j \in 1..Len(Tail(deltas)) : i < j => Tail(deltas)[i] < Tail(deltas)[j]
<1>1. Queued
  BY TypedGives
<1>2. deltas \in Seq(Nat) /\ Len(deltas) \in Nat \ {0}
  BY <1>1 DEF Queued, DeltasAre
<1>3. h \in Range(deltas) /\ h \in 1..read /\ IsDelta(pack[h])
  BY <1>1, QueueTail
<1> DEFINE t == Tail(deltas)
<1>4. /\ h = deltas[1] /\ Len(t) = Len(deltas) - 1 /\ DOMAIN t = 1..Len(deltas) - 1 /\ DOMAIN deltas = 1..Len(deltas)
      /\ \A i \in 1..Len(deltas) - 1 : t[i] = deltas[i + 1] /\ i + 1 \in 1..Len(deltas)
  BY <1>2
<1> HIDE DEF t
<1>5. \A i, j \in 1..Len(deltas) : i < j => deltas[i] < deltas[j]
  BY DEF InOrder
<1>6. \A i, j \in 1..Len(t) : i < j => t[i] < t[j]
  <2> SUFFICES ASSUME NEW i \in 1..Len(t), NEW j \in 1..Len(t), i < j PROVE t[i] < t[j]
    OBVIOUS
  <2>1. t[i] = deltas[i + 1] /\ t[j] = deltas[j + 1] /\ i + 1 \in 1..Len(deltas) /\ j + 1 \in 1..Len(deltas) /\ i + 1 < j + 1
    BY <1>2, <1>4
  <2> QED BY <1>5, <2>1
<1>7. \A d \in Range(t) : h < d /\ d \in Range(deltas)
  <2> SUFFICES ASSUME NEW i \in 1..Len(deltas) - 1 PROVE h < t[i] /\ t[i] \in Range(deltas)
    BY <1>4 DEF Range
  <2>1. t[i] = deltas[i + 1] /\ i + 1 \in 1..Len(deltas) /\ 1 \in 1..Len(deltas) /\ 1 < i + 1
    BY <1>2, <1>4
  <2> QED BY <1>4, <1>5, <2>1 DEF Range
<1>8. Range(deltas) = {h} \cup Range(t)
  <2>1. ASSUME NEW i \in 1..Len(deltas), i # 1 PROVE deltas[i] \in Range(t)
    <3>1. i - 1 \in 1..Len(deltas) - 1 /\ (i - 1) + 1 = i
      BY <1>2, <2>1
    <3>2. t[i - 1] = deltas[i]
      BY <1>4, <3>1
    <3> QED BY <1>4, <3>1, <3>2 DEF Range
  <2>2. Range(deltas) \subseteq {h} \cup Range(t)
    BY <1>4, <2>1 DEF Range
  <2> QED BY <1>3, <1>7, <2>2
<1>9. \A d \in Range(deltas) : d \in Nat
  BY <1>2 DEF Range
<1> QED
  BY <1>3, <1>6, <1>7, <1>8, <1>9 DEF Settled, t

\* What is settled may be followed, and with the first that waits, if that
\* stands for something.
LEMMA SettledClosed ==
  ASSUME Typed, Knowing
  PROVE  /\ Closed(Settled)
         /\ deltas # <<>> /\ Meaning[Head(deltas)] # Nothing => Closed(Settled \cup {Head(deltas)})
<1>1. \A d \in Range(deltas) : d \in Nat
  BY TypedGives DEF Queued
<1>2. \A k \in Settled : k \in 1..read /\ Meaning[k] # Nothing
  BY DEF Settled, Knowing, AllKnown
<1>3. \A k \in Settled : IsDelta(pack[k]) => \A d \in Range(deltas) : k <= d
  <2> SUFFICES ASSUME NEW k \in Settled, IsDelta(pack[k]), NEW d \in Range(deltas) PROVE k <= d
    OBVIOUS
  <2>1. k < d /\ d \in Nat /\ k \in Nat
    BY <1>1, <1>2 DEF Knowing, InOrder
  <2> QED BY <2>1
<1>4. Closed(Settled)
  BY <1>2, <1>3 DEF Closed
<1>5. ASSUME deltas # <<>>, Meaning[Head(deltas)] # Nothing PROVE Closed(Settled \cup {Head(deltas)})
  <2> DEFINE h == Head(deltas)
  <2>1. h \in 1..read /\ \A d \in Range(deltas) : h <= d
    BY <1>5, HeadIs DEF Knowing
  <2>2. Meaning[h] # Nothing
    BY <1>5
  <2> HIDE DEF h
  <2>3. Closed(Settled \cup {h})
    BY <1>2, <1>3, <2>1, <2>2 DEF Closed
  <2> QED BY <2>3 DEF h
<1> QED
  BY <1>4, <1>5

\* A base that is read is that of the delta that waits, and the delta makes of
\* it what it stands for, if its size is right.
LEMMA WaitingMeans ==
  ASSUME Typed, Knowing, phase = "resolve", deltas # <<>>, BaseValue # Nothing, NEW h, h = Head(deltas)
  PROVE  /\ \E j \in Settled : BaseOf(Waiting) = pack[j].loc /\ Based(pack, Waiting, Meaning, j)
         /\ (Result.ok /\ SizeIsRight(Waiting.data, Result.content)) <=> Meaning[h] # Nothing
         /\ Meaning[h] # Nothing => ResultValue = Meaning[h]
<1>1. h \in 1..read /\ IsDelta(pack[h]) /\ \A d \in Range(deltas) : h <= d
  BY HeadIs DEF Knowing
<1>2. Waiting = pack[h]
  BY DEF Waiting
<1>3. IsPack(pack) /\ Len(pack) \in Nat /\ read \in 0..Len(pack)
  BY TypedGives
<1>4. h \in 1..Len(pack)
  BY <1>1, <1>3
<1>5. PICK j \in Settled : BaseOf(pack[h]) = pack[j].loc /\ Based(pack, pack[h], Meaning, j)
  <2>1. \/ BaseOf(pack[h]) \notin Locations
        \/ \E j \in Settled : BaseOf(pack[h]) = pack[j].loc /\ Based(pack, pack[h], Meaning, j)
    BY <1>1, BaseSettled DEF Knowing
  <2>2. BaseOf(pack[h]) \notin Locations => BaseValue = Nothing
    <3>1. Closed(Settled)
      BY SettledClosed
    <3> QED BY <1>2, <3>1, ClosedReads DEF BaseValue
  <2> QED BY <2>1, <2>2
<1>6. BaseValue = Meaning[j]
  <2>1. Closed(Settled)
    BY SettledClosed
  <2>2. ValueAt(pack[j].loc) \in {Nothing, Meaning[j]}
    BY <2>1, ClosedReads
  <2> QED BY <1>2, <1>5, <2>2 DEF BaseValue
<1> DEFINE e == pack[h]
           base == Meaning[j]
           r == ReadCode(e.data.code, base.content)
<1>7. Meaning[h] = Applied(e, base) /\ base \in Values /\ Formed(e)
  BY <1>1, <1>3, <1>4, <1>5, BasedMeans
<1>8. Result = r /\ ResultValue = [base EXCEPT !.content = r.content]
  BY <1>2, <1>6 DEF Result, ResultValue
<1> HIDE DEF base
<1>9. /\ Applied(e, base) # Nothing =>
              /\ r.ok /\ SizeIsRight(e.data, r.content)
              /\ Applied(e, base) = [base EXCEPT !.content = r.content]
      /\ r.ok /\ SizeIsRight(e.data, r.content) => Applied(e, base) # Nothing
  <2> HIDE DEF e
  <2>1. IsDelta(e)
    BY <1>1 DEF e
  <2> QED BY <1>7, <2>1, AppliedIs
<1> HIDE DEF r, e
<1>10. (Result.ok /\ SizeIsRight(Waiting.data, Result.content)) <=> Meaning[h] # Nothing
  BY <1>2, <1>7, <1>8, <1>9 DEF e
<1>11. Meaning[h] # Nothing => ResultValue = Meaning[h]
  BY <1>7, <1>8, <1>9
<1> QED
  BY <1>2, <1>5, <1>10, <1>11

\* The first that waits is settled.
LEMMA HeadSettled ==
  ASSUME Typed, Reader, phase = "resolve", deltas # <<>>, NEW h, h = Head(deltas), deltas' = Tail(deltas),
         UNCHANGED <<opts, phase, outcome, pack, read>>, failed' => opts.recover,
         DOMAIN prior \subseteq DOMAIN prior', lost \subseteq lost',
         Sound =>
           /\ Meaning[h] # Nothing /\ KnownRight(cache)'
           /\ (~opts.recover /\ pack[h].type = "ref") => prior[pack[h].ref] # 0
           /\ \/ UNCHANGED prior /\ (opts.recover \/ lost' # {})
              \/ prior' = Placed(IdOf(Meaning[h]), pack[h].loc)
           /\ opts.use = "unpack" => /\ stored' \subseteq stored \cup {Meaning[h]}
                                     /\ ~opts.recover => stored' \cup lost' = stored \cup lost \cup {Meaning[h]}
  PROVE  Reader'
<1> DEFINE id == IdOf(Meaning[h])
<1>1. /\ h \in 1..read /\ h \in Range(deltas) /\ h \notin Settled /\ IsDelta(pack[h])
      /\ \A d \in Range(Tail(deltas)) : h < d /\ d \in Range(deltas)
      /\ Range(deltas) = {h} \cup Range(Tail(deltas))
      /\ \A i, j \in 1..Len(Tail(deltas)) : i < j => Tail(deltas)[i] < Tail(deltas)[j]
  BY HeadIs DEF Reader
<1>2. Meaning' = Meaning
  BY MeaningStays
<1>3. h \notin Range(Tail(deltas))
  <2>1. h \in Nat
    BY <1>1
  <2> QED BY <1>1, <2>1
<1>4. Settled' = Settled \cup {h}
  BY <1>1, <1>3 DEF Settled
<1>5. InOrder'
  <2>1. \A k \in Settled' : IsDelta(pack[k]) => \A d \in Range(Tail(deltas)) : k < d
    BY <1>1, <1>4 DEF Reader, InOrder
  <2> QED BY <1>1, <2>1 DEF InOrder
<1>6. BasesRead'
  BY DEF Reader, BasesRead
<1>7. EndsWell'
  BY DEF Reader, EndsWell, Typed, TypeOK
<1>8. Sound' => Sound
  BY <1>2 DEF Sound, Range
<1>9. ASSUME Sound, Right PROVE Right'
  <2>1. AllKnown' /\ StoredRight' /\ KnownRight(cache)'
    BY <1>2, <1>4, <1>9 DEF Right, AllKnown, StoredRight
  <2>2. CASE UNCHANGED prior /\ (opts.recover \/ lost' # {})
    <3>1. \A i \in DOMAIN prior' : prior'[i] # 0 => \E k \in Settled' : prior'[i] = pack[k].loc /\ IdOf(Meaning[k]) = i
      BY <1>4, <1>9, <2>2 DEF Right, PriorRight
    <3>2. ASSUME NEW k \in Settled', ~opts.recover PROVE pack[k].type = "ref" => prior'[pack[k].ref] # 0
      BY <1>4, <1>9, <2>2, <3>2 DEF Right, PriorRight
    <3>3. PriorRight'
      BY <1>2, <2>2, <3>1, <3>2 DEF PriorRight
    <3> QED BY <2>1, <3>3 DEF Right
  <2>3. CASE prior' = Placed(id, pack[h].loc)
    <3> DEFINE loc == pack[h].loc
    <3>1. loc # 0
      <4>1. IsPack(pack) /\ h \in 1..Len(pack)
        BY <1>1, TypedGives
      <4> QED BY <4>1 DEF IsPack, Formed
    <3>2. DOMAIN prior' = DOMAIN prior \cup {id} /\ prior'[id] = loc
      BY <2>3, PlacedIs
    <3>3. \A i \in DOMAIN prior : i # id => prior'[i] = prior[i]
      BY <2>3, PlacedAt
    <3> HIDE DEF id, loc
    <3>4. \A i \in DOMAIN prior : prior[i] # 0 => prior'[i] # 0
      BY <3>1, <3>2, <3>3
    <3>5. ASSUME NEW i \in DOMAIN prior', prior'[i] # 0
          PROVE  \E k \in Settled' : prior'[i] = pack[k].loc /\ IdOf(Meaning[k]) = i
      <4>1. CASE i = id
        BY <1>4, <3>2, <4>1 DEF id, loc
      <4>2. CASE i # id
        <5>1. i \in DOMAIN prior /\ prior'[i] = prior[i]
          BY <3>2, <3>3, <4>2
        <5> QED BY <1>4, <1>9, <3>5, <5>1 DEF Right, PriorRight
      <4> QED BY <4>1, <4>2
    <3>6. ASSUME NEW k \in Settled', ~opts.recover
          PROVE  /\ lost' = {} => IdOf(Meaning[k]) \in DOMAIN prior' /\ prior'[IdOf(Meaning[k])] # 0
                 /\ pack[k].type = "ref" => prior'[pack[k].ref] # 0
      <4>1. pack[k].type = "ref" => pack[k].ref \in DOMAIN prior
        BY <1>1, <1>4 DEF Reader, BasesRead, Settled
      <4>2. CASE k = h
        <5>1. IdOf(Meaning[k]) = id
          BY <4>2 DEF id
        <5>2. pack[k].type = "ref" => prior[pack[k].ref] # 0
          BY <1>9, <3>6, <4>2
        <5> QED BY <3>1, <3>2, <3>4, <4>1, <5>1, <5>2
      <4>3. CASE k \in Settled
        <5>1. /\ lost' = {} => IdOf(Meaning[k]) \in DOMAIN prior /\ prior[IdOf(Meaning[k])] # 0
              /\ pack[k].type = "ref" => prior[pack[k].ref] # 0
          BY <1>9, <3>6, <4>3 DEF Right, PriorRight
        <5> QED BY <3>2, <3>4, <4>1, <5>1
      <4> QED BY <1>4, <4>2, <4>3
    <3>7. PriorRight'
      BY <1>2, <3>5, <3>6 DEF PriorRight
    <3> QED BY <2>1, <3>7 DEF Right
  <2> QED BY <1>9, <2>2, <2>3
<1> QED
  BY <1>5, <1>6, <1>7, <1>8, <1>9 DEF Reader

\* What a reader knows of it follows.
LEMMA ReaderKnows ==
  ASSUME Reader, Sound
  PROVE  Knowing /\ Right
  BY DEF Reader, Right, Knowing

\* A base that is read has a location.
LEMMA BaseHasPlace ==
  ASSUME Typed, Knowing, phase = "resolve", deltas # <<>>, BaseValue # Nothing
  PROVE  Waiting.type = "ref" => prior[Waiting.ref] # 0
<1> SUFFICES ASSUME Waiting.type = "ref" PROVE prior[Waiting.ref] # 0
  OBVIOUS
<1>1. BaseOf(Waiting) = prior[Waiting.ref]
  BY DEF BaseOf
<1>2. PICK j \in Settled : BaseOf(Waiting) = pack[j].loc
  BY WaitingMeans
<1>3. IsPack(pack) /\ j \in 1..Len(pack)
  BY TypedGives DEF Settled
<1> QED
  BY <1>1, <1>2, <1>3 DEF IsPack, Formed

\* What is cached on the way to the base of the delta that waits is right.
LEMMA BaseCaches ==
  ASSUME Typed, Knowing, phase = "resolve", deltas # <<>>, Cached(Chain(BaseOf(Waiting))), UNCHANGED pack
  PROVE  KnownRight(cache)'
<1> DEFINE loc == BaseOf(Waiting)
           h == Head(deltas)
<1>1. Closed(Settled)
  BY SettledClosed
<1>2. h \in 1..read /\ IsDelta(pack[h]) /\ \A d \in Range(deltas) : h <= d
  BY HeadIs DEF Knowing
<1>3. loc \notin Locations \/ \E k \in Settled : loc = pack[k].loc
  <2>1. loc = BaseOf(pack[h])
    BY DEF Waiting
  <2> HIDE DEF loc, h
  <2> QED BY <1>2, <2>1, BaseSettled DEF Knowing
<1> HIDE DEF loc
<1>4. Cached(Chain(loc))
  BY DEF loc
<1> QED
  BY <1>1, <1>3, <1>4, ClosedCaches

\* The delta that waits is resolved, skipped, or the end.
LEMMA ResolvingReader == Typed /\ Reader /\ (NoBase \/ IndexDelta \/ UnpackDelta \/ SkipDelta) => Reader'
<1>1. ASSUME Typed, Reader, NoBase PROVE Reader'
  <2> DEFINE h == Head(deltas)
  <2>1. /\ phase = "resolve" /\ deltas # <<>>
        /\ Cached(Chain(BaseOf(Waiting)))
        /\ \/ opts.recover /\ failed' = TRUE /\ deltas' = Tail(deltas) /\ UNCHANGED <<phase, outcome>>
           \/ phase' = "done" /\ outcome' = "error" /\ UNCHANGED <<failed, deltas>>
        /\ UNCHANGED <<opts, pack, read, prior, stored, lost>>
    BY <1>1 DEF NoBase, Resolving, Stop
  <2>2. Sound => KnownRight(cache)'
    BY <1>1, <2>1, ReaderKnows, BaseCaches
  <2>3. CASE opts.recover /\ failed' = TRUE /\ deltas' = Tail(deltas) /\ UNCHANGED <<phase, outcome>>
    <3>1. opts.use = "unpack"
      BY <1>1, <2>3 DEF Typed, OptionsAre
    <3>2. h \in 1..Len(pack)
      BY <1>1, <2>1, HeadIs, TypedGives DEF Reader
    <3>3. Sound => Meaning[h] # Nothing
      <4>1. DOMAIN Meaning = 1..Len(pack)
        <5>1. IsPack(pack)
          BY <1>1, TypedGives
        <5> QED BY <5>1, MeaningStands
      <4> HIDE DEF h
      <4> QED BY <3>1, <3>2, <4>1 DEF Sound, Range
    <3> HIDE DEF h
    <3>4. h = Head(deltas)
      BY DEF h
    <3> QED BY <1>1, <2>1, <2>2, <2>3, <3>3, <3>4, HeadSettled
  <2>4. CASE phase' = "done" /\ outcome' = "error" /\ UNCHANGED <<failed, deltas>>
    <3>1. Settled' = Settled /\ Meaning' = Meaning
      BY <2>1, <2>4, MeaningStays DEF Settled, Range
    <3>2. InOrder' /\ BasesRead' /\ EndsWell'
      BY <1>1, <2>1, <2>4, <3>1 DEF Reader, InOrder, BasesRead, EndsWell, Range
    <3>3. Sound /\ Right => Right'
      BY <2>1, <2>2, <3>1 DEF Right, AllKnown, PriorRight, StoredRight
    <3>4. Sound' => Sound
      BY <2>1, <3>1 DEF Sound, Range
    <3> QED BY <1>1, <3>2, <3>3, <3>4 DEF Reader
  <2> QED BY <2>1, <2>3, <2>4
<1>2. ASSUME Typed, Reader, IndexDelta PROVE Reader'
  <2> DEFINE h == Head(deltas)
  <2>1. /\ phase = "resolve" /\ deltas # <<>> /\ opts.use = "index" /\ BaseValue # Nothing
        /\ UNCHANGED <<opts, pack, read, failed, stored, lost>>
    BY <1>2 DEF IndexDelta, Resolving
  <2>2. CASE Result.ok /\ SizeIsRight(Waiting.data, Result.content)
    <3>1. /\ prior' = Placed(IdOf(ResultValue), Waiting.loc) /\ deltas' = Tail(deltas)
          /\ Cached(Chain(Waiting.loc)) /\ UNCHANGED <<phase, outcome>>
      BY <1>2, <2>2 DEF IndexDelta
    <3>2. Sound /\ Knowing
      BY <1>2, <2>1, ReaderKnows DEF Sound
    <3>3. h = Head(deltas) /\ Waiting = pack[h]
      BY DEF Waiting
    <3> HIDE DEF h
    <3>4. Meaning[h] # Nothing /\ ResultValue = Meaning[h]
      BY <1>2, <2>1, <2>2, <3>2, <3>3, WaitingMeans
    <3>5. pack[h].type = "ref" => prior[pack[h].ref] # 0
      BY <1>2, <2>1, <3>2, <3>3, BaseHasPlace
    <3>6. KnownRight(cache)'
      <4> DEFINE C == Settled \cup {h}
      <4>1. Closed(C)
        BY <1>2, <2>1, <3>2, <3>3, <3>4, SettledClosed
      <4>2. h \in C
        OBVIOUS
      <4> HIDE DEF C
      <4> QED BY <1>2, <2>1, <3>1, <3>2, <3>3, <4>1, <4>2, ClosedCaches
    <3>7. prior' = Placed(IdOf(Meaning[h]), pack[h].loc)
      BY <3>1, <3>3, <3>4
    <3>8. DOMAIN prior \subseteq DOMAIN prior'
      <4> DEFINE id == IdOf(Meaning[h])
                 loc == pack[h].loc
      <4>1. prior' = Placed(id, loc)
        BY <3>7
      <4> HIDE DEF id, loc
      <4> QED BY <4>1, PlacedIs
    <3>9. failed' => opts.recover
      BY <1>2, <2>1 DEF Reader, EndsWell
    <3> QED BY <1>2, <2>1, <3>1, <3>3, <3>4, <3>5, <3>6, <3>7, <3>8, <3>9, HeadSettled
  <2>3. CASE ~(Result.ok /\ SizeIsRight(Waiting.data, Result.content))
    <3>1. phase' = "done" /\ outcome' = "error" /\ UNCHANGED <<prior, deltas, cache>>
      BY <1>2, <2>3 DEF IndexDelta, Stop
    <3> QED BY <1>2, <2>1, <3>1, LeavesReader
  <2> QED BY <2>2, <2>3
<1>3. ASSUME Typed, Reader, UnpackDelta PROVE Reader'
  <2> DEFINE h == Head(deltas)
  <2>1. /\ phase = "resolve" /\ deltas # <<>> /\ opts.use = "unpack" /\ BaseValue # Nothing
        /\ \/ prior' = Placed(IdOf(ResultValue), Waiting.loc) /\ stored' = stored \cup {ResultValue} /\ UNCHANGED lost
           \/ UNCHANGED <<prior, stored>> /\ lost' = lost \cup {ResultValue}
        /\ deltas' = Tail(deltas) /\ Cached(Chain(BaseOf(Waiting)))
        /\ UNCHANGED <<opts, phase, outcome, pack, read, failed>>
    BY <1>3 DEF UnpackDelta, Resolving
  <2>2. h = Head(deltas) /\ Waiting = pack[h] /\ h \in 1..Len(pack)
    BY <1>3, <2>1, HeadIs, TypedGives DEF Waiting, Reader
  <2> HIDE DEF h
  <2>3. ASSUME Sound
        PROVE  /\ Meaning[h] # Nothing /\ KnownRight(cache)' /\ ResultValue = Meaning[h]
               /\ pack[h].type = "ref" => prior[pack[h].ref] # 0
    <3>1. Knowing
      BY <1>3, <2>3, ReaderKnows
    <3>2. Meaning[h] # Nothing
      <4>1. DOMAIN Meaning = 1..Len(pack)
        <5>1. IsPack(pack)
          BY <1>3, TypedGives
        <5> QED BY <5>1, MeaningStands
      <4> QED BY <2>1, <2>2, <2>3, <4>1 DEF Sound, Range
    <3>3. ResultValue = Meaning[h]
      BY <1>3, <2>1, <2>2, <3>1, <3>2, WaitingMeans
    <3>4. KnownRight(cache)'
      BY <1>3, <2>1, <3>1, BaseCaches
    <3>5. pack[h].type = "ref" => prior[pack[h].ref] # 0
      BY <1>3, <2>1, <2>2, <3>1, BaseHasPlace
    <3> QED BY <3>2, <3>3, <3>4, <3>5
  <2>4. DOMAIN prior \subseteq DOMAIN prior' /\ lost \subseteq lost'
    <3> DEFINE id == IdOf(ResultValue)
               loc == Waiting.loc
    <3>1. prior' = Placed(id, loc) \/ UNCHANGED prior
      BY <2>1
    <3>2. lost \subseteq lost'
      BY <2>1
    <3> HIDE DEF id, loc
    <3>3. CASE prior' = Placed(id, loc)
      BY <3>2, <3>3, PlacedIs
    <3> QED BY <3>1, <3>2, <3>3
  <2>5. Sound => /\ \/ UNCHANGED prior /\ lost' # {}
                    \/ prior' = Placed(IdOf(Meaning[h]), pack[h].loc)
                 /\ stored' \subseteq stored \cup {Meaning[h]}
                 /\ stored' \cup lost' = stored \cup lost \cup {Meaning[h]}
    BY <2>1, <2>2, <2>3
  <2>6. failed' => opts.recover
    BY <1>3, <2>1 DEF Reader, EndsWell
  <2> QED BY <1>3, <2>1, <2>2, <2>3, <2>4, <2>5, <2>6, HeadSettled
<1>4. ASSUME Typed, Reader, SkipDelta PROVE Reader'
  <2> DEFINE h == Head(deltas)
  <2>1. /\ phase = "resolve" /\ deltas # <<>> /\ opts.recover
        /\ deltas' = Tail(deltas) /\ Cached(Chain(BaseOf(Waiting)))
        /\ UNCHANGED <<opts, phase, outcome, pack, read, prior, stored, lost>>
    BY <1>4 DEF SkipDelta, Resolving
  <2>2. opts.use = "unpack"
    BY <1>4, <2>1 DEF Typed, OptionsAre
  <2>3. h = Head(deltas) /\ h \in 1..Len(pack)
    BY <1>4, <2>1, HeadIs, TypedGives DEF Reader
  <2> HIDE DEF h
  <2>4. Sound => Meaning[h] # Nothing /\ KnownRight(cache)'
    <3>1. DOMAIN Meaning = 1..Len(pack)
      <4>1. IsPack(pack)
        BY <1>4, TypedGives
      <4> QED BY <4>1, MeaningStands
    <3>2. Sound => Meaning[h] # Nothing
      BY <2>2, <2>3, <3>1 DEF Sound, Range
    <3>3. Sound => KnownRight(cache)'
      BY <1>4, <2>1, ReaderKnows, BaseCaches
    <3> QED BY <3>2, <3>3
  <2> QED BY <1>4, <2>1, <2>3, <2>4, HeadSettled
<1> QED
  BY <1>1, <1>2, <1>3, <1>4

\* Every step keeps what a reader knows right.
LEMMA NextReader == Typed /\ Reader /\ [Next]_vars => Reader'
<1>1. Typed /\ Reader /\ Next => Reader'
  BY PackObjectReader, ReadFullReader, ReadingReader, ResolvingReader DEF Next
<1>2. Reader /\ UNCHANGED vars => Reader'
  <2> SUFFICES ASSUME Reader, UNCHANGED vars PROVE Reader'
    OBVIOUS
  <2>1. UNCHANGED <<opts, phase, outcome, pack, read, deltas, prior, cache, failed, stored, lost>>
    BY DEF vars
  <2>2. outcome' = "ok" => read = Len(pack) /\ deltas = <<>>
    BY <2>1 DEF Reader, EndsWell
  <2> QED BY <2>1, <2>2, LeavesReader
<1> QED
  BY <1>1, <1>2

\* Of a pack all of whose entries can be read, unpack-objects stores only what
\* it holds; and when it ends well without -r, all but what it could not write.
THEOREM UnpackIsTrue == Spec => []UnpackTrue
<1>1. ASSUME Typed, Reader PROVE UnpackTrue
  <2> SUFFICES ASSUME opts.use = "unpack", Nothing \notin Range(Meaning)
               PROVE  /\ stored \subseteq Range(Meaning)
                      /\ (Done("unpack") /\ ~opts.recover) => stored \cup lost = Range(Meaning)
    BY DEF UnpackTrue
  <2>1. IsPack(pack) /\ Len(pack) \in Nat /\ read \in 0..Len(pack)
    BY <1>1, TypedGives
  <2>2. DOMAIN Meaning = 1..Len(pack)
    BY <2>1, MeaningStands
  <2>3. Right
    BY <1>1 DEF Reader, Sound
  <2>4. {Meaning[k] : k \in Settled} \subseteq Range(Meaning)
    BY <2>1, <2>2 DEF Settled, Range
  <2>5. stored \subseteq Range(Meaning)
    BY <2>3, <2>4 DEF Right, StoredRight
  <2>6. ASSUME Done("unpack"), ~opts.recover PROVE stored \cup lost = Range(Meaning)
    <3>1. read = Len(pack) /\ deltas = <<>>
      BY <1>1, <2>6 DEF Done, Reader, EndsWell
    <3>2. Settled = 1..Len(pack)
      BY <3>1 DEF Settled, Range
    <3>3. {Meaning[k] : k \in Settled} = Range(Meaning)
      BY <2>2, <3>2 DEF Range
    <3> QED BY <2>3, <2>6, <3>3 DEF Right, StoredRight
  <2> QED BY <2>5, <2>6
<1> QED
  BY <1>1, InitTyped, NextTyped, InitReader, NextReader, PTL DEF Spec

-----------------------------------------------------------------------------
(* A pack that has each object once is read to its end.                    *)

\* A delta has one base then.
LEMMA OneBase ==
  ASSUME IsPack(pack), Once, NEW k \in 1..Len(pack), IsDelta(pack[k]), NEW i, NEW j,
         Based(pack, pack[k], Meaning, i), Based(pack, pack[k], Meaning, j)
  PROVE  i = j
<1>1. i \in 1..Len(pack) /\ j \in 1..Len(pack) /\ Formed(pack[k])
  BY DEF Based, IsPack
<1>2. CASE pack[k].type = "ofs"
  <2>1. pack[i].loc = pack[j].loc
    BY <1>2 DEF Based
  <2> QED BY <1>1, <2>1, EntryAtIs
<1>3. CASE pack[k].type = "ref"
  <2>1. IdOf(Meaning[i]) = pack[k].ref /\ IdOf(Meaning[j]) = pack[k].ref /\ pack[k].ref \in Object
    BY <1>1, <1>3 DEF Based, Formed
  <2>2. Meaning[i] = Meaning[j]
    BY <2>1, IdsAre
  <2> QED BY <1>1, <2>2 DEF Once
<1> QED
  BY <1>1, <1>2, <1>3, DeltaTypes

\* The base of a delta with an offset comes before it, if it stands for something.
LEMMA BaseBefore ==
  ASSUME IsPack(pack), NEW k \in 1..Len(pack), pack[k].type = "ofs", Meaning[k] # Nothing
  PROVE  \E j \in 1..k - 1 : pack[j].loc = Before(pack[k])
<1> DEFINE e == pack[k]
           N == Len(pack)
<1>1. Formed(e) /\ IsDelta(e) /\ N \in Nat
  BY KindsAre DEF IsPack, IsDelta
<1>2. PICK g : /\ Learned(g, pack) /\ Meaning = g[N]
               /\ \A n \in 0..N : g[n] \in Partly(pack) /\ Below(g[n], Meaning)
  BY MeaningStands
<1>3. \A n \in 1..N : g[n - 1] \in [1..N -> Maybe] /\ g[n][k] = StandsFor(pack, e, g[n - 1])
  <2> SUFFICES ASSUME NEW n \in 1..N PROVE g[n - 1] \in [1..N -> Maybe] /\ g[n][k] = StandsFor(pack, e, g[n - 1])
    OBVIOUS
  <2>1. n - 1 \in 0..N
    OBVIOUS
  <2> QED BY <1>2, <2>1 DEF Learned, Partly, Round
<1>4. \A n \in 1..N : g[n][k] # Nothing => \E i : Based(pack, e, g[n - 1], i)
  <2> SUFFICES ASSUME NEW n \in 1..N, g[n][k] # Nothing PROVE \E i : Based(pack, e, g[n - 1], i)
    OBVIOUS
  <2> DEFINE a == g[n - 1]
  <2>1. a \in [1..Len(pack) -> Maybe] /\ StandsFor(pack, e, a) # Nothing
    BY <1>3
  <2> HIDE DEF a, e
  <2>2. \E i : Based(pack, e, a, i)
    BY <1>1, <2>1, StandsForIs
  <2> QED BY <2>2 DEF a
<1>5. pack[k].loc # Before(e)
  <2> SUFFICES ASSUME pack[k].loc = Before(e) PROVE FALSE
    OBVIOUS
  <2> DEFINE T == {n \in 0..N : g[n][k] = Nothing}
  <2>1. 0 \in T
    BY <1>1, <1>2 DEF Learned
  <2>2. ASSUME NEW n \in 1..N, n - 1 \in T PROVE n \in T
    <3>1. n \in 0..N
      OBVIOUS
    <3>2. ~\E i : Based(pack, e, g[n - 1], i)
      <4> SUFFICES ASSUME NEW i, Based(pack, e, g[n - 1], i) PROVE FALSE
        OBVIOUS
      <4>1. i \in 1..N /\ g[n - 1][i] # Nothing /\ pack[i].loc = pack[k].loc
        BY <2>2 DEF Based
      <4>2. i = k
        BY <4>1, EntryAtIs
      <4> QED BY <2>2, <4>1, <4>2
    <3> QED BY <1>4, <3>1, <3>2
  <2> HIDE DEF T
  <2>3. 0..N \subseteq T
    BY <1>1, <2>1, <2>2, StepInduction
  <2>4. N \in T
    BY <1>1, <2>3
  <2> QED BY <1>2, <2>4 DEF T
<1>6. N \in 1..N
  BY <1>1
<1>7. PICK j : Based(pack, e, g[N - 1], j)
  BY <1>2, <1>4, <1>6
<1>8. j \in 1..N /\ pack[j].loc = Before(e)
  BY <1>7 DEF Based
<1>9. ReadDeltaOffset(e.back) \in Nat
  BY <1>1, DeltaOffsetIs DEF Formed
<1>10. pack[j].loc < pack[k].loc
  <2>1. pack[k].loc \in Nat
    BY <1>1 DEF Formed
  <2>2. pack[j].loc \in Nat
    BY <1>8 DEF IsPack, Formed
  <2>3. pack[j].loc = pack[k].loc - ReadDeltaOffset(e.back)
    BY <1>8 DEF Before
  <2> QED BY <1>5, <1>8, <1>9, <2>1, <2>2, <2>3
<1>11. j < k
  <2>1. ~(k < j) /\ k # j
    <3>1. pack[j].loc \in Nat /\ pack[k].loc \in Nat
      BY <1>1, <1>8 DEF IsPack, Formed
    <3> QED BY <1>8, <1>10, <3>1 DEF IsPack
  <2> QED BY <1>8, <2>1
<1> QED
  BY <1>8, <1>11

\* A pack that is read to its end, by what it stands for.
Readable ==
  /\ ~opts.recover /\ lost = {} /\ Nothing \notin Range(Meaning) /\ Once
  /\ \A k \in 1..Len(pack) :
       pack[k].type = "ref" =>
         \E j \in 1..Len(pack) : IdOf(Meaning[j]) = pack[k].ref /\ (j < k \/ ~IsDelta(pack[j]))

\* All of its entries stand for something.
LEMMA ReadableIs ==
  ASSUME Typed, Readable
  PROVE  Sound /\ \A k \in 1..Len(pack) : Meaning[k] # Nothing
<1>1. IsPack(pack)
  BY TypedGives
<1>2. DOMAIN Meaning = 1..Len(pack)
  BY <1>1, MeaningStands
<1> QED
  BY <1>2 DEF Readable, Sound, Range

\* The base of what is settled or first in the queue is where it is looked for.
LEMMA BasePlaced ==
  ASSUME Typed, Reader, Readable, phase = "resolve", deltas # <<>>, NEW k \in Settled \cup {Head(deltas)}, IsDelta(pack[k])
  PROVE  \E j \in Settled : BaseOf(pack[k]) = pack[j].loc /\ Based(pack, pack[k], Meaning, j)
<1> DEFINE h == Head(deltas)
<1>1. Knowing /\ Right
  BY ReadableIs, ReaderKnows
<1>2. IsPack(pack) /\ Len(pack) \in Nat /\ read = Len(pack) /\ Queued
  BY TypedGives DEF Typed, AllRead
<1>3. /\ h \in 1..read /\ h \in Range(deltas)
      /\ \A d \in Range(deltas) : h <= d
  BY HeadIs DEF Reader
<1>4. \A d \in Range(deltas) : d \in Nat
  BY <1>2 DEF Queued
<1>5. k \in 1..read /\ \A d \in Range(deltas) : k <= d
  <2>1. CASE k \in Settled
    BY <1>1, <2>1, SettledClosed DEF Closed
  <2>2. CASE k = h
    BY <1>3, <2>2
  <2> QED BY <2>1, <2>2
<1>6. BaseOf(pack[k]) \in Locations
  <2>1. CASE pack[k].type = "ofs"
    <3>1. PICK j \in 1..k - 1 : pack[j].loc = Before(pack[k])
      BY <1>5, <2>1 DEF Reader, BasesRead
    <3>2. j \in 1..Len(pack)
      BY <1>2, <1>5
    <3> QED BY <2>1, <3>1, <3>2 DEF BaseOf, Locations
  <2>2. CASE pack[k].type = "ref"
    <3>1. pack[k].ref \in DOMAIN prior /\ BaseOf(pack[k]) = prior[pack[k].ref]
      BY <1>5, <2>2 DEF Reader, BasesRead, BaseOf
    <3>2. prior[pack[k].ref] # 0
      <4>1. CASE k \in Settled
        BY <1>1, <2>2, <4>1 DEF Right, PriorRight, Readable
      <4>2. CASE k = h
        <5>1. PICK j \in 1..Len(pack) : IdOf(Meaning[j]) = pack[k].ref /\ (j < k \/ ~IsDelta(pack[j]))
          BY <1>2, <1>5, <2>2 DEF Readable
        <5>2. j \notin Range(deltas)
          BY <1>2, <1>3, <1>4, <4>2, <5>1 DEF Queued, DeltasAre
        <5>3. j \in Settled
          BY <1>2, <5>2 DEF Settled
        <5> QED BY <1>1, <5>1, <5>3 DEF Right, PriorRight, Readable
      <4> QED BY <4>1, <4>2
    <3>3. PICK j \in Settled : prior[pack[k].ref] = pack[j].loc
      BY <1>1, <3>1, <3>2 DEF Right, PriorRight
    <3> QED BY <1>2, <3>1, <3>3 DEF Settled, Locations
  <2>3. Formed(pack[k])
    BY <1>2, <1>5 DEF IsPack
  <2> QED BY <2>1, <2>2, <2>3, DeltaTypes
<1> QED
  BY <1>1, <1>5, <1>6, BaseSettled DEF Knowing

\* And is read there.
LEMMA BaseIsRead ==
  ASSUME Typed, Reader, Readable, phase = "resolve", deltas # <<>>
  PROVE  BaseValue # Nothing
<1> DEFINE bases == BasesNow
           h == Head(deltas)
<1>1. Knowing /\ Right
  BY ReadableIs, ReaderKnows
<1>2. IsPack(pack) /\ Once
  BY TypedGives DEF Readable
<1>3. Closed(Settled)
  BY <1>1, SettledClosed
<1>4. Settled \in SUBSET (1..Len(pack)) /\ \A k \in Settled : Meaning[k] # Nothing
  BY <1>1, <1>3, ClosedBases DEF Closed
<1>5. ASSUME NEW k \in Settled, IsDelta(pack[k])
      PROVE  \E j \in Settled : BaseAt(bases, k, j) /\ \A i : Based(pack, pack[k], Meaning, i) => i = j
  <2>1. PICK j \in Settled : BaseOf(pack[k]) = pack[j].loc /\ Based(pack, pack[k], Meaning, j)
    BY <1>5, BasePlaced
  <2>2. bases[pack[k].loc] = BaseOf(pack[k])
    BY <1>2, <1>4, EntryAtIs DEF BasesNow
  <2>3. k \in 1..Len(pack)
    BY <1>4
  <2>4. \A i : Based(pack, pack[k], Meaning, i) => i = j
    BY <1>2, <1>5, <2>1, <2>3, OneBase
  <2> QED BY <2>1, <2>2, <2>4 DEF BaseAt
<1>6. \A l : ValueAt(l) = Follow(l, cache, bases)
  BY DEF ValueAt, BasesNow
<1> HIDE DEF bases
<1>7. \A k \in Settled : Follow(pack[k].loc, cache, bases) = Meaning[k]
  <2>1. KnownRight(cache)
    BY <1>1 DEF Right
  <2> QED BY <1>2, <1>4, <1>5, <2>1, FollowKnows
<1>8. PICK j \in Settled : BaseOf(pack[h]) = pack[j].loc
  <2>1. IsDelta(pack[h])
    BY HeadIs DEF Reader
  <2> QED BY <2>1, BasePlaced
<1> QED
  BY <1>4, <1>6, <1>7, <1>8 DEF BaseValue, Waiting

\* Such a pack is never refused.
NotRefused == Readable => outcome \in {"running", "ok", "cut", "unwritten"} \/ todo # <<>>

\* Every step keeps that.
LEMMA NextNotRefused == Typed /\ Reader /\ NotRefused /\ [Next]_vars => NotRefused'
<1> SUFFICES ASSUME Typed, Reader, NotRefused, [Next]_vars, Readable', ~(outcome' \in {"running", "ok", "cut", "unwritten"})
             PROVE  todo' # <<>>
  BY DEF NotRefused
<1>1. CASE PackObject
  BY <1>1 DEF PackObject, Typed, TypeOK
<1>3. CASE UNCHANGED vars
  <2>1. UNCHANGED <<opts, pack, outcome, todo, lost>> /\ Meaning' = Meaning
    BY <1>3, MeaningStays DEF vars
  <2>2. Readable
    BY <2>1 DEF Readable, Once, Range
  <2> QED BY <2>1, <2>2 DEF NotRefused
<1>4. CASE Next /\ ~PackObject
  <2>1. UNCHANGED <<opts, todo, pack>> /\ Meaning' = Meaning /\ lost \subseteq lost'
    BY <1>4, OthersLeave, MeaningStays
  <2>2. Readable
    BY <2>1 DEF Readable, Once, Range
  <2>3. IsPack(pack) /\ Len(pack) \in Nat /\ read \in 0..Len(pack) /\ \A k \in 1..Len(pack) : Meaning[k] # Nothing
    BY <2>2, ReadableIs, TypedGives
  <2> SUFFICES ASSUME todo = <<>> PROVE FALSE
    BY <2>1
  <2>4. ~UNCHANGED outcome
    BY <2>2 DEF NotRefused
  <2>5. CASE ReadFull \/ WriteFails \/ ReadRef \/ Open \/ Cut \/ ReadTrailer \/ UnpackDelta \/ SkipDelta \/ PackPanics
    BY <2>4, <2>5 DEF PackPanics, ReadFull, WriteFails, ReadRef, Open, Cut, Stop, ReadTrailer, UnpackDelta, SkipDelta
  <2>6. CASE ReadOfs
    <3>1. read + 1 \in 1..Len(pack) /\ This.type = "ofs" /\ This = pack[read + 1]
      BY <2>3, <2>6 DEF ReadOfs, Reading, This
    <3>2. \E j \in 1..(read + 1) - 1 : pack[j].loc = Before(This)
      BY <2>3, <3>1, BaseBefore
    <3>3. (read + 1) - 1 = read
      BY <2>3
    <3> QED BY <2>4, <2>6, <3>2, <3>3 DEF ReadOfs
  <2>7. CASE NoBase
    <3>1. phase = "resolve" /\ deltas # <<>> /\ BaseValue = Nothing
      BY <2>7 DEF NoBase, Resolving
    <3> QED BY <2>2, <3>1, BaseIsRead
  <2>8. CASE IndexDelta
    <3>1. phase = "resolve" /\ deltas # <<>> /\ BaseValue # Nothing
      BY <2>8 DEF IndexDelta, Resolving
    <3>2. Knowing
      BY <2>2, ReadableIs, ReaderKnows
    <3>3. Meaning[Head(deltas)] # Nothing
      BY <2>3, <3>1, HeadIs DEF Reader
    <3>4. Result.ok /\ SizeIsRight(Waiting.data, Result.content)
      BY <3>1, <3>2, <3>3, WaitingMeans
    <3> QED BY <2>4, <2>8, <3>4 DEF IndexDelta
  <2>9. CASE Finish
    <3>1. ~failed
      BY <2>2 DEF Reader, EndsWell, Readable
    <3> QED BY <2>9, <3>1 DEF Finish, Stop
  <2> QED BY <1>4, <2>5, <2>6, <2>7, <2>8, <2>9 DEF Next
<1> QED
  BY <1>1, <1>3, <1>4

\* A pack that has each object once, and each base that is itself a delta
\* before what needs it by hash, is read to its end unless the file is cut
\* or an object cannot be written.
THEOREM PacksAreAccepted == Spec => []Accepts
<1>1. Init => NotRefused
  BY DEF Init, NotRefused
<1>2. ASSUME Typed, NotRefused PROVE Accepts
  <2> SUFFICES ASSUME phase = "done", outcome \notin {"cut", "unwritten"}, todo = <<>>, Readable PROVE outcome = "ok"
    BY DEF Accepts, Readable
  <2>1. outcome \in {"running", "ok", "cut", "unwritten"}
    BY <1>2 DEF NotRefused
  <2> QED BY <1>2, <2>1 DEF Typed, TypeOK
<1> QED
  BY <1>1, <1>2, InitTyped, NextTyped, InitReader, NextReader, NextNotRefused, PTL DEF Spec

-----------------------------------------------------------------------------
(* The index that is written.                                              *)

Hashes == Object \cup {Unknown}
Tables(n) ==
  [ids : [1..n -> Hashes], four : Seq([far : BOOLEAN, val : Nat]), eight : Seq(Nat), fanout : [0..LastByte -> Nat]]

\* An offset more is all that is new for an entry.
LEMMA LocatedIs ==
  ASSUME NEW n \in Nat, NEW i \in Tables(n), NEW loc \in Nat
  PROVE  /\ Located(i, loc) \in Tables(n) /\ Located(i, loc).ids = i.ids /\ Located(i, loc).fanout = i.fanout
         /\ i.four \in Seq([far : BOOLEAN, val : Nat])
         /\ \E x : /\ Located(i, loc).four = Append(i.four, x)
                   /\ loc < Far => x = [far |-> FALSE, val |-> loc]
<1> DEFINE x == IF loc < Far THEN [far |-> FALSE, val |-> loc] ELSE [far |-> TRUE, val |-> Len(i.eight)]
           e == IF loc < Far THEN i.eight ELSE Append(i.eight, loc)
<1>1. /\ i.eight \in Seq(Nat) /\ i.four \in Seq([far : BOOLEAN, val : Nat])
      /\ i.ids \in [1..n -> Hashes] /\ i.fanout \in [0..LastByte -> Nat]
      /\ i = [ids |-> i.ids, four |-> i.four, eight |-> i.eight, fanout |-> i.fanout]
  BY DEF Tables
<1>2. Far \in Nat
  BY PacksAssumption
<1>3. x \in [far : BOOLEAN, val : Nat] /\ e \in Seq(Nat)
  BY <1>1
<1>4. Located(i, loc) = [ids |-> i.ids, four |-> Append(i.four, x), eight |-> e, fanout |-> i.fanout]
  BY <1>1 DEF Located
<1>5. Append(i.four, x) \in Seq([far : BOOLEAN, val : Nat])
  BY <1>1, <1>3
<1>6. loc < Far => x = [far |-> FALSE, val |-> loc]
  OBVIOUS
<1> HIDE DEF x, e
<1>7. Located(i, loc) \in Tables(n)
  BY <1>1, <1>3, <1>4, <1>5 DEF Tables
<1> QED
  BY <1>1, <1>4, <1>6, <1>7

\* The hash of an entry is noted, and counted for each first byte from its own.
LEMMA HashedIs ==
  ASSUME NEW n \in Nat, NEW i \in Tables(n), NEW k \in 1..n, NEW id \in Hashes
  PROVE  /\ Hashed(i, k, id) \in Tables(n) /\ Hashed(i, k, id).four = i.four
         /\ Hashed(i, k, id).ids = [i.ids EXCEPT ![k] = id]
         /\ i.ids \in [1..n -> Hashes]
         /\ \A b \in 0..LastByte : Hashed(i, k, id).fanout[b] = i.fanout[b] + (IF b >= First[id] THEN 1 ELSE 0)
<1> DEFINE f == [b \in 0..LastByte |-> i.fanout[b] + (IF b >= First[id] THEN 1 ELSE 0)]
<1>1. /\ i.eight \in Seq(Nat) /\ i.four \in Seq([far : BOOLEAN, val : Nat])
      /\ i.ids \in [1..n -> Hashes] /\ i.fanout \in [0..LastByte -> Nat]
      /\ i = [ids |-> i.ids, four |-> i.four, eight |-> i.eight, fanout |-> i.fanout]
  BY DEF Tables
<1> DEFINE j == [i EXCEPT !.ids[k] = id]
<1>2. f \in [0..LastByte -> Nat]
  <2> SUFFICES ASSUME NEW b \in 0..LastByte PROVE i.fanout[b] + (IF b >= First[id] THEN 1 ELSE 0) \in Nat
    OBVIOUS
  <2>1. i.fanout[b] \in Nat
    BY <1>1
  <2> QED BY <2>1
<1>3. \A b \in 0..LastByte : f[b] = i.fanout[b] + (IF b >= First[id] THEN 1 ELSE 0)
  OBVIOUS
<1>4. Hashed(i, k, id) = [ids |-> [i.ids EXCEPT ![k] = id], four |-> i.four, eight |-> i.eight, fanout |-> f]
  <2>1. j = [ids |-> [i.ids EXCEPT ![k] = id], four |-> i.four, eight |-> i.eight, fanout |-> i.fanout]
    <3> DEFINE g == [i.ids EXCEPT ![k] = id]
    <3>1. j = [i EXCEPT !.ids = g]
      OBVIOUS
    <3> HIDE DEF g, j
    <3>2. j = [ids |-> g, four |-> i.four, eight |-> i.eight, fanout |-> i.fanout]
      BY <1>1, <3>1
    <3> QED BY <3>2 DEF g
  <2>2. j.fanout = i.fanout
    BY <2>1
  <2>3. Hashed(i, k, id) = [j EXCEPT !.fanout = f]
    BY <2>2 DEF Hashed
  <2> QED BY <2>1, <2>3
<1>5. [i.ids EXCEPT ![k] = id] \in [1..n -> Hashes]
  BY <1>1
<1> HIDE DEF f
<1>6. Hashed(i, k, id) \in Tables(n)
  BY <1>1, <1>2, <1>4, <1>5 DEF Tables
<1> QED
  BY <1>1, <1>3, <1>4, <1>6

\* The entries among some whose hash has at most a first byte.
UpTo(S, b) == {k \in S : First[IdOf(Meaning[k])] <= b}

\* One more is counted where its first byte is reached.
LEMMA CountMore ==
  ASSUME NEW S, IsFiniteSet(S), NEW k, k \notin S, NEW b
  PROVE  Cardinality(UpTo(S \cup {k}, b)) =
           Cardinality(UpTo(S, b)) + (IF First[IdOf(Meaning[k])] <= b THEN 1 ELSE 0)
<1>1. IsFiniteSet(UpTo(S, b)) /\ k \notin UpTo(S, b)
  BY FS_Subset DEF UpTo
<1>2. Cardinality(UpTo(S, b)) \in Nat
  BY <1>1, FS_CardinalityType
<1>3. CASE First[IdOf(Meaning[k])] <= b
  <2>1. UpTo(S \cup {k}, b) = UpTo(S, b) \cup {k}
    BY <1>3 DEF UpTo
  <2> QED BY <1>1, <1>3, <2>1, FS_AddElement
<1>4. CASE ~(First[IdOf(Meaning[k])] <= b)
  <2>1. UpTo(S \cup {k}, b) = UpTo(S, b)
    BY <1>4 DEF UpTo
  <2> QED BY <1>2, <1>4, <2>1
<1> QED
  BY <1>3, <1>4

\* The tables while they are made: the offsets of what was read, and the hashes
\* of what is settled, each counted.
FourIs(four, n) == /\ Len(four) = n
                   /\ \A k \in 1..n : pack[k].loc < Far => four[k] = [far |-> FALSE, val |-> pack[k].loc]
Tabled ==
  /\ pack # <<>>
  /\ index \in Tables(Len(pack)) /\ FourIs(index.four, read)
  /\ \A k \in Settled : index.ids[k] = IdOf(Meaning[k])
  /\ \A b \in 0..LastByte : index.fanout[b] = Cardinality(UpTo(Settled, b))

\* And when they are sorted.
Sorted(order) ==
  /\ order \in Bijection(1..Len(pack), 1..Len(pack))
  /\ index.ids = [k \in 1..Len(pack) |-> IdOf(Meaning[order[k]])]
  /\ \A a, b \in 1..Len(pack) : a < b => index.ids[a] <= index.ids[b]
  /\ \A k \in 1..Len(pack) :
       pack[order[k]].loc < Far => index.four[k] = [far |-> FALSE, val |-> pack[order[k]].loc]
  /\ \A b \in 0..LastByte : index.fanout[b] = Cardinality(UpTo(1..Len(pack), b))

Untouched ==
  index = [ids |-> <<>>, four |-> <<>>, eight |-> <<>>, fanout |-> [b \in 0..LastByte |-> 0]]

Indexed ==
  /\ pack # <<>> \/ todo # <<>>
  /\ opts.use = "index" =>
       /\ phase = "pack" => Untouched
       /\ phase \in {"read", "resolve"} => Tabled
       /\ phase = "done" /\ outcome = "ok" => pack # <<>> /\ \E order : Sorted(order)

\* A pack starts with something in it or to be put in it.
LEMMA InitIndexed == Init => Indexed
<1> SUFFICES ASSUME Init PROVE Indexed
  OBVIOUS
<1>1. pack # <<>> \/ todo # <<>>
  <2>1. CASE opts.own
    BY <2>1, PacksAssumption DEF Init
  <2>2. CASE ~opts.own
    <3>1. PICK s \in Sent : pack = SentPack(s)
      BY <2>2 DEF Init
    <3>2. Len(pack) \in Nat \ {0}
      BY <3>1, SentPackIs
    <3> QED BY <3>2, EmptyPack
  <2> QED BY <2>1, <2>2
<1> QED
  BY <1>1 DEF Init, Indexed, Untouched

\* What is settled is finite, and in the file.
LEMMA SettledIs ==
  ASSUME Typed
  PROVE  IsFiniteSet(Settled) /\ Settled \subseteq 1..read /\ Settled \subseteq 1..Len(pack)
<1>1. read \in 0..Len(pack) /\ Len(pack) \in Nat /\ read \in Nat
  BY TypedGives
<1>2. Settled \subseteq 1..read
  BY DEF Settled
<1>3. IsFiniteSet(1..read)
  BY <1>1, FS_Interval
<1>4. IsFiniteSet(Settled)
  BY <1>2, <1>3, FS_Subset
<1> QED
  BY <1>1, <1>2, <1>4

\* The tables are made.
LEMMA OpenIndexed ==
  ASSUME Typed, Indexed, opts.use = "index", Open
  PROVE  Tabled'
<1>1. phase = "pack" /\ todo = <<>> /\ UNCHANGED <<pack, read, deltas>>
      /\ index' = [index EXCEPT !.ids = [k \in 1..Len(pack) |-> Unknown]]
  BY DEF Open
<1>2. pack # <<>> /\ Untouched
  BY <1>1 DEF Indexed
<1>3. read = 0 /\ Len(pack) \in Nat
  BY <1>1, TypedGives DEF Typed, Fresh
<1> DEFINE ids == [k \in 1..Len(pack) |-> Unknown]
           none == <<>>
           zero == [b \in 0..LastByte |-> 0]
<1>4. ids \in [1..Len(pack) -> Hashes] /\ none \in Seq([far : BOOLEAN, val : Nat]) /\ none \in Seq(Nat)
      /\ Len(none) = 0 /\ zero \in [0..LastByte -> Nat] /\ \A b \in 0..LastByte : zero[b] = 0
  BY DEF Hashes
<1>5. index' = [ids |-> ids, four |-> none, eight |-> none, fanout |-> zero]
  BY <1>1, <1>2 DEF Untouched
<1> HIDE DEF ids, none, zero
<1>6. index' \in Tables(Len(pack))
  BY <1>4, <1>5 DEF Tables
<1>7. Settled' = {}
  BY <1>1, <1>3 DEF Settled
<1>8. \A b \in 0..LastByte : index'.fanout[b] = Cardinality(UpTo(Settled, b)')
  <2>1. \A b \in 0..LastByte : UpTo(Settled, b)' = {}
    BY <1>7 DEF UpTo
  <2> QED BY <1>4, <1>5, <2>1, FS_EmptySet
<1>9. FourIs(index.four, read)'
  BY <1>1, <1>3, <1>4, <1>5 DEF FourIs
<1> QED
  BY <1>1, <1>2, <1>6, <1>7, <1>8, <1>9 DEF Tabled

\* An offset more.
LEMMA FourMore ==
  ASSUME NEW S, NEW four \in Seq(S), NEW n \in Nat, FourIs(four, n), NEW x,
         pack[n + 1].loc < Far => x = [far |-> FALSE, val |-> pack[n + 1].loc]
  PROVE  FourIs(Append(four, x), n + 1)
<1>1. Len(four) = n
  BY DEF FourIs
<1>2. Len(Append(four, x)) = n + 1 /\ Append(four, x)[n + 1] = x
  BY <1>1
<1>3. \A k \in 1..n : Append(four, x)[k] = four[k]
  BY <1>1
<1>4. ASSUME NEW k \in 1..n + 1, pack[k].loc < Far
      PROVE  Append(four, x)[k] = [far |-> FALSE, val |-> pack[k].loc]
  <2>1. CASE k = n + 1
    BY <1>2, <1>4, <2>1
  <2>2. CASE k # n + 1
    <3>1. k \in 1..n
      BY <2>2
    <3> QED BY <1>3, <1>4, <3>1 DEF FourIs
  <2> QED BY <2>1, <2>2
<1> QED
  BY <1>2, <1>4 DEF FourIs

\* One more is settled.
LEMMA HashedMore ==
  ASSUME Typed, pack # <<>>, UNCHANGED pack, NEW k \in 1..Len(pack), k \notin Settled, Settled' = Settled \cup {k},
         NEW i \in Tables(Len(pack)), FourIs(i.four, read'),
         \A j \in Settled : i.ids[j] = IdOf(Meaning[j]),
         \A b \in 0..LastByte : i.fanout[b] = Cardinality(UpTo(Settled, b)),
         index' = Hashed(i, k, IdOf(Meaning[k]))
  PROVE  Tabled'
<1> DEFINE id == IdOf(Meaning[k])
<1>1. Len(pack) \in Nat /\ IsFiniteSet(Settled) /\ Settled \subseteq 1..Len(pack)
  BY TypedGives, SettledIs
<1>2. id \in Hashes
  BY IdsAre DEF Hashes
<1>3. Meaning' = Meaning
  BY MeaningStays
<1> HIDE DEF id
<1>4. index' = Hashed(i, k, id)
  BY DEF id
<1>5. /\ index' \in Tables(Len(pack)) /\ index'.four = i.four
      /\ index'.ids = [i.ids EXCEPT ![k] = id] /\ i.ids \in [1..Len(pack) -> Hashes]
      /\ \A b \in 0..LastByte : index'.fanout[b] = i.fanout[b] + (IF b >= First[id] THEN 1 ELSE 0)
  BY <1>1, <1>2, <1>4, HashedIs
<1>6. \A j \in Settled' : index'.ids[j] = IdOf(Meaning[j])
  <2> SUFFICES ASSUME NEW j \in Settled' PROVE index'.ids[j] = IdOf(Meaning[j])
    OBVIOUS
  <2>1. CASE j = k
    BY <1>5, <2>1 DEF id
  <2>2. CASE j # k
    <3>1. j \in Settled /\ j \in 1..Len(pack)
      BY <1>1, <2>2
    <3> QED BY <1>5, <2>2, <3>1
  <2> QED BY <2>1, <2>2
<1>7. \A b \in 0..LastByte : index'.fanout[b] = Cardinality(UpTo(Settled \cup {k}, b))
  <2> SUFFICES ASSUME NEW b \in 0..LastByte PROVE index'.fanout[b] = Cardinality(UpTo(Settled \cup {k}, b))
    OBVIOUS
  <2>1. First[id] \in 0..LastByte /\ LastByte \in Nat
    BY <1>2, ObjectAssumption DEF Hashes
  <2>2. (b >= First[id]) <=> (First[id] <= b)
    BY <2>1
  <2>3. Cardinality(UpTo(Settled \cup {k}, b)) = Cardinality(UpTo(Settled, b)) + (IF First[id] <= b THEN 1 ELSE 0)
    BY <1>1, CountMore DEF id
  <2> QED BY <1>5, <2>2, <2>3
<1>8. \A b : UpTo(Settled, b)' = UpTo(Settled \cup {k}, b)
  BY <1>3 DEF UpTo
<1>9. FourIs(index.four, read)'
  BY <1>5 DEF FourIs
<1> QED
  BY <1>3, <1>5, <1>6, <1>7, <1>8, <1>9 DEF Tabled

\* A whole entry.
LEMMA ReadFullIndexed ==
  ASSUME Typed, Reader, Tabled, opts.use = "index", ReadFull
  PROVE  Tabled'
<1> DEFINE r == read + 1
           i == Located(index, This.loc)
           v == [kind |-> This.type, content |-> This.data]
<1>1. /\ phase = "read" /\ read < Len(pack) /\ This.type \in Kinds /\ This = pack[r]
      /\ index' = Hashed(i, r, IdOf(v)) /\ read' = r /\ UNCHANGED <<pack, deltas>>
  BY DEF ReadFull, Reading, This
<1>2. IsPack(pack) /\ Len(pack) \in Nat /\ read \in Nat /\ r \in 1..Len(pack) /\ r \notin 1..read
  BY <1>1, TypedGives
<1>3. Formed(pack[r]) /\ ~IsDelta(pack[r])
  BY <1>1, <1>2 DEF IsPack, IsDelta
<1>4. v = Meaning[r]
  <2>1. v = Whole(pack[r])
    BY <1>1 DEF Whole
  <2> QED BY <1>2, <1>3, <2>1, BasedMeans
<1>5. Settled' = Settled \cup {r} /\ r \notin Settled
  BY <1>1, <1>2, SettledMore DEF Settled
<1>6. This.loc \in Nat
  BY <1>1, <1>3 DEF Formed
<1>7. /\ pack # <<>> /\ index \in Tables(Len(pack)) /\ FourIs(index.four, read)
      /\ \A k \in Settled : index.ids[k] = IdOf(Meaning[k])
      /\ \A b \in 0..LastByte : index.fanout[b] = Cardinality(UpTo(Settled, b))
  BY DEF Tabled
<1>8. /\ i \in Tables(Len(pack)) /\ i.ids = index.ids /\ i.fanout = index.fanout
      /\ index.four \in Seq([far : BOOLEAN, val : Nat])
      /\ \E x : i.four = Append(index.four, x) /\ (This.loc < Far => x = [far |-> FALSE, val |-> This.loc])
  BY <1>2, <1>6, <1>7, LocatedIs
<1>9. FourIs(i.four, r)
  BY <1>1, <1>2, <1>7, <1>8, FourMore
<1>10. index' = Hashed(i, r, IdOf(Meaning[r]))
  BY <1>1, <1>4
<1> HIDE DEF i, v
<1> QED
  BY <1>1, <1>2, <1>5, <1>7, <1>8, <1>9, <1>10, HashedMore

\* A delta.
LEMMA NotedIndexed ==
  ASSUME Typed, Tabled, opts.use = "index", phase = "read", read < Len(pack), Noted,
         read' = read + 1, deltas' = Append(deltas, read + 1), UNCHANGED pack
  PROVE  Tabled'
<1> DEFINE r == read + 1
<1>1. This = pack[r] /\ index' = Located(index, This.loc)
  BY DEF Noted, This
<1>2. IsPack(pack) /\ Len(pack) \in Nat /\ read \in Nat /\ r \in 1..Len(pack)
  BY TypedGives
<1>3. Settled' = Settled /\ Meaning' = Meaning
  BY SettledMore, MeaningStays
<1>4. This.loc \in Nat
  BY <1>1, <1>2 DEF IsPack, Formed
<1>5. /\ pack # <<>> /\ index \in Tables(Len(pack)) /\ FourIs(index.four, read)
      /\ \A k \in Settled : index.ids[k] = IdOf(Meaning[k])
      /\ \A b \in 0..LastByte : index.fanout[b] = Cardinality(UpTo(Settled, b))
  BY DEF Tabled
<1>6. /\ index' \in Tables(Len(pack)) /\ index'.ids = index.ids /\ index'.fanout = index.fanout
      /\ index.four \in Seq([far : BOOLEAN, val : Nat])
      /\ \E x : index'.four = Append(index.four, x) /\ (This.loc < Far => x = [far |-> FALSE, val |-> This.loc])
  <2> DEFINE i == Located(index, This.loc)
  <2>1. /\ i \in Tables(Len(pack)) /\ i.ids = index.ids /\ i.fanout = index.fanout
        /\ index.four \in Seq([far : BOOLEAN, val : Nat])
        /\ \E x : i.four = Append(index.four, x) /\ (This.loc < Far => x = [far |-> FALSE, val |-> This.loc])
    BY <1>2, <1>4, <1>5, LocatedIs
  <2>2. index' = i
    BY <1>1
  <2> HIDE DEF i
  <2> QED BY <2>1, <2>2
<1>7. FourIs(index'.four, r)
  BY <1>1, <1>2, <1>5, <1>6, FourMore
<1>8. FourIs(index.four, read)'
  BY <1>7 DEF FourIs
<1>9. \A b : UpTo(Settled, b)' = UpTo(Settled, b)
  BY <1>3 DEF UpTo
<1> QED
  BY <1>3, <1>5, <1>6, <1>8, <1>9 DEF Tabled

\* A delta is resolved.
LEMMA IndexDeltaIndexed ==
  ASSUME Typed, Reader, Tabled, IndexDelta, phase' = "resolve"
  PROVE  Tabled'
<1> DEFINE h == Head(deltas)
<1>1. /\ phase = "resolve" /\ deltas # <<>> /\ opts.use = "index" /\ BaseValue # Nothing /\ UNCHANGED <<pack, read>>
      /\ Result.ok /\ SizeIsRight(Waiting.data, Result.content)
      /\ index' = Hashed(index, h, IdOf(ResultValue)) /\ deltas' = Tail(deltas)
  BY DEF IndexDelta, Resolving, Stop
<1>2. Knowing /\ InOrder
  BY <1>1, ReaderKnows DEF Sound, Reader
<1>3. h = Head(deltas)
  OBVIOUS
<1> HIDE DEF h
<1>4. ResultValue = Meaning[h]
  BY <1>1, <1>2, <1>3, WaitingMeans
<1>5. /\ h \in 1..read /\ h \in Range(deltas) /\ h \notin Settled
      /\ \A d \in Range(Tail(deltas)) : h < d
      /\ Range(deltas) = {h} \cup Range(Tail(deltas))
  BY <1>1, <1>2, <1>3, HeadIs
<1>6. h \in 1..Len(pack) /\ h \in Nat
  BY <1>5, TypedGives
<1>7. h \notin Range(Tail(deltas))
  BY <1>5, <1>6
<1>8. Settled' = Settled \cup {h}
  <2>1. Range(deltas') = Range(Tail(deltas))
    BY <1>1
  <2> QED BY <1>1, <1>5, <1>7, <2>1 DEF Settled
<1>9. /\ pack # <<>> /\ index \in Tables(Len(pack)) /\ FourIs(index.four, read')
      /\ \A k \in Settled : index.ids[k] = IdOf(Meaning[k])
      /\ \A b \in 0..LastByte : index.fanout[b] = Cardinality(UpTo(Settled, b))
  BY <1>1 DEF Tabled
<1>10. index' = Hashed(index, h, IdOf(Meaning[h]))
  BY <1>1, <1>4
<1> QED
  BY <1>1, <1>5, <1>6, <1>8, <1>9, <1>10, HashedMore

\* When nothing waits all is settled.
LEMMA AllSettled ==
  ASSUME Typed, read = Len(pack), deltas = <<>>
  PROVE  Settled = 1..Len(pack)
<1>1. Range(deltas) = {}
  BY DEF Range
<1> QED
  BY <1>1 DEF Settled

\* The tables are sorted.
LEMMA FinishIndexed ==
  ASSUME Typed, Tabled, opts.use = "index", Finish
  PROVE  pack' # <<>> /\ \E order : Sorted(order)'
<1> DEFINE N == Len(pack)
<1>1. phase = "resolve" /\ deltas = <<>> /\ UNCHANGED pack
  BY DEF Finish
<1>2. PICK order \in Bijection(1..N, 1..N) :
        /\ \A a, b \in 1..N : a < b => index.ids[order[a]] <= index.ids[order[b]]
        /\ index' = [index EXCEPT !.ids = [k \in 1..N |-> index.ids[order[k]]],
                                  !.four = [k \in 1..N |-> index.four[order[k]]]]
  BY DEF Finish
<1>3. order \in [1..N -> 1..N]
  BY <1>2 DEF Bijection, Surjection
<1>4. read = N /\ N \in Nat
  BY <1>1, TypedGives DEF Typed, AllRead
<1>5. Settled = 1..N
  BY <1>1, <1>4, AllSettled
<1>6. /\ pack # <<>> /\ index \in Tables(N) /\ FourIs(index.four, N)
      /\ \A k \in 1..N : index.ids[k] = IdOf(Meaning[k])
      /\ \A b \in 0..LastByte : index.fanout[b] = Cardinality(UpTo(1..N, b))
  BY <1>4, <1>5 DEF Tabled
<1>7. index = [ids |-> index.ids, four |-> index.four, eight |-> index.eight, fanout |-> index.fanout]
  BY <1>6 DEF Tables
<1>8. index' = [ids |-> [k \in 1..N |-> index.ids[order[k]]], four |-> [k \in 1..N |-> index.four[order[k]]],
                eight |-> index.eight, fanout |-> index.fanout]
  BY <1>2, <1>7
<1>9. Meaning' = Meaning /\ \A b : UpTo(1..N, b)' = UpTo(1..N, b)
  <2>1. Meaning' = Meaning
    BY <1>1, MeaningStays
  <2> QED BY <1>1, <2>1 DEF UpTo
<1>10. index'.ids = [k \in 1..N |-> IdOf(Meaning[order[k]])]
  <2>1. \A k \in 1..N : index.ids[order[k]] = IdOf(Meaning[order[k]])
    BY <1>3, <1>6
  <2> QED BY <1>8, <2>1
<1>11. \A a, b \in 1..N : a < b => index'.ids[a] <= index'.ids[b]
  <2>1. \A k \in 1..N : index'.ids[k] = index.ids[order[k]]
    BY <1>8
  <2> QED BY <1>2, <2>1
<1>12. \A k \in 1..N : pack[order[k]].loc < Far => index'.four[k] = [far |-> FALSE, val |-> pack[order[k]].loc]
  <2> SUFFICES ASSUME NEW k \in 1..N, pack[order[k]].loc < Far
               PROVE  index'.four[k] = [far |-> FALSE, val |-> pack[order[k]].loc]
    OBVIOUS
  <2>1. index'.four[k] = index.four[order[k]]
    BY <1>8
  <2>2. order[k] \in 1..N
    BY <1>3
  <2> QED BY <1>6, <2>1, <2>2 DEF FourIs
<1>13. \A b \in 0..LastByte : index'.fanout[b] = Cardinality(UpTo(1..N, b))
  BY <1>6, <1>8
<1>14. Sorted(order)'
  BY <1>1, <1>2, <1>9, <1>10, <1>11, <1>12, <1>13 DEF Sorted
<1>15. pack' # <<>>
  BY <1>1, <1>6
<1> QED
  BY <1>14, <1>15

\* Every step keeps what an index is, while it is made and when it is written.
LEMMA NextIndexed == Typed /\ Reader /\ Indexed /\ [Next]_vars => Indexed'
<1> SUFFICES ASSUME Typed, Reader, Indexed, [Next]_vars PROVE Indexed'
  OBVIOUS
<1>1. CASE UNCHANGED vars
  <2>1. UNCHANGED <<opts, phase, outcome, todo, pack, read, deltas, index>> /\ Meaning' = Meaning /\ Settled' = Settled
    BY <1>1, MeaningStays DEF vars, Settled, Range
  <2>2. Tabled => Tabled'
    BY <2>1 DEF Tabled, FourIs, UpTo
  <2>3. \A order : Sorted(order) => Sorted(order)'
    BY <2>1 DEF Sorted, UpTo
  <2> QED BY <2>1, <2>2, <2>3 DEF Indexed, Untouched
<1>2. CASE PackObject
  <2>1. phase = "pack" /\ UNCHANGED <<opts, phase, index>> /\ \E e : pack' = Append(pack, e)
    BY <1>2 DEF PackObject
  <2>2. pack' # <<>>
    BY <2>1, TypedGives DEF IsPack
  <2> QED BY <2>1, <2>2 DEF Indexed, Untouched
<1>3. CASE Next /\ ~PackObject
  <2>1. UNCHANGED <<opts, todo, pack>>
    BY <1>3, OthersLeave
  <2>2. pack' # <<>> \/ todo' # <<>>
    BY <2>1 DEF Indexed
  <2> SUFFICES ASSUME opts.use = "index"
               PROVE  /\ phase' = "pack" => Untouched'
                      /\ phase' \in {"read", "resolve"} => Tabled'
                      /\ phase' = "done" /\ outcome' = "ok" => pack' # <<>> /\ \E order : Sorted(order)'
    BY <2>1, <2>2 DEF Indexed
  <2>3. ~opts.recover
    BY DEF Typed, OptionsAre
  <2>4. CASE PackPanics \/ WriteFails \/ Cut
    BY <2>4 DEF PackPanics, WriteFails, Cut, Stop
  <2>5. CASE NoBase
    BY <2>3, <2>5 DEF NoBase, Stop
  <2>6. CASE Open
    <3>1. Tabled' /\ phase' = "read"
      BY <2>6, OpenIndexed DEF Open
    <3> QED BY <3>1
  <2>7. CASE ReadFull
    <3>1. Tabled' /\ phase' = "read"
      BY <2>7, ReadFullIndexed DEF ReadFull, Reading, Indexed
    <3> QED BY <3>1
  <2>8. CASE ReadRef \/ ReadOfs
    <3>1. phase = "read" /\ read < Len(pack) /\ Noted /\ Tabled
      BY <2>8 DEF ReadRef, ReadOfs, Reading, Indexed
    <3>2. \/ phase' = "read" /\ read' = read + 1 /\ deltas' = Append(deltas, read + 1)
          \/ phase' = "done" /\ outcome' = "panic"
      BY <2>8, <3>1 DEF ReadRef, ReadOfs, Stop
    <3>3. CASE phase' = "read" /\ read' = read + 1 /\ deltas' = Append(deltas, read + 1)
      <4>1. Tabled'
        BY <2>1, <3>1, <3>3, NotedIndexed
      <4> QED BY <3>3, <4>1
    <3> QED BY <3>2, <3>3
  <2>9. CASE ReadTrailer
    <3>1. phase = "read" /\ phase' = "resolve" /\ UNCHANGED <<read, deltas, index>>
      BY <2>9 DEF ReadTrailer
    <3>2. Meaning' = Meaning /\ Settled' = Settled
      BY <2>1, <3>1, MeaningStays DEF Settled, Range
    <3>3. Tabled'
      BY <2>1, <3>1, <3>2 DEF Indexed, Tabled, FourIs, UpTo
    <3> QED BY <3>1, <3>3
  <2>10. CASE IndexDelta
    <3>1. phase = "resolve" /\ Tabled
      BY <2>10 DEF IndexDelta, Resolving, Indexed
    <3>2. phase' = "resolve" \/ (phase' = "done" /\ outcome' = "error")
      BY <2>10, <3>1 DEF IndexDelta, Stop
    <3>3. CASE phase' = "resolve"
      BY <2>10, <3>1, <3>3, IndexDeltaIndexed
    <3> QED BY <3>2, <3>3
  <2>11. CASE UnpackDelta \/ SkipDelta
    BY <2>3, <2>11 DEF UnpackDelta, SkipDelta
  <2>12. CASE Finish
    <3>1. phase' = "done" /\ Tabled
      BY <2>12 DEF Finish, Stop, Indexed
    <3> QED BY <2>12, <3>1, FinishIndexed
  <2> QED BY <1>3, <2>4, <2>5, <2>6, <2>7, <2>8, <2>9, <2>10, <2>11, <2>12 DEF Next
<1> QED
  BY <1>1, <1>2, <1>3

-----------------------------------------------------------------------------
(* Looking an object up.                                                   *)

\* A set of the first numbers has as many as its last.
LEMMA FirstNumbers ==
  ASSUME NEW n \in Nat, NEW J \in SUBSET (1..n), \A k \in J : 1..k \subseteq J
  PROVE  IsFiniteSet(J) /\ Cardinality(J) \in 0..n /\ J = 1..Cardinality(J)
<1> DEFINE c == Cardinality(J)
<1>1. IsFiniteSet(1..n) /\ Cardinality(1..n) = n
  BY FS_Interval
<1>2. IsFiniteSet(J) /\ c \in Nat /\ c <= n
  BY <1>1, FS_Subset, FS_CardinalityType
<1>3. \A k \in J : k <= c
  <2> SUFFICES ASSUME NEW k \in J PROVE k <= c
    OBVIOUS
  <2>1. k \in Nat /\ k >= 1
    OBVIOUS
  <2>2. IsFiniteSet(1..k) /\ Cardinality(1..k) = k
    BY <2>1, FS_Interval
  <2>3. 1..k \in SUBSET J
    OBVIOUS
  <2> QED BY <1>2, <2>2, <2>3, FS_Subset
<1>4. J \subseteq 1..c
  <2> HIDE DEF c
  <2> QED BY <1>2, <1>3
<1>5. IsFiniteSet(1..c) /\ Cardinality(1..c) = c
  <2> HIDE DEF c
  <2> QED BY <1>2, FS_Interval
<1>6. J = 1..c
  BY <1>4, <1>5, FS_Subset
<1> QED
  BY <1>1, <1>2, <1>6

\* What is where in the sorted tables.
LEMMA SortedIs ==
  ASSUME IsPack(pack), NEW order, Sorted(order)
  PROVE  /\ order \in [1..Len(pack) -> 1..Len(pack)]
         /\ \A k \in 1..Len(pack) : index.ids[k] = IdOf(Meaning[order[k]]) /\ index.ids[k] \in Hashes
         /\ \A m \in 1..Len(pack) : \E k \in 1..Len(pack) : order[k] = m
         /\ \A a, b \in 1..Len(pack) : order[a] = order[b] => a = b
         /\ \A a, b \in 1..Len(pack) : a <= b => First[index.ids[a]] <= First[index.ids[b]]
<1>1. /\ order \in [1..Len(pack) -> 1..Len(pack)]
      /\ \A m \in 1..Len(pack) : \E k \in 1..Len(pack) : order[k] = m
      /\ \A a, b \in 1..Len(pack) : order[a] = order[b] => a = b
  BY DEF Sorted, Bijection, Injection, Surjection, IsInjective
<1>2. \A k \in 1..Len(pack) : index.ids[k] = IdOf(Meaning[order[k]]) /\ index.ids[k] \in Hashes
  BY IdsAre DEF Sorted, Hashes
<1>3. ASSUME NEW a \in 1..Len(pack), NEW b \in 1..Len(pack), a <= b
      PROVE  First[index.ids[a]] <= First[index.ids[b]]
  <2>1. index.ids[a] \in Hashes /\ index.ids[b] \in Hashes
    BY <1>2
  <2>2. index.ids[a] \in Nat
    BY <2>1, ObjectAssumption DEF Hashes
  <2>3. index.ids[a] <= index.ids[b]
    <3>1. CASE a = b
      BY <2>2, <3>1
    <3>2. CASE a # b
      BY <1>3, <3>2 DEF Sorted
    <3> QED BY <3>1, <3>2
  <2> QED BY <2>1, <2>3, ObjectAssumption DEF Hashes
<1> QED
  BY <1>1, <1>2, <1>3

\* The fanout of a first byte is where the last entry up to it is.
LEMMA FanoutIs ==
  ASSUME IsPack(pack), NEW order, Sorted(order), NEW b \in 0..LastByte
  PROVE  /\ index.fanout[b] \in 0..Len(pack)
         /\ \A k \in 1..Len(pack) : k <= index.fanout[b] <=> First[index.ids[k]] <= b
<1> DEFINE N == Len(pack)
           J == {k \in 1..N : First[index.ids[k]] <= b}
           T == UpTo(1..N, b)
           f == [k \in J |-> order[k]]
<1>1. N \in Nat /\ LastByte \in Nat
  BY ObjectAssumption DEF IsPack
<1>2. /\ order \in [1..N -> 1..N]
      /\ \A k \in 1..N : index.ids[k] = IdOf(Meaning[order[k]]) /\ index.ids[k] \in Hashes
      /\ \A m \in 1..N : \E k \in 1..N : order[k] = m
      /\ \A i, j \in 1..N : order[i] = order[j] => i = j
      /\ \A i, j \in 1..N : i <= j => First[index.ids[i]] <= First[index.ids[j]]
  BY SortedIs
<1>3. \A k \in 1..N : First[index.ids[k]] \in Nat
  <2> SUFFICES ASSUME NEW k \in 1..N PROVE First[index.ids[k]] \in Nat
    OBVIOUS
  <2>1. index.ids[k] \in Object \cup {Unknown}
    BY <1>2 DEF Hashes
  <2>2. First[index.ids[k]] \in 0..LastByte
    BY <2>1, ObjectAssumption
  <2> QED BY <1>1, <2>2
<1>4. \A k \in J : 1..k \subseteq J
  <2> SUFFICES ASSUME NEW k \in J, NEW j \in 1..k PROVE j \in J
    OBVIOUS
  <2>1. k \in 1..N /\ j \in 1..N /\ j <= k /\ First[index.ids[k]] <= b
    BY <1>1
  <2>2. First[index.ids[j]] <= First[index.ids[k]]
    BY <1>2, <2>1
  <2>3. First[index.ids[j]] \in Nat /\ First[index.ids[k]] \in Nat /\ b \in Nat
    BY <1>1, <1>3, <2>1
  <2> QED BY <2>1, <2>2, <2>3
<1>5. J \in SUBSET (1..N)
  OBVIOUS
<1>6. f \in Bijection(J, T)
  <2>1. \A k \in J : f[k] \in T
    <3> SUFFICES ASSUME NEW k \in J PROVE f[k] \in T
      OBVIOUS
    <3>1. f[k] = order[k] /\ order[k] \in 1..N /\ First[IdOf(Meaning[order[k]])] <= b
      BY <1>2
    <3> QED BY <3>1 DEF UpTo
  <2>2. f \in [J -> T]
    BY <2>1
  <2>3. \A i, j \in J : f[i] = f[j] => i = j
    BY <1>2
  <2>4. \A t \in T : \E k \in J : f[k] = t
    <3> SUFFICES ASSUME NEW t \in T PROVE \E k \in J : f[k] = t
      OBVIOUS
    <3>1. t \in 1..N /\ First[IdOf(Meaning[t])] <= b
      BY DEF UpTo
    <3>2. PICK k \in 1..N : order[k] = t
      BY <1>2, <3>1
    <3>3. k \in J
      BY <1>2, <3>1, <3>2
    <3> QED BY <3>2, <3>3
  <2> HIDE DEF f, J, T
  <2> QED BY <2>2, <2>3, <2>4 DEF Bijection, Injection, Surjection, IsInjective
<1>7. index.fanout[b] = Cardinality(T)
  BY DEF Sorted
<1> HIDE DEF f, J, T
<1>8. IsFiniteSet(J) /\ Cardinality(J) \in 0..N /\ J = 1..Cardinality(J)
  BY <1>1, <1>4, <1>5, FirstNumbers
<1>9. Cardinality(T) = Cardinality(J)
  <2>1. ExistsBijection(J, T)
    BY <1>6 DEF ExistsBijection
  <2> QED BY <1>8, <2>1, FS_Bijection
<1>10. \A k \in 1..N : k \in J <=> First[index.ids[k]] <= b
  BY DEF J
<1>11. \A k \in 1..N : k \in J <=> k <= Cardinality(J)
  BY <1>1, <1>8
<1> QED
  BY <1>7, <1>8, <1>9, <1>10, <1>11

\* All entries of a hash are scanned, and only entries.
LEMMA ScannedIs ==
  ASSUME IsPack(pack), pack # <<>>, NEW order, Sorted(order), NEW s \in Hashes
  PROVE  /\ Scanned(s) \subseteq 1..Len(pack)
         /\ \A k \in 1..Len(pack) : index.ids[k] = s => k \in Scanned(s)
<1> DEFINE N == Len(pack)
           F == index.fanout[First[s]]
           start == IF F = 0 THEN 1 ELSE F
<1>1. N \in Nat \ {0} /\ LastByte \in Nat /\ First[s] \in 0..LastByte
  BY ObjectAssumption DEF IsPack, Hashes
<1>2. F \in 0..N /\ \A k \in 1..N : k <= F <=> First[index.ids[k]] <= First[s]
  BY <1>1, FanoutIs
<1>3. \A k \in 1..N : index.ids[k] \in Hashes /\ First[index.ids[k]] \in Nat
  <2>1. \A k \in 1..N : index.ids[k] \in Hashes
    BY SortedIs
  <2>2. First \in [Hashes -> 0..LastByte] /\ LastByte \in Nat
    BY ObjectAssumption DEF Hashes
  <2> HIDE DEF start, F, N
  <2> QED BY <2>1, <2>2
<1>4. \A a, b \in 1..N : a <= b => First[index.ids[a]] <= First[index.ids[b]]
  BY SortedIs
<1>5. Scanned(s) = {k \in 1..start : \A j \in k..start : First[index.ids[j]] = First[s]}
  BY DEF Scanned
<1> HIDE DEF F
<1>6. start \in 1..N
  BY <1>1, <1>2
<1>7. Scanned(s) \subseteq 1..N
  BY <1>1, <1>5, <1>6
<1>8. ASSUME NEW k \in 1..N, index.ids[k] = s PROVE k \in Scanned(s)
  <2>1. First[index.ids[k]] <= First[s] /\ First[s] \in Nat
    BY <1>1, <1>3, <1>8
  <2>2. k <= F /\ start = F
    BY <1>1, <1>2, <2>1
  <2>3. ASSUME NEW j \in k..start PROVE First[index.ids[j]] = First[s]
    <3>1. j \in 1..N /\ k <= j /\ j <= F
      BY <1>1, <1>6, <2>2
    <3>2. First[index.ids[j]] <= First[s]
      BY <1>2, <3>1
    <3>3. First[s] <= First[index.ids[j]]
      BY <1>4, <1>8, <3>1
    <3> QED BY <1>1, <1>3, <3>1, <3>2, <3>3
  <2>4. k \in 1..start
    BY <1>1, <1>6, <2>2
  <2> QED BY <1>5, <2>3, <2>4
<1> QED
  BY <1>7, <1>8

\* An object is found if it is there.
LEMMA HasObjectIs ==
  ASSUME IsPack(pack), pack # <<>>, NEW order, Sorted(order), NEW o \in Object
  PROVE  HasObject(o) <=> o \in Holds
<1>1. o \in Hashes /\ o # Unknown
  BY IdsAre DEF Hashes
<1>2. HasObject(o) <=> \E k \in 1..Len(pack) : index.ids[k] = o
  BY <1>1, ScannedIs DEF HasObject
<1>3. /\ order \in [1..Len(pack) -> 1..Len(pack)]
      /\ \A k \in 1..Len(pack) : index.ids[k] = IdOf(Meaning[order[k]])
      /\ \A m \in 1..Len(pack) : \E k \in 1..Len(pack) : order[k] = m
  BY SortedIs
<1>4. ASSUME NEW k \in 1..Len(pack), index.ids[k] = o PROVE \E m \in 1..Len(pack) : IdOf(Meaning[m]) = o
  <2>1. order[k] \in 1..Len(pack) /\ IdOf(Meaning[order[k]]) = o
    BY <1>3, <1>4
  <2> QED BY <2>1
<1>5. ASSUME NEW m \in 1..Len(pack), IdOf(Meaning[m]) = o PROVE \E k \in 1..Len(pack) : index.ids[k] = o
  <2>1. PICK k \in 1..Len(pack) : order[k] = m
    BY <1>3
  <2>2. index.ids[k] = o
    BY <1>3, <1>5, <2>1
  <2> QED BY <2>2
<1> QED
  BY <1>1, <1>2, <1>4, <1>5 DEF Holds

\* And where it is, if it is there once and not far.
LEMMA OffsetIs ==
  ASSUME IsPack(pack), pack # <<>>, Once, NEW order, Sorted(order), NEW m \in 1..Len(pack),
         IdOf(Meaning[m]) # Unknown, pack[m].loc < Far
  PROVE  OffsetOf(IdOf(Meaning[m])) = pack[m].loc
<1> DEFINE s == IdOf(Meaning[m])
<1>1. s \in Hashes /\ s \in Object
  BY IdsAre DEF Hashes
<1>2. \A j \in 1..Len(pack) : IdOf(Meaning[j]) = s => j = m
  <2> SUFFICES ASSUME NEW j \in 1..Len(pack), IdOf(Meaning[j]) = s PROVE j = m
    OBVIOUS
  <2>1. Meaning[j] = Meaning[m]
    BY <1>1, IdsAre
  <2> QED BY <2>1 DEF Once
<1>3. PICK k \in 1..Len(pack) : order[k] = m
  BY SortedIs
<1>4. index.ids[k] = s
  BY <1>3, SortedIs
<1> HIDE DEF s
<1>5. \A j \in 1..Len(pack) : index.ids[j] = s => j = k
  <2> SUFFICES ASSUME NEW j \in 1..Len(pack), index.ids[j] = s PROVE j = k
    OBVIOUS
  <2>1. order[j] \in 1..Len(pack) /\ IdOf(Meaning[order[j]]) = s
    <3>1. order \in [1..Len(pack) -> 1..Len(pack)] /\ \A i \in 1..Len(pack) : index.ids[i] = IdOf(Meaning[order[i]])
      BY SortedIs
    <3> QED BY <3>1
  <2>2. order[j] = order[k]
    BY <1>2, <1>3, <2>1
  <2> QED BY <2>2, SortedIs
<1>6. Scanned(s) \subseteq 1..Len(pack) /\ k \in Scanned(s) /\ k \in Nat
  BY <1>1, <1>4, ScannedIs
<1>7. Found(s) = k
  <2>1. \A j \in Scanned(s) : index.ids[j] = s => j <= k
    BY <1>5, <1>6
  <2>2. \A i \in Scanned(s) : index.ids[i] = s => i = k
    BY <1>5, <1>6
  <2> QED BY <1>4, <1>6, <2>1, <2>2 DEF Found
<1>8. index.four[k] = [far |-> FALSE, val |-> pack[m].loc]
  BY <1>3 DEF Sorted
<1> QED
  BY <1>7, <1>8 DEF OffsetOf, s

\* What is read through the index.
LEMMA ObjectAtIs ==
  ASSUME Typed, Reader, Done("index"), pack # <<>>, Once, NEW order, Sorted(order), NEW m \in 1..Len(pack),
         ~IsDelta(pack[m]) \/ End(pack) <= Far
  PROVE  ObjectAt(pack[m].loc) = Meaning[m]
<1> DEFINE N == Len(pack)
           bases == [l \in Locations |-> LET e == EntryAt(l) IN IF e.type = "ofs" THEN Before(e) ELSE OffsetOf(e.ref)]
           none == <<>>
           C == IF IsDelta(pack[m]) THEN 1..N ELSE {m}
<1>1. IsPack(pack) /\ N \in Nat /\ opts.use = "index" /\ outcome = "ok" /\ ~opts.recover
  BY TypedGives DEF Done, Typed, OptionsAre
<1>2. Right /\ PriorRight /\ AllKnown
  BY <1>1, ReaderKnows DEF Sound, Right
<1>3. Settled = 1..N
  BY <1>1, AllSettled DEF Reader, EndsWell
<1>4. \A k \in 1..N : Meaning[k] # Nothing
  BY <1>2, <1>3 DEF AllKnown
<1>5. \A k \in 1..N : Formed(pack[k]) /\ pack[k].loc \in Nat /\ pack[k].loc < End(pack)
  BY <1>1 DEF IsPack, Formed
<1>6. ASSUME NEW k \in 1..N, IsDelta(pack[k]), End(pack) <= Far
      PROVE  \E j \in 1..N : BaseAt(bases, k, j)
  <2> DEFINE e == pack[k]
  <2>1. pack[k].loc \in Locations /\ EntryAt(pack[k].loc) = e
    BY <1>1, EntryAtIs
  <2>2. bases[pack[k].loc] = IF e.type = "ofs" THEN Before(e) ELSE OffsetOf(e.ref)
    BY <2>1
  <2>3. CASE e.type = "ofs"
    <3>1. PICK j \in 1..k - 1 : pack[j].loc = Before(e)
      BY <1>1, <1>4, <2>3, BaseBefore
    <3>2. j \in 1..N
      BY <1>1
    <3>3. Based(pack, e, Meaning, j)
      BY <1>4, <2>3, <3>1, <3>2 DEF Based
    <3>4. bases[pack[k].loc] = pack[j].loc
      BY <2>2, <2>3, <3>1
    <3> QED BY <3>2, <3>3, <3>4 DEF BaseAt
  <2>4. CASE e.type = "ref"
    <3>1. /\ prior[e.ref] # 0 /\ e.ref \in DOMAIN prior /\ e.ref \in Object
      <4>1. k \in Settled /\ k \in 1..read
        BY <1>3 DEF Settled
      <4> QED BY <1>1, <1>2, <1>5, <2>4, <4>1 DEF PriorRight, Reader, BasesRead, Formed
    <3>2. PICK j \in 1..N : IdOf(Meaning[j]) = e.ref
      BY <1>2, <1>3, <3>1 DEF PriorRight
    <3>3. Based(pack, e, Meaning, j)
      BY <1>4, <2>4, <3>2 DEF Based
    <3>4. pack[j].loc < Far
      BY <1>1, <1>5, <1>6, PacksAssumption DEF IsPack
    <3>5. OffsetOf(e.ref) = pack[j].loc
      <4>1. e.ref # Unknown
        BY <3>1, IdsAre
      <4>2. IdOf(Meaning[j]) # Unknown
        BY <3>2, <4>1
      <4>3. OffsetOf(IdOf(Meaning[j])) = pack[j].loc
        BY <1>1, <3>4, <4>2, OffsetIs
      <4> QED BY <3>2, <4>3
    <3>6. bases[pack[k].loc] = pack[j].loc
      BY <2>2, <2>4, <3>5
    <3> QED BY <3>3, <3>6 DEF BaseAt
  <2> QED BY <1>5, <1>6, <2>3, <2>4, DeltaTypes
<1>7. \A l : ObjectAt(l) = Follow(l, none, bases)
  BY DEF ObjectAt
<1>8. KnownRight(none)
  BY DEF KnownRight
<1>9. C \in SUBSET (1..N) /\ m \in C
  OBVIOUS
<1>10. ASSUME NEW k \in C, IsDelta(pack[k])
       PROVE  \E j \in C : BaseAt(bases, k, j) /\ \A i : Based(pack, pack[k], Meaning, i) => i = j
  <2>1. IsDelta(pack[m]) /\ C = 1..N /\ End(pack) <= Far
    BY <1>10
  <2>2. PICK j \in 1..N : BaseAt(bases, k, j)
    BY <1>6, <1>10, <2>1
  <2>3. \A i : Based(pack, pack[k], Meaning, i) => i = j
    BY <1>1, <1>10, <2>1, <2>2, OneBase DEF BaseAt
  <2> QED BY <2>1, <2>2, <2>3
<1> HIDE DEF C, bases, none
<1>11. \A k \in C : Meaning[k] # Nothing
  BY <1>4, <1>9
<1>12. \A k \in C : Follow(pack[k].loc, none, bases) = Meaning[k]
  BY ZenonT(30), <1>1, <1>8, <1>9, <1>10, <1>11, FollowKnows
<1> QED
  BY <1>7, <1>9, <1>12

\* An index that was written has what the pack has, wherever and in whatever
\* order: of a pack that has each object once, and that ends before Far, all
\* is read back through it, and whole entries that start before Far always.
THEOREM IndexIsTrue == Spec => []IndexTrue
<1>1. ASSUME Typed, Reader, Indexed PROVE IndexTrue
  <2> SUFFICES ASSUME Done("index")
               PROVE  /\ \A o \in Object : HasObject(o) <=> o \in Holds
                      /\ Once =>
                           \A k \in 1..Len(pack) :
                             (IdOf(Meaning[k]) # Unknown /\ pack[k].loc < Far /\ (~IsDelta(pack[k]) \/ End(pack) <= Far))
                               => ObjectAt(OffsetOf(IdOf(Meaning[k]))) = Meaning[k]
    BY DEF IndexTrue
  <2>1. pack # <<>> /\ \E order : Sorted(order)
    BY <1>1 DEF Indexed, Done
  <2>2. PICK order : Sorted(order)
    BY <2>1
  <2>3. IsPack(pack)
    BY <1>1, TypedGives
  <2>4. \A o \in Object : HasObject(o) <=> o \in Holds
    BY <2>1, <2>2, <2>3, HasObjectIs
  <2>5. ASSUME Once, NEW k \in 1..Len(pack), IdOf(Meaning[k]) # Unknown, pack[k].loc < Far,
               ~IsDelta(pack[k]) \/ End(pack) <= Far
        PROVE  ObjectAt(OffsetOf(IdOf(Meaning[k]))) = Meaning[k]
    <3>1. OffsetOf(IdOf(Meaning[k])) = pack[k].loc
      BY <2>1, <2>2, <2>3, <2>5, OffsetIs
    <3>2. ObjectAt(pack[k].loc) = Meaning[k]
      BY <1>1, <2>1, <2>2, <2>5, ObjectAtIs
    <3> QED BY <3>1, <3>2
  <2> QED BY <2>4, <2>5
<1> QED
  BY <1>1, InitTyped, NextTyped, InitReader, NextReader, InitIndexed, NextIndexed, PTL DEF Spec

=============================================================================
