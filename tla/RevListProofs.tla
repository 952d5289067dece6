--------------------------- MODULE RevListProofs ---------------------------
(***************************************************************************)
(* What rev-list lists, for every history, query and set of holes.         *)
(*                                                                         *)
(* The invariant says where each pass stands: excludeList is closed under  *)
(* parents, trees and entries but for commits that are still in todo, the  *)
(* starting points are in one or the other, and both stay within what can  *)
(* be reached.  When todo is empty excludeList is closed, and so holds     *)
(* everything reachable.  Reach is the least closed set, so no induction   *)
(* over histories is needed.                                               *)
(***************************************************************************)
EXTENDS RevList, LibraryLemmas, TLAPS, FiniteSetTheorems

Excluded == Reach(Range(query.excludes))
Included == Reach(Range(query.includes))

\* E is closed but for parents in P.
ClosedUpTo(E, P) ==
  /\ \A c \in E \cap Commit : Range(history.parents[c]) \subseteq E \cup P
  /\ query.objects =>
       /\ \A c \in E \cap Commit : history.tree[c] \in E
       /\ \A t \in E \cap Tree : history.entries[t] \subseteq E

Excluding ==
  phase = "excluding" =>
    /\ Listed = {} /\ count = 0
    /\ excludeList \cup Range(todo) \subseteq Excluded
    /\ Range(query.excludes) \subseteq excludeList \cup Range(todo)
    /\ ClosedUpTo(excludeList, Range(todo))

Listing ==
  phase = "listing" =>
    /\ excludeList = Excluded \cup Listed
    /\ count = Cardinality(Listed)
    /\ Listed \cap holes = {}
    /\ Range(todo) \subseteq Included
    /\ Range(query.includes) \subseteq excludeList \cup Range(todo)
    /\ ClosedUpTo(excludeList, Range(todo))

IInv == TypeOK /\ Excluding /\ Listing /\ OnlyWanted /\ ListedOnce /\ CompleteAtEnd

-----------------------------------------------------------------------------
(* Reachability.                                                           *)

\* Reach(R) is the least closed set that holds R.
LEMMA ReachIsLeast ==
  ASSUME history \in HistoryType, NEW R \in SUBSET Commit
  PROVE  /\ R \subseteq Reach(R) /\ Reach(R) \subseteq Node
         /\ Closed(Reach(R))
         /\ \A S \in SUBSET Node : R \subseteq S /\ Closed(S) => Reach(R) \subseteq S
<1>1. R \subseteq Reach(R) /\ Reach(R) \subseteq Node
  BY DEF Reach, Node
<1>2. \A S \in SUBSET Node : R \subseteq S /\ Closed(S) => Reach(R) \subseteq S
  BY DEF Reach
<1>3. \A c \in Reach(R) \cap Commit : Range(history.parents[c]) \subseteq Reach(R)
  <2> SUFFICES ASSUME NEW c \in Reach(R) \cap Commit, NEW p \in Range(history.parents[c]),
                      NEW S \in SUBSET Node, R \subseteq S, Closed(S)
               PROVE  p \in S
    <3>1. \A c \in Commit : Range(history.parents[c]) \subseteq Commit
      <4>1. ASSUME NEW s \in Seq(Commit) PROVE Range(s) \subseteq Commit
        BY DEF Range
      <4> QED BY <4>1 DEF HistoryType
    <3> QED BY <3>1 DEF Reach, Node
  <2>1. c \in S
    BY <1>2
  <2> QED BY <2>1 DEF Closed
<1>4. query.objects => \A c \in Reach(R) \cap Commit : history.tree[c] \in Reach(R)
  <2> SUFFICES ASSUME query.objects, NEW c \in Reach(R) \cap Commit,
                      NEW S \in SUBSET Node, R \subseteq S, Closed(S)
               PROVE  history.tree[c] \in S
    BY DEF Reach, Node, HistoryType
  <2>1. c \in S
    BY <1>2
  <2> QED BY <2>1 DEF Closed
<1>5. query.objects => \A t \in Reach(R) \cap Tree : history.entries[t] \subseteq Reach(R)
  <2> SUFFICES ASSUME query.objects, NEW t \in Reach(R) \cap Tree,
                      NEW e \in history.entries[t],
                      NEW S \in SUBSET Node, R \subseteq S, Closed(S)
               PROVE  e \in S
    BY DEF Reach, Node, HistoryType
  <2>1. t \in S
    BY <1>2
  <2> QED BY <2>1 DEF Closed
<1> QED BY <1>1, <1>2, <1>3, <1>4, <1>5 DEF Closed

\* What one iteration lists is new, closed but for c's parents, and in every
\* closed set that holds c.
LEMMA BatchFacts ==
  ASSUME NodeAssumption, history \in HistoryType, NEW c \in Commit, c \notin excludeList
  PROVE  /\ c \in Batch(c) /\ Batch(c) \subseteq Node
         /\ Batch(c) \cap Commit = {c}
         /\ Batch(c) \cap excludeList = {}
         /\ query.objects =>
              /\ history.tree[c] \in Batch(c) \cup excludeList
              /\ \A u \in Batch(c) \cap Tree :
                   history.entries[u] \subseteq Batch(c) \cup excludeList
         /\ \A X \in SUBSET Node : Closed(X) /\ c \in X => Batch(c) \subseteq X
<1> DEFINE t == history.tree[c]
           W == Walk(t)
<1>1. t \in Tree /\ W \subseteq Tree \cup Blob /\ t \in W
  BY DEF Walk, HoldsWalk, HistoryType
<1>2. \A u \in W \cap Tree : history.entries[u] \subseteq W \cup excludeList
  <2> SUFFICES ASSUME NEW u \in W \cap Tree, NEW e \in history.entries[u],
                      e \notin excludeList,
                      NEW S \in SUBSET (Tree \cup Blob), HoldsWalk(t, S)
               PROVE  e \in S /\ e \in Tree \cup Blob
    BY DEF Walk, HistoryType
  <2>1. u \in S
    BY DEF Walk
  <2> QED BY <2>1 DEF HoldsWalk
<1>3. ASSUME t \notin excludeList PROVE W \cap excludeList = {}
  <2>1. HoldsWalk(t, W \ excludeList)
    BY <1>1, <1>2, <1>3 DEF HoldsWalk
  <2>2. W \ excludeList \in SUBSET (Tree \cup Blob)
    BY <1>1
  <2>3. W \subseteq W \ excludeList
    BY <2>1, <2>2 DEF Walk
  <2> QED BY <2>3
<1>4. ASSUME query.objects, NEW X \in SUBSET Node, Closed(X), c \in X
      PROVE  W \subseteq X
  <2>1. t \in X /\ \A u \in X \cap Tree : history.entries[u] \subseteq X
    BY <1>4 DEF Closed
  <2>2. \A u \in Tree : history.entries[u] \subseteq Tree \cup Blob
    BY DEF HistoryType
  <2>3. HoldsWalk(t, X \cap (Tree \cup Blob))
    BY <1>1, <2>1, <2>2 DEF HoldsWalk
  <2> QED BY <2>3 DEF Walk
<1>5. Batch(c) = {c} \cup IF query.objects /\ t \notin excludeList THEN W ELSE {}
  BY DEF Batch, NewObjects
<1>6. Commit \cap (Tree \cup Blob) = {} /\ Node = Commit \cup Tree \cup Blob
  BY DEF NodeAssumption, Node
<1> HIDE DEF W, t
<1>7. /\ c \in Batch(c) /\ Batch(c) \subseteq Node
      /\ Batch(c) \cap Commit = {c}
      /\ Batch(c) \cap excludeList = {}
  BY <1>1, <1>3, <1>5, <1>6
<1>8. query.objects => t \in Batch(c) \cup excludeList
  BY <1>1, <1>5
<1>9. query.objects =>
        \A u \in Batch(c) \cap Tree : history.entries[u] \subseteq Batch(c) \cup excludeList
  BY <1>2, <1>5, <1>6
<1>10. \A X \in SUBSET Node : Closed(X) /\ c \in X => Batch(c) \subseteq X
  BY <1>4, <1>5
<1> QED BY <1>7, <1>8, <1>9, <1>10 DEF t

-----------------------------------------------------------------------------
(* The steps.                                                              *)

\* Taking c off todo leaves what is reached closed if c's parents come back.
LEMMA StepKeepsClosed ==
  ASSUME NodeAssumption, history \in HistoryType, NEW c \in Commit,
         c \notin excludeList, NEW P, NEW Q,
         ClosedUpTo(excludeList, P), P \subseteq {c} \cup Q,
         Range(history.parents[c]) \subseteq Q
  PROVE  ClosedUpTo(excludeList \cup Batch(c), Q)
<1>1. /\ c \in Batch(c) /\ Batch(c) \cap Commit = {c}
      /\ query.objects =>
           /\ history.tree[c] \in Batch(c) \cup excludeList
           /\ \A u \in Batch(c) \cap Tree :
                history.entries[u] \subseteq Batch(c) \cup excludeList
  BY BatchFacts
<1>2. ASSUME NEW d \in (excludeList \cup Batch(c)) \cap Commit
      PROVE  Range(history.parents[d]) \subseteq excludeList \cup Batch(c) \cup Q
  <2>1. CASE d = c
    BY <2>1
  <2>2. CASE d # c
    <3>1. d \in excludeList
      BY <1>1, <1>2, <2>2
    <3> QED BY <1>1, <1>2, <3>1 DEF ClosedUpTo
  <2> QED BY <2>1, <2>2
<1>3. ASSUME query.objects, NEW d \in (excludeList \cup Batch(c)) \cap Commit
      PROVE  history.tree[d] \in excludeList \cup Batch(c)
  <2>1. d = c \/ d \in excludeList
    BY <1>1, <1>3
  <2> QED BY <1>1, <1>3, <2>1 DEF ClosedUpTo
<1>4. ASSUME query.objects, NEW u \in (excludeList \cup Batch(c)) \cap Tree
      PROVE  history.entries[u] \subseteq excludeList \cup Batch(c)
  BY <1>1, <1>4 DEF ClosedUpTo
<1> QED BY <1>2, <1>3, <1>4 DEF ClosedUpTo

\* CallBack counts every new object once.
LEMMA CallBackCounts ==
  ASSUME NodeAssumption, calls \in [Node -> Nat], ListedOnce, count \in Nat,
         NEW B \in SUBSET Node, B \cap Listed = {}, CallBack(B)
  PROVE  /\ calls' \in [Node -> Nat] /\ Listed' = Listed \cup B /\ ListedOnce'
         /\ count' \in Nat /\ Cardinality(B) \in Nat
         /\ count' = count + Cardinality(B)
         /\ Cardinality(Listed') = Cardinality(Listed) + Cardinality(B)
<1>1. IsFiniteSet(B) /\ IsFiniteSet(Listed) /\ Listed \subseteq Node
  BY FS_Subset DEF NodeAssumption, Listed
<1>2. Cardinality(B) \in Nat /\ Cardinality(Listed) \in Nat
  BY <1>1, FS_CardinalityType
<1>3. calls' = [x \in Node |-> IF x \in B THEN calls[x] + 1 ELSE calls[x]]
  BY DEF CallBack
<1>4. calls' \in [Node -> Nat]
  BY <1>3
<1>5. Listed' = Listed \cup B
  BY <1>3 DEF Listed
<1>6. ListedOnce'
  <2> SUFFICES ASSUME NEW x \in Node PROVE calls'[x] <= 1
    BY DEF ListedOnce
  <2>1. CASE x \in B
    <3>1. calls[x] = 0
      BY <2>1 DEF Listed
    <3> QED BY <1>3, <2>1, <3>1
  <2>2. CASE x \notin B
    BY <1>3, <2>2 DEF ListedOnce
  <2> QED BY <2>1, <2>2
<1>7. Cardinality(Listed \cup B) = Cardinality(Listed) + Cardinality(B) - Cardinality({})
  <2>1. Listed \cap B = {}
    OBVIOUS
  <2> QED BY <1>1, <2>1, FS_Union
<1>8. Cardinality(Listed \cup B) = Cardinality(Listed) + Cardinality(B)
  BY <1>2, <1>7, FS_EmptySet
<1> QED BY <1>2, <1>4, <1>5, <1>6, <1>8 DEF CallBack

\* The initial states satisfy the invariant.
LEMMA InitIInv == NodeAssumption /\ QueryAssumption /\ Init => IInv
<1> SUFFICES ASSUME NodeAssumption, QueryAssumption, Init PROVE IInv
  OBVIOUS
<1>1. query.excludes \in Revs /\ query.includes \in Revs
  BY DEF Init, Query
<1>2. history \in HistoryType /\ query.excludes \in Seq(Commit)
  BY <1>1 DEF Init, NodeAssumption, QueryAssumption
<1>3. Range(query.excludes) \subseteq Commit
  BY <1>2 DEF Range
<1>4. Range(query.excludes) \subseteq Excluded
  BY <1>2, <1>3, ReachIsLeast DEF Excluded
<1>5. Listed = {} /\ ListedOnce /\ OnlyWanted
  BY DEF Init, Listed, ListedOnce, OnlyWanted
<1>6. TypeOK
  BY <1>2 DEF TypeOK, Init
<1>7. Excluding
  BY <1>4, <1>5 DEF Excluding, Init, ClosedUpTo
<1> QED BY <1>5, <1>6, <1>7 DEF IInv, Init, Listing, CompleteAtEnd

\* What is reached does not change while history and query do not.
LEMMA SameQuestion ==
  ASSUME UNCHANGED given
  PROVE  /\ Excluded' = Excluded /\ Included' = Included /\ Wanted' = Wanted
<1>1. history' = history /\ query' = query
  BY DEF given
<1> QED BY <1>1 DEF Excluded, Included, Wanted, Reach, Closed

\* What the starting points are, and what IInv says of the head of todo.
LEMMA HeadFacts ==
  ASSUME NodeAssumption, QueryAssumption, IInv, NEW c \in Commit, Next1(c)
  PROVE  /\ history \in HistoryType
         /\ Tail(todo) \in Seq(Commit)
         /\ Range(todo) = {c} \cup Range(Tail(todo))
         /\ history.parents[c] \in Seq(Commit)
         /\ history.parents[c] \o Tail(todo) \in Seq(Commit)
         /\ Range(history.parents[c] \o Tail(todo))
              = Range(history.parents[c]) \cup Range(Tail(todo))
         /\ Range(query.excludes) \subseteq Commit
         /\ Range(query.includes) \subseteq Commit
<1>1. todo \in Seq(Commit) /\ todo # <<>> /\ c = Head(todo)
  BY DEF IInv, TypeOK, Next1
<1>2. history \in HistoryType /\ history.parents[c] \in Seq(Commit)
  BY DEF IInv, TypeOK, NodeAssumption, HistoryType
<1>3. Tail(todo) \in Seq(Commit) /\ Range(todo) = {c} \cup Range(Tail(todo))
  BY <1>1, RangeTail
<1>4. /\ history.parents[c] \o Tail(todo) \in Seq(Commit)
      /\ Range(history.parents[c] \o Tail(todo))
           = Range(history.parents[c]) \cup Range(Tail(todo))
  <2> DEFINE s == history.parents[c]
             t == Tail(todo)
  <2>1. s \in Seq(Commit) /\ t \in Seq(Commit)
    BY <1>2, <1>3
  <2> HIDE DEF s, t
  <2>2. s \o t \in Seq(Commit) /\ Range(s \o t) = Range(s) \cup Range(t)
    BY <2>1, RangeConcat
  <2> QED BY <2>2 DEF s, t
<1>5. query.excludes \in Seq(Commit) /\ query.includes \in Seq(Commit)
  BY DEF IInv, TypeOK, Query, QueryAssumption
<1>6. Range(query.excludes) \subseteq Commit /\ Range(query.includes) \subseteq Commit
  BY <1>5 DEF Range
<1> QED BY <1>2, <1>3, <1>4, <1>6

\* A commit that is skipped is in excludeList.
LEMMA SkipStep ==
  ASSUME NodeAssumption, QueryAssumption, IInv, NEW c \in Commit, Skip(c)
  PROVE  IInv'
<1>1. /\ phase \in {"excluding", "listing"} /\ Next1(c) /\ c \in excludeList
      /\ todo' = Tail(todo) /\ UNCHANGED given
      /\ excludeList' = excludeList /\ calls' = calls /\ count' = count /\ phase' = phase
  BY DEF Skip
<1>2. Tail(todo) \in Seq(Commit) /\ Range(todo) = {c} \cup Range(Tail(todo))
  BY <1>1, HeadFacts
<1>3. Listed' = Listed
  BY <1>1 DEF Listed
<1>4. /\ Excluded' = Excluded /\ Included' = Included /\ Wanted' = Wanted
  BY <1>1, SameQuestion
<1>5. ASSUME ClosedUpTo(excludeList, Range(todo))
      PROVE  ClosedUpTo(excludeList, Range(todo))'
  BY <1>1, <1>2, <1>5 DEF ClosedUpTo, given
<1>6. TypeOK'
  BY <1>1, <1>2 DEF IInv, TypeOK, given
<1>7. Excluding'
  BY <1>1, <1>2, <1>3, <1>4, <1>5 DEF IInv, Excluding, given
<1>8. Listing'
  BY <1>1, <1>2, <1>3, <1>4, <1>5 DEF IInv, Listing, given
<1>9. OnlyWanted' /\ ListedOnce'
  BY <1>1, <1>3, <1>4 DEF IInv, OnlyWanted, ListedOnce
<1>10. CompleteAtEnd'
  BY <1>1 DEF CompleteAtEnd
<1> QED BY <1>6, <1>7, <1>8, <1>9, <1>10 DEF IInv

\* The first pass stays within what the excludes reach.
LEMMA ExcludeStep ==
  ASSUME NodeAssumption, QueryAssumption, IInv, NEW c \in Commit, Exclude(c)
  PROVE  IInv'
<1>1. /\ phase = "excluding" /\ Next1(c) /\ c \notin excludeList
      /\ excludeList' = excludeList \cup Batch(c)
      /\ todo' = history.parents[c] \o Tail(todo) /\ UNCHANGED given
      /\ calls' = calls /\ count' = count /\ phase' = phase
  BY DEF Exclude, Descend
<1>2. /\ history \in HistoryType
      /\ Range(todo) = {c} \cup Range(Tail(todo)) /\ todo' \in Seq(Commit)
      /\ Range(todo') = Range(history.parents[c]) \cup Range(Tail(todo))
      /\ Range(query.excludes) \subseteq Commit
  BY <1>1, HeadFacts
<1>3. Closed(Excluded) /\ Excluded \subseteq Node
  BY <1>2, ReachIsLeast DEF Excluded
<1>4. /\ Listed = {} /\ count = 0
      /\ excludeList \cup Range(todo) \subseteq Excluded
      /\ Range(query.excludes) \subseteq excludeList \cup Range(todo)
      /\ ClosedUpTo(excludeList, Range(todo))
  BY <1>1 DEF IInv, Excluding
<1>5. c \in Excluded /\ Range(history.parents[c]) \subseteq Excluded
  BY <1>2, <1>3, <1>4 DEF Closed
<1>6. c \in Batch(c) /\ Batch(c) \subseteq Excluded /\ Batch(c) \subseteq Node
  BY <1>1, <1>2, <1>3, <1>5, BatchFacts
<1>7. ClosedUpTo(excludeList', Range(todo'))
  <2>1. Range(todo) \subseteq {c} \cup Range(todo')
    BY <1>2
  <2> QED BY <1>1, <1>2, <1>4, <2>1, StepKeepsClosed
<1>8. /\ Excluded' = Excluded /\ Included' = Included /\ Wanted' = Wanted
  BY <1>1, SameQuestion
<1>9. Listed' = Listed
  BY <1>1 DEF Listed
<1>10. TypeOK'
  BY <1>1, <1>2, <1>6 DEF IInv, TypeOK, given
<1>11. Excluding'
  <2>1. excludeList' \cup Range(todo') \subseteq Excluded
    BY <1>1, <1>2, <1>4, <1>5, <1>6
  <2>2. Range(query.excludes) \subseteq excludeList' \cup Range(todo')
    BY <1>1, <1>2, <1>4, <1>6
  <2>3. ClosedUpTo(excludeList, Range(todo))'
    BY <1>1, <1>7 DEF ClosedUpTo, given
  <2> QED BY <1>1, <1>4, <1>8, <1>9, <2>1, <2>2, <2>3 DEF Excluding, given
<1>12. Listing' /\ CompleteAtEnd'
  BY <1>1 DEF Listing, CompleteAtEnd
<1>13. OnlyWanted' /\ ListedOnce'
  BY <1>1, <1>8, <1>9 DEF IInv, OnlyWanted, ListedOnce
<1> QED BY <1>10, <1>11, <1>12, <1>13 DEF IInv

\* When the first pass ends it has all the excludes reach.
LEMMA EndExcludeStep ==
  ASSUME NodeAssumption, QueryAssumption, IInv, EndExclude
  PROVE  IInv'
<1>1. /\ phase = "excluding" /\ todo = <<>> /\ phase' = "listing"
      /\ todo' = query.includes /\ UNCHANGED given
      /\ excludeList' = excludeList /\ calls' = calls /\ count' = count
  BY DEF EndExclude
<1>2. /\ history \in HistoryType
      /\ query.excludes \in Seq(Commit) /\ query.includes \in Seq(Commit)
  BY DEF IInv, TypeOK, Query, QueryAssumption, NodeAssumption
<1>3. Range(query.excludes) \in SUBSET Commit /\ Range(query.includes) \in SUBSET Commit
  BY <1>2 DEF Range
<1>4. Range(todo) = {}
  BY <1>1 DEF Range
<1>5. /\ Listed = {} /\ count = 0 /\ excludeList \subseteq Excluded
      /\ Range(query.excludes) \subseteq excludeList
      /\ ClosedUpTo(excludeList, {})
  BY <1>1, <1>4 DEF IInv, Excluding
<1>6. Closed(excludeList)
  BY <1>5 DEF ClosedUpTo, Closed
<1>7. excludeList = Excluded
  <2>1. excludeList \in SUBSET Node
    BY DEF IInv, TypeOK
  <2>2. Excluded \subseteq excludeList
    BY <1>2, <1>3, <1>5, <1>6, <2>1, ReachIsLeast DEF Excluded
  <2> QED BY <1>5, <2>2
<1>8. Range(query.includes) \subseteq Included
  BY <1>2, <1>3, ReachIsLeast DEF Included
<1>9. /\ Excluded' = Excluded /\ Included' = Included /\ Wanted' = Wanted
  BY <1>1, SameQuestion
<1>10. Listed' = Listed
  BY <1>1 DEF Listed
<1>11. TypeOK'
  BY <1>1, <1>2 DEF IInv, TypeOK, given
<1>12. Listing'
  <2>1. ClosedUpTo(excludeList, Range(todo))'
    BY <1>1, <1>5 DEF ClosedUpTo, given
  <2>2. Cardinality({}) = 0
    BY FS_EmptySet
  <2> QED BY <1>1, <1>5, <1>7, <1>8, <1>9, <1>10, <2>1, <2>2 DEF Listing, given
<1>13. Excluding' /\ CompleteAtEnd'
  BY <1>1 DEF Excluding, CompleteAtEnd
<1>14. OnlyWanted' /\ ListedOnce'
  BY <1>1, <1>9, <1>10 DEF IInv, OnlyWanted, ListedOnce
<1> QED BY <1>11, <1>12, <1>13, <1>14 DEF IInv

\* What the second pass takes up is wanted and has not been listed.
LEMMA BatchIsWanted ==
  ASSUME NodeAssumption, QueryAssumption, IInv, NEW c \in Commit, Next1(c),
         phase = "listing", c \notin excludeList
  PROVE  /\ Batch(c) \subseteq Node /\ c \in Batch(c)
         /\ Batch(c) \subseteq Wanted /\ Batch(c) \cap Listed = {}
         /\ Range(history.parents[c]) \subseteq Included
<1>1. /\ history \in HistoryType /\ Range(query.includes) \subseteq Commit
      /\ Range(todo) = {c} \cup Range(Tail(todo))
  BY HeadFacts
<1>2. Closed(Included) /\ Included \subseteq Node
  BY <1>1, ReachIsLeast DEF Included
<1>3. excludeList = Excluded \cup Listed /\ Range(todo) \subseteq Included
  BY DEF IInv, Listing
<1>4. c \in Included /\ Range(history.parents[c]) \subseteq Included
  BY <1>1, <1>2, <1>3 DEF Closed
<1>5. /\ Batch(c) \subseteq Node /\ c \in Batch(c) /\ Batch(c) \cap excludeList = {}
      /\ Batch(c) \subseteq Included
  BY <1>1, <1>2, <1>4, BatchFacts
<1>6. Wanted = Included \ Excluded
  BY DEF Wanted, Included, Excluded
<1> QED BY <1>3, <1>4, <1>5, <1>6

\* The second pass lists wanted objects once and counts them.
LEMMA ListStep ==
  ASSUME NodeAssumption, QueryAssumption, IInv, NEW c \in Commit, List(c)
  PROVE  IInv'
<1>1. /\ phase = "listing" /\ Next1(c) /\ c \notin excludeList /\ CanRead(c)
      /\ excludeList' = excludeList \cup Batch(c) /\ CallBack(Batch(c))
      /\ todo' = history.parents[c] \o Tail(todo) /\ UNCHANGED given /\ phase' = phase
  BY DEF List, Descend
<1>2. /\ history \in HistoryType
      /\ Range(todo) = {c} \cup Range(Tail(todo)) /\ todo' \in Seq(Commit)
      /\ Range(todo') = Range(history.parents[c]) \cup Range(Tail(todo))
  BY <1>1, HeadFacts
<1>3. /\ Batch(c) \subseteq Node /\ c \in Batch(c)
      /\ Batch(c) \subseteq Wanted /\ Batch(c) \cap Listed = {}
      /\ Range(history.parents[c]) \subseteq Included
  BY <1>1, BatchIsWanted
<1>4. /\ excludeList = Excluded \cup Listed /\ count = Cardinality(Listed)
      /\ Listed \cap holes = {} /\ Range(todo) \subseteq Included
      /\ Range(query.includes) \subseteq excludeList \cup Range(todo)
      /\ ClosedUpTo(excludeList, Range(todo))
  BY <1>1 DEF IInv, Listing
<1>5. calls \in [Node -> Nat] /\ count \in Nat /\ ListedOnce
  BY DEF IInv, TypeOK
<1>6. /\ calls' \in [Node -> Nat] /\ Listed' = Listed \cup Batch(c) /\ ListedOnce'
      /\ count' \in Nat /\ Cardinality(Batch(c)) \in Nat
      /\ count' = count + Cardinality(Batch(c))
      /\ Cardinality(Listed') = Cardinality(Listed) + Cardinality(Batch(c))
  BY <1>1, <1>3, <1>5, CallBackCounts
<1>7. Excluded' = Excluded /\ Included' = Included /\ Wanted' = Wanted
  BY <1>1, SameQuestion
<1>8. ClosedUpTo(excludeList, Range(todo))'
  <2>1. Range(todo) \subseteq {c} \cup Range(todo')
    BY <1>2
  <2>2. ClosedUpTo(excludeList \cup Batch(c), Range(todo'))
    BY <1>1, <1>2, <1>4, <2>1, StepKeepsClosed
  <2> QED BY <1>1, <2>2 DEF ClosedUpTo, given
<1>9. TypeOK'
  BY <1>1, <1>2, <1>3, <1>6 DEF IInv, TypeOK, given
<1>10. Listing'
  <2>1. excludeList' = Excluded' \cup Listed'
    BY <1>1, <1>4, <1>6, <1>7
  <2>2. count' = Cardinality(Listed')
    BY <1>4, <1>6
  <2>3. Listed' \cap holes' = {}
    BY <1>1, <1>4, <1>6 DEF CanRead, given
  <2>4. /\ Range(todo') \subseteq Included'
        /\ Range(query'.includes) \subseteq excludeList' \cup Range(todo')
    BY <1>1, <1>2, <1>3, <1>4, <1>7 DEF given
  <2> QED BY <1>8, <2>1, <2>2, <2>3, <2>4 DEF Listing
<1>11. Excluding' /\ CompleteAtEnd'
  BY <1>1 DEF Excluding, CompleteAtEnd
<1>12. OnlyWanted'
  BY <1>3, <1>6, <1>7 DEF IInv, OnlyWanted
<1> QED BY <1>6, <1>9, <1>10, <1>11, <1>12 DEF IInv

\* --max-count stops the list when it has that many.
LEMMA StopStep ==
  ASSUME NodeAssumption, QueryAssumption, IInv, NEW c \in Commit, Stop(c)
  PROVE  IInv'
<1>1. /\ phase = "listing" /\ Next1(c) /\ c \notin excludeList /\ phase' = "done"
      /\ UNCHANGED given /\ excludeList' = excludeList /\ todo' = todo
  BY DEF Stop
<1>2. PICK B \in SUBSET Batch(c) :
        /\ WithinLimit(Cardinality(B)) /\ ~WithinLimit(Cardinality(B) + 1)
        /\ B # {} => CanRead(c)
        /\ CallBack(B)
  BY DEF Stop
<1>3. B \subseteq Node /\ B \subseteq Wanted /\ B \cap Listed = {}
  BY <1>1, BatchIsWanted
<1>4. calls \in [Node -> Nat] /\ count \in Nat /\ ListedOnce
  BY DEF IInv, TypeOK
<1>5. /\ calls' \in [Node -> Nat] /\ Listed' = Listed \cup B /\ ListedOnce'
      /\ count' \in Nat /\ Cardinality(B) \in Nat /\ count' = count + Cardinality(B)
      /\ Cardinality(Listed') = Cardinality(Listed) + Cardinality(B)
  BY <1>2, <1>3, <1>4, CallBackCounts
<1>6. Excluded' = Excluded /\ Included' = Included /\ Wanted' = Wanted
  BY <1>1, SameQuestion
<1>7. count = Cardinality(Listed) /\ Listed \cap holes = {}
  BY <1>1 DEF IInv, Listing
<1>8. Cardinality(Listed') = query'.limit
  <2>1. /\ count + Cardinality(B) <= query.limit
        /\ ~(count + (Cardinality(B) + 1) <= query.limit) /\ query.limit # NoLimit
    BY <1>2 DEF WithinLimit
  <2>2. query.limit \in Nat
    BY <2>1 DEF IInv, TypeOK, Query, QueryAssumption
  <2>3. count + Cardinality(B) = query.limit
    BY <1>4, <1>5, <2>1, <2>2
  <2> QED BY <1>1, <1>5, <1>7, <2>3 DEF given
<1>9. Listed' \cap holes' = {}
  BY <1>1, <1>2, <1>5, <1>7 DEF CanRead, given
<1>10. TypeOK'
  BY <1>1, <1>5 DEF IInv, TypeOK, given
<1>11. CompleteAtEnd'
  BY <1>8, <1>9 DEF CompleteAtEnd
<1>12. Excluding' /\ Listing'
  BY <1>1 DEF Excluding, Listing
<1>13. OnlyWanted'
  BY <1>3, <1>5, <1>6 DEF IInv, OnlyWanted
<1> QED BY <1>5, <1>10, <1>11, <1>12, <1>13 DEF IInv

\* When the second pass ends all that is wanted has been listed.
LEMMA EndIncludeStep ==
  ASSUME NodeAssumption, QueryAssumption, IInv, EndInclude
  PROVE  IInv'
<1>1. /\ phase = "listing" /\ todo = <<>> /\ phase' = "done" /\ UNCHANGED given
      /\ excludeList' = excludeList /\ calls' = calls /\ count' = count /\ todo' = todo
  BY DEF EndInclude
<1>2. history \in HistoryType /\ query.includes \in Seq(Commit)
  BY DEF IInv, TypeOK, Query, QueryAssumption, NodeAssumption
<1>3. Range(query.includes) \in SUBSET Commit
  BY <1>2 DEF Range
<1>4. Range(todo) = {}
  BY <1>1 DEF Range
<1>5. /\ excludeList = Excluded \cup Listed /\ Listed \cap holes = {}
      /\ Range(query.includes) \subseteq excludeList
      /\ ClosedUpTo(excludeList, {}) /\ excludeList \in SUBSET Node
  BY <1>1, <1>4 DEF IInv, Listing, TypeOK
<1>6. Included \subseteq excludeList
  <2>1. Closed(excludeList)
    BY <1>5 DEF ClosedUpTo, Closed
  <2> QED BY <1>2, <1>3, <1>5, <2>1, ReachIsLeast DEF Included
<1>7. Wanted = Included \ Excluded /\ Listed \subseteq Wanted
  BY DEF Wanted, Included, Excluded, IInv, OnlyWanted
<1>8. Listed = Wanted
  BY <1>5, <1>6, <1>7
<1>9. Listed' = Listed /\ Wanted' = Wanted
  BY <1>1, SameQuestion DEF Listed
<1>10. TypeOK'
  BY <1>1 DEF IInv, TypeOK, given
<1>11. CompleteAtEnd'
  BY <1>1, <1>5, <1>8, <1>9 DEF CompleteAtEnd, given
<1>12. Excluding' /\ Listing'
  BY <1>1 DEF Excluding, Listing
<1>13. OnlyWanted' /\ ListedOnce'
  BY <1>1, <1>7, <1>9 DEF IInv, OnlyWanted, ListedOnce
<1> QED BY <1>10, <1>11, <1>12, <1>13 DEF IInv

\* A failure has handed out only what was wanted.
LEMMA FailStep ==
  ASSUME NodeAssumption, QueryAssumption, IInv, NEW c \in Commit, Fail(c)
  PROVE  IInv'
<1>1. /\ Next1(c) /\ c \notin excludeList /\ phase' = "failed" /\ UNCHANGED given
      /\ excludeList' = excludeList /\ todo' = todo
  BY DEF Fail
<1>2. Excluded' = Excluded /\ Included' = Included /\ Wanted' = Wanted
  BY <1>1, SameQuestion
<1>3. calls \in [Node -> Nat] /\ count \in Nat /\ ListedOnce /\ OnlyWanted
  BY DEF IInv, TypeOK
<1>4. /\ calls' \in [Node -> Nat] /\ count' \in Nat /\ ListedOnce'
      /\ Listed' \subseteq Wanted
  <2>1. CASE phase = "listing"
    <3>1. CallBack({c})
      BY <2>1 DEF Fail
    <3>2. {c} \subseteq Node /\ {c} \subseteq Wanted /\ {c} \cap Listed = {}
      BY <1>1, <2>1, BatchIsWanted
    <3>3. /\ calls' \in [Node -> Nat] /\ count' \in Nat /\ ListedOnce'
          /\ Listed' = Listed \cup {c}
      BY <1>3, <3>1, <3>2, CallBackCounts
    <3> QED BY <1>3, <3>2, <3>3 DEF OnlyWanted
  <2>2. CASE phase # "listing"
    <3>1. calls' = calls /\ count' = count
      BY <2>2 DEF Fail
    <3> QED BY <1>3, <3>1 DEF OnlyWanted, ListedOnce, Listed
  <2> QED BY <2>1, <2>2
<1>5. TypeOK'
  BY <1>1, <1>4 DEF IInv, TypeOK, given
<1>6. Excluding' /\ Listing' /\ CompleteAtEnd'
  BY <1>1 DEF Excluding, Listing, CompleteAtEnd
<1>7. OnlyWanted'
  BY <1>2, <1>4 DEF OnlyWanted
<1> QED BY <1>4, <1>5, <1>6, <1>7 DEF IInv

\* A step that changes nothing changes nothing.
LEMMA StutterStep ==
  ASSUME IInv, UNCHANGED vars
  PROVE  IInv'
<1>1. /\ history' = history /\ holes' = holes /\ query' = query
      /\ excludeList' = excludeList /\ calls' = calls /\ count' = count
      /\ todo' = todo /\ phase' = phase
  BY DEF vars
<1>2. Listed' = Listed /\ Excluded' = Excluded /\ Included' = Included /\ Wanted' = Wanted
  BY <1>1 DEF Listed, Wanted, Excluded, Included, Reach, Closed
<1>3. TypeOK'
  BY <1>1 DEF IInv, TypeOK
<1>4. Excluding' /\ Listing'
  BY <1>1, <1>2 DEF IInv, Excluding, Listing, ClosedUpTo
<1>5. OnlyWanted' /\ ListedOnce' /\ CompleteAtEnd'
  BY <1>1, <1>2 DEF IInv, OnlyWanted, ListedOnce, CompleteAtEnd
<1> QED BY <1>3, <1>4, <1>5 DEF IInv

-----------------------------------------------------------------------------
(* The theorems.                                                           *)

\* Every state of a rev-list satisfies the invariant (revlist.go:59-148).
THEOREM Invariance == Spec => []IInv
<1>1. Init => IInv
  BY InitIInv, NodeAssumption, QueryAssumption
<1>2. IInv /\ [Next]_vars => IInv'
  <2> SUFFICES ASSUME IInv, [Next]_vars PROVE IInv'
    OBVIOUS
  <2>1. CASE UNCHANGED vars
    BY <2>1, StutterStep
  <2>2. ASSUME NEW c \in Commit, Skip(c) \/ Exclude(c) \/ List(c) \/ Stop(c) \/ Fail(c)
        PROVE  IInv'
    BY <2>2, SkipStep, ExcludeStep, ListStep, StopStep, FailStep,
       NodeAssumption, QueryAssumption
  <2>3. CASE EndExclude
    BY <2>3, EndExcludeStep, NodeAssumption, QueryAssumption
  <2>4. CASE EndInclude
    BY <2>4, EndIncludeStep, NodeAssumption, QueryAssumption
  <2> QED BY <2>1, <2>2, <2>3, <2>4 DEF Next
<1> QED BY <1>1, <1>2, PTL DEF Spec

\* The work list holds commits only, and a query never changes while it runs:
\* trees and blobs are listed and never descended into (revlist.go:97-148).
THEOREM TypeCorrect == Spec => []TypeOK
<1>1. IInv => TypeOK
  BY DEF IInv
<1> QED BY <1>1, Invariance, PTL

\* rev-list lists only what its includes reach and its excludes do not, whether
\* it ends, stops at --max-count or fails (revlist.go:61-74, 116-148).
THEOREM ListsOnlyWanted == Spec => []OnlyWanted
<1>1. IInv => OnlyWanted
  BY DEF IInv
<1> QED BY <1>1, Invariance, PTL

\* No object is listed twice, in whatever ways it is reached
\* (revlist.go:118-137; sha1.go:704-735).
THEOREM ListsOnce == Spec => []ListedOnce
<1>1. IInv => ListedOnce
  BY DEF IInv
<1> QED BY <1>1, Invariance, PTL

\* A rev-list that ends has listed all that was wanted or as much as it might,
\* and met nothing unreadable (revlist.go:99-148).
THEOREM ListsAll == Spec => []CompleteAtEnd
<1>1. IInv => CompleteAtEnd
  BY DEF IInv
<1> QED BY <1>1, Invariance, PTL

=============================================================================
