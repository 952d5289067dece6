---------------------------- MODULE MergeProofs ----------------------------
(***************************************************************************)
(* The merge base and what merge makes of it, for every history.           *)
(*                                                                         *)
(* The search keeps two facts: what it looks at are ancestors of the first *)
(* commit, and every ancestor the two commits share is still behind some   *)
(* commit of the level.  A commit that is no ancestor of the other one can *)
(* be replaced by its parents, so an empty level leaves nothing to share.  *)
(***************************************************************************)
EXTENDS Merge, LibraryLemmas, TLAPS

Searching == pc \in {"search", "expand"}
Pending == Range(level) \cup Range(next)

\* Before the search there is nothing in it.
FindInv == pc \in {"check", "find"} => base = Zero /\ level = <<>> /\ next = <<>>

SearchInv ==
  Searching =>
    /\ base = Zero /\ InLine = {} /\ ~ByOctopus
    /\ Pending \subseteq Anc(Tip)
    /\ Pair => \A x \in Anc(Tip) \cap Anc(cmd.tips[2]) :
                 \E l \in Pending : x \in Anc(l)
    /\ pc = "search" => next = <<>>
    /\ pc = "expand" => \A l \in Range(level) : ~InOther(l)

FoldInv ==
  pc = "fold" =>
    /\ InLine = {} /\ ByOctopus
    /\ base # Zero =>
         /\ IsAncestor(base, Tip)
         /\ \A c \in Others \ Range(rest) : IsAncestor(base, c)
    /\ Pair /\ base = Zero => Anc(Tip) \cap Anc(cmd.tips[2]) = {}
    /\ Pair => base = Zero \/ rest = <<>> \/ (base = Tip /\ Len(rest) = 1)
    /\ Range(rest) \subseteq Others

DecideInv ==
  /\ pc # "check" /\ outcome \notin {"upToDate"} /\ cmd.name = "merge" =>
       \E c \in Others : ~IsAncestor(c, Tip)
  /\ BaseKnown /\ InLine # {} => base \in InLine
  /\ pc \in {"check", "decide", "move", "write"} => cmd.name = "merge"
  /\ pc \in {"move", "write"} => IsFastForward
  /\ pc # "done" => outcome = "none"
  /\ outcome = "printed" => cmd.name # "merge"

\* What the comparison found holds until another process moves HEAD.
HeadInv == pc = "write" /\ ~detached /\ raced # "late" => head = Tip

IInv ==
  /\ TypeOK
  /\ FindInv /\ SearchInv /\ FoldInv /\ DecideInv /\ HeadInv
  /\ BaseIsCommon /\ NoBaseMeansUnrelated /\ FastForwardExact

-----------------------------------------------------------------------------
(* Ancestors.                                                              *)

\* Anc(c) is the least set that holds c and is closed under parents.
LEMMA AncIsLeast ==
  ASSUME history \in HistoryType, NEW c \in Commit
  PROVE  /\ c \in Anc(c) /\ Anc(c) \subseteq Commit /\ ClosedUnder(Anc(c))
         /\ \A S \in SUBSET Commit : c \in S /\ ClosedUnder(S) => Anc(c) \subseteq S
<1>1. c \in Anc(c) /\ Anc(c) \subseteq Commit
  BY DEF Anc
<1>2. \A S \in SUBSET Commit : c \in S /\ ClosedUnder(S) => Anc(c) \subseteq S
  BY DEF Anc
<1>3. ClosedUnder(Anc(c))
  <2> SUFFICES ASSUME NEW a \in Anc(c), NEW p \in Range(history.parents[a]),
                      NEW S \in SUBSET Commit, c \in S, ClosedUnder(S)
               PROVE  p \in S
    <3>1. \A a \in Commit : Range(history.parents[a]) \subseteq Commit
      <4>1. ASSUME NEW s \in Seq(Commit) PROVE Range(s) \subseteq Commit
        BY DEF Range
      <4> QED BY <4>1 DEF HistoryType
    <3> QED BY <3>1 DEF Anc, ClosedUnder
  <2>1. a \in S
    BY <1>2
  <2> QED BY <2>1 DEF ClosedUnder
<1> QED BY <1>1, <1>2, <1>3

\* The parents of a commit are its ancestors.
LEMMA ParentsAreAncestors ==
  ASSUME history \in HistoryType, NEW c \in Commit
  PROVE  Range(history.parents[c]) \subseteq Anc(c) /\ Range(history.parents[c]) \subseteq Commit
BY AncIsLeast DEF ClosedUnder

\* An ancestor's ancestors are ancestors.
LEMMA AncTransitive ==
  ASSUME history \in HistoryType, NEW c \in Commit, NEW d \in Anc(c)
  PROVE  d \in Commit /\ Anc(d) \subseteq Anc(c)
<1>1. d \in Commit /\ Anc(c) \in SUBSET Commit /\ ClosedUnder(Anc(c))
  BY AncIsLeast
<1> QED BY <1>1, AncIsLeast

\* What is not the commit itself is an ancestor of a parent.
LEMMA AncUnfold ==
  ASSUME history \in HistoryType, NEW c \in Commit, NEW x \in Anc(c), x # c
  PROVE  \E p \in Range(history.parents[c]) : x \in Anc(p)
<1> DEFINE P == Range(history.parents[c])
           S == {c} \cup {a \in Commit : \E p \in P : a \in Anc(p)}
<1>1. P \subseteq Commit
  BY ParentsAreAncestors
<1>2. S \in SUBSET Commit /\ c \in S
  OBVIOUS
<1>3. ASSUME NEW a \in S PROVE Range(history.parents[a]) \subseteq S
  <2>1. CASE a = c
    <3>1. \A p \in P : p \in Anc(p)
      BY <1>1, AncIsLeast
    <3> QED BY <1>1, <2>1, <3>1
  <2>2. CASE a # c
    <3>1. PICK p \in P : a \in Anc(p)
      BY <2>2
    <3>2. p \in Commit /\ ClosedUnder(Anc(p)) /\ Anc(p) \subseteq Commit
      BY <1>1, AncIsLeast
    <3>3. Range(history.parents[a]) \subseteq Anc(p)
      BY <3>1, <3>2 DEF ClosedUnder
    <3> QED BY <3>2, <3>3
  <2> QED BY <2>1, <2>2
<1>4. Anc(c) \subseteq S
  <2>1. ClosedUnder(S)
    BY <1>3 DEF ClosedUnder
  <2> QED BY <1>2, <2>1, AncIsLeast
<1> QED BY <1>4

\* The nearest common parent is an ancestor of both, and zero when there is none.
LEMMA NearestIsCommon ==
  ASSUME Zero \notin Commit, history \in HistoryType, NEW c \in Commit, NEW d \in Commit,
         NEW b \in NearestCommonParents(c, d)
  PROVE  /\ b \in Commit \cup {Zero}
         /\ b # Zero => IsAncestor(b, c) /\ IsAncestor(b, d)
         /\ b = Zero => Anc(c) \cap Anc(d) = {}
<1>1. Anc(c) \subseteq Commit
  BY AncIsLeast
<1>2. CASE Anc(c) \cap Anc(d) = {}
  BY <1>2 DEF NearestCommonParents
<1>3. CASE Anc(c) \cap Anc(d) # {}
  BY <1>1, <1>3 DEF NearestCommonParents, IsAncestor
<1> QED BY <1>2, <1>3

-----------------------------------------------------------------------------
(* The steps.                                                              *)

\* What the command was given, and that it does not change.
LEMMA CommandFacts ==
  ASSUME MergeAssumption, TypeOK
  PROVE  /\ history \in HistoryType /\ cmd.tips \in Seq(Commit) /\ Zero \notin Commit
         /\ Tip \in Commit /\ cmd.tips[2] \in Others /\ Others \subseteq Commit
         /\ Pair => Others = {cmd.tips[2]}
         /\ cmd.name = "merge" => Pair \/ ByOctopus
<1>1. history \in HistoryType /\ cmd \in CommandType /\ Len(cmd.tips) >= 2 /\ Zero \notin Commit
  BY DEF MergeAssumption, TypeOK
<1>2. cmd.tips \in Seq(Commit) /\ cmd.name \in {"merge", "merge-base", "octopus"}
  BY <1>1 DEF CommandType
<1>3. Len(cmd.tips) \in Nat /\ \A i \in 1 .. Len(cmd.tips) : cmd.tips[i] \in Commit
  BY <1>2
<1>4. 1 \in 1 .. Len(cmd.tips) /\ 2 \in 2 .. Len(cmd.tips)
      /\ 2 .. Len(cmd.tips) \subseteq 1 .. Len(cmd.tips)
  BY <1>1, <1>3
<1>5. Tip \in Commit /\ cmd.tips[2] \in Others /\ Others \subseteq Commit
  BY <1>3, <1>4 DEF Tip, Others
<1>6. Pair => Others = {cmd.tips[2]}
  <2>1. Pair => 2 .. Len(cmd.tips) = {2}
    BY DEF Pair
  <2> QED BY <2>1 DEF Others
<1> QED BY <1>1, <1>2, <1>5, <1>6 DEF ByOctopus

LEMMA SameCommand ==
  ASSUME UNCHANGED given
  PROVE  /\ Tip' = Tip /\ Others' = Others /\ Pair' = Pair /\ ByOctopus' = ByOctopus
         /\ InLine' = InLine /\ history' = history /\ cmd' = cmd /\ detached' = detached
         /\ \A c : Anc(c)' = Anc(c)
         /\ \A c, d : IsAncestor(c, d)' = IsAncestor(c, d)
         /\ \A c : InOther(c)' = InOther(c)
<1>1. history' = history /\ cmd' = cmd /\ detached' = detached
  BY DEF given
<1>2. Tip' = Tip /\ Others' = Others /\ Pair' = Pair /\ ByOctopus' = ByOctopus
  BY <1>1 DEF Tip, Others, Pair, ByOctopus
<1>3. \A c : Anc(c)' = Anc(c)
  BY <1>1 DEF Anc, ClosedUnder
<1>4. \A c, d : IsAncestor(c, d)' = IsAncestor(c, d)
  BY <1>3 DEF IsAncestor
<1>5. \A c : InOther(c)' = InOther(c)
  BY <1>2, <1>4 DEF InOther
<1>6. InLine' = InLine
  BY <1>1, <1>2, <1>4 DEF InLine
<1> QED BY <1>1, <1>2, <1>3, <1>4, <1>5, <1>6

LEMMA InitIInv == MergeAssumption /\ Init => IInv
<1> SUFFICES ASSUME MergeAssumption, Init PROVE IInv
  OBVIOUS
<1>1. history \in Histories /\ cmd \in Commands
  BY DEF Init
<1>2. cmd \in CommandType /\ Len(cmd.tips) >= 2
  BY <1>1 DEF MergeAssumption
<1>3. Tip \in Commit
  <2>1. cmd.tips \in Seq(Commit)
    BY <1>2 DEF CommandType
  <2> QED BY <1>2, <2>1 DEF Tip
<1>4. TypeOK
  <2>1. <<>> \in Seq(Commit) /\ pc \in {"check", "find"}
    BY DEF Init
  <2>2. /\ head = Tip /\ tree = Tip /\ level = <<>> /\ next = <<>> /\ rest = <<>>
        /\ base = Zero /\ outcome = "none" /\ raced = "no" /\ detached \in BOOLEAN
    BY DEF Init
  <2> QED BY <1>1, <1>3, <2>1, <2>2 DEF TypeOK
<1>5. pc \in {"check", "find"} /\ outcome = "none"
      /\ (pc = "check" => cmd.name = "merge")
      /\ (pc # "check" => cmd.name # "merge")
  BY DEF Init
<1> QED BY <1>4, <1>5 DEF IInv, Init, FindInv, SearchInv, Searching, FoldInv, DecideInv, HeadInv, BaseKnown,
      BaseIsCommon, NoBaseMeansUnrelated, FastForwardExact


\* When the search or the fold has its answer the invariant turns into what is
\* promised of the base.
LEMMA BaseFound ==
  ASSUME MergeAssumption, IInv, HasBase, pc \in {"find", "search", "fold"},
         UNCHANGED <<given, repo, level, next, rest>>,
         base' \in Commit \cup {Zero},
         base' # Zero =>
           /\ IsAncestor(base', Tip)
           /\ IF Pair \/ ByOctopus
              THEN \A c \in Others : IsAncestor(base', c)
              ELSE InOther(base'),
         Pair /\ base' = Zero => Anc(Tip) \cap Anc(cmd.tips[2]) = {},
         InLine # {} => base' \in InLine
  PROVE  IInv'
<1>1. /\ Tip' = Tip /\ Others' = Others /\ Pair' = Pair /\ ByOctopus' = ByOctopus
      /\ InLine' = InLine /\ history' = history /\ cmd' = cmd /\ detached' = detached
      /\ \A c : Anc(c)' = Anc(c)
      /\ \A c, d : IsAncestor(c, d)' = IsAncestor(c, d)
      /\ \A c : InOther(c)' = InOther(c)
  BY SameCommand
<1>2. \/ cmd.name = "merge" /\ pc' = "decide" /\ outcome' = outcome
      \/ cmd.name # "merge" /\ pc' = "done" /\ outcome' = "printed"
  BY DEF HasBase, End
<1>3. outcome = "none"
  BY DEF IInv, DecideInv
<1>4. TypeOK'
  BY <1>1, <1>2 DEF IInv, TypeOK, repo
<1>5. FindInv' /\ SearchInv' /\ FoldInv'
  BY <1>2 DEF FindInv, SearchInv, Searching, FoldInv
<1>6. DecideInv' /\ HeadInv'
  BY <1>1, <1>2, <1>3 DEF IInv, DecideInv, HeadInv, BaseKnown
<1>7. BaseIsCommon'
  BY <1>1 DEF BaseIsCommon
<1>8. NoBaseMeansUnrelated'
  <2>1. Tip = cmd.tips[1]
    BY DEF Tip
  <2> QED BY <1>1, <2>1 DEF NoBaseMeansUnrelated
<1>9. FastForwardExact'
  BY <1>2, <1>3 DEF FastForwardExact
<1> QED BY <1>4, <1>5, <1>6, <1>7, <1>8, <1>9 DEF IInv

\* One of two commits in line is the base.
LEMMA FastPathStep ==
  ASSUME MergeAssumption, IInv, FastPath
  PROVE  IInv'
<1>1. /\ pc = "find" /\ base' \in InLine /\ HasBase
      /\ UNCHANGED <<given, repo, level, next, rest>>
  BY DEF FastPath
<1>2. /\ history \in HistoryType /\ Tip \in Commit /\ cmd.tips[2] \in Commit
      /\ Pair => Others = {cmd.tips[2]}
      /\ Zero \notin Commit
  BY CommandFacts DEF IInv
<1>3. Pair /\ base' \in {Tip, cmd.tips[2]}
  BY <1>1 DEF InLine, Tip
<1>4. IsAncestor(base', Tip) /\ IsAncestor(base', cmd.tips[2])
  <2>1. IsAncestor(Tip, Tip) /\ IsAncestor(cmd.tips[2], cmd.tips[2])
    BY <1>2, AncIsLeast DEF IsAncestor
  <2> QED BY <1>1, <2>1 DEF InLine, Tip
<1>5. base' # Zero
  BY <1>2, <1>3
<1> QED BY <1>1, <1>2, <1>3, <1>4, <1>5, BaseFound

\* The commit found is an ancestor of the first, as all of the level.
LEMMA FoundStep ==
  ASSUME MergeAssumption, IInv, NEW i \in DOMAIN level, Found(i)
  PROVE  IInv'
<1>1. /\ pc = "search" /\ InOther(level[i]) /\ base' = level[i] /\ HasBase
      /\ UNCHANGED <<given, repo, level, next, rest>>
  BY DEF Found
<1>2. level[i] \in Pending /\ level[i] \in Commit
  BY DEF Pending, Range, IInv, TypeOK
<1>3. InLine = {} /\ ~ByOctopus /\ IsAncestor(level[i], Tip)
  BY <1>1, <1>2 DEF IInv, SearchInv, Searching, IsAncestor
<1>4. Pair => Others = {cmd.tips[2]}
  BY CommandFacts DEF IInv
<1>5. Pair => \A c \in Others : IsAncestor(level[i], c)
  BY <1>1, <1>4 DEF InOther
<1>6. level[i] # Zero
  BY <1>2 DEF MergeAssumption
<1> QED BY <1>1, <1>2, <1>3, <1>5, <1>6, BaseFound

\* An empty level leaves no ancestor to share.
LEMMA UnrelatedStep ==
  ASSUME MergeAssumption, IInv, Unrelated
  PROVE  IInv'
<1>1. /\ pc = "search" /\ level = <<>> /\ HasBase
      /\ UNCHANGED <<given, repo, search>>
  BY DEF Unrelated
<1>2. /\ base = Zero /\ InLine = {} /\ next = <<>>
      /\ Pair => \A x \in Anc(Tip) \cap Anc(cmd.tips[2]) : \E l \in Pending : x \in Anc(l)
  BY <1>1 DEF IInv, SearchInv, Searching
<1>3. Pending = {}
  BY <1>1, <1>2 DEF Pending, Range
<1>4. Pair => Anc(Tip) \cap Anc(cmd.tips[2]) = {}
  BY <1>2, <1>3
<1>5. base' = Zero /\ UNCHANGED <<given, repo, level, next, rest>>
  BY <1>1, <1>2 DEF search
<1> QED BY <1>1, <1>2, <1>4, <1>5, BaseFound

\* The fold has taken every commit.
LEMMA EndFoldStep ==
  ASSUME MergeAssumption, IInv, EndFold
  PROVE  IInv'
<1>1. /\ pc = "fold" /\ rest = <<>> /\ HasBase /\ UNCHANGED <<given, repo, search>>
  BY DEF EndFold
<1>2. /\ InLine = {} /\ ByOctopus
      /\ base # Zero =>
           IsAncestor(base, Tip) /\ \A c \in Others \ Range(rest) : IsAncestor(base, c)
      /\ Pair /\ base = Zero => Anc(Tip) \cap Anc(cmd.tips[2]) = {}
  BY <1>1 DEF IInv, FoldInv
<1>3. Range(rest) = {}
  BY <1>1 DEF Range
<1>4. base' = base /\ UNCHANGED <<given, repo, level, next, rest>>
  BY <1>1 DEF search
<1>5. base \in Commit \cup {Zero}
  BY DEF IInv, TypeOK
<1> QED BY <1>1, <1>2, <1>3, <1>4, <1>5, BaseFound


\* While the base is looked for nothing else is claimed.
LEMMA StillLooking ==
  ASSUME MergeAssumption, IInv, UNCHANGED <<given, outcome>>, pc # "done",
         pc' \in {"find", "search", "expand", "fold"},
         pc = "check" => \E c \in Others : ~IsAncestor(c, Tip),
         TypeOK', FindInv', SearchInv', FoldInv'
  PROVE  IInv'
<1>1. /\ Others' = Others /\ cmd' = cmd /\ Tip' = Tip
      /\ \A c, d : IsAncestor(c, d)' = IsAncestor(c, d)
  BY SameCommand
<1>2. outcome = "none" /\ outcome' = "none"
  BY DEF IInv, DecideInv
<1>3. ~BaseKnown'
  BY <1>2 DEF BaseKnown
<1>4. DecideInv' /\ HeadInv'
  BY <1>1, <1>2, <1>3 DEF IInv, DecideInv, HeadInv
<1>5. BaseIsCommon' /\ NoBaseMeansUnrelated' /\ FastForwardExact'
  BY <1>2, <1>3 DEF BaseIsCommon, NoBaseMeansUnrelated, FastForwardExact
<1> QED BY <1>4, <1>5 DEF IInv

\* What is shared is behind the first commit's parents, since it is not itself
\* shared.
LEMMA StartSearchStep ==
  ASSUME MergeAssumption, IInv, StartSearch
  PROVE  IInv'
<1>1. /\ pc = "find" /\ InLine = {} /\ ~ByOctopus /\ level' = history.parents[Tip]
      /\ pc' = "search" /\ UNCHANGED <<given, outcome>> /\ repo' = repo
      /\ next' = next /\ rest' = rest /\ base' = base
  BY DEF StartSearch
<1>2. /\ history \in HistoryType /\ Tip \in Commit /\ cmd.tips[2] \in Commit
      /\ history.parents[Tip] \in Seq(Commit)
  BY CommandFacts DEF IInv, HistoryType
<1>3. /\ Tip' = Tip /\ Pair' = Pair /\ ByOctopus' = ByOctopus /\ InLine' = InLine
      /\ cmd' = cmd /\ history' = history /\ detached' = detached
      /\ \A c : Anc(c)' = Anc(c)
  BY <1>1, SameCommand
<1>4. base = Zero /\ next = <<>>
  BY <1>1 DEF IInv, FindInv
<1>5. Pending' = Range(history.parents[Tip])
  BY <1>1, <1>4 DEF Pending, Range
<1>6. Range(history.parents[Tip]) \subseteq Anc(Tip)
  BY <1>2, ParentsAreAncestors
<1>7. ASSUME Pair, NEW x \in Anc(Tip) \cap Anc(cmd.tips[2])
      PROVE  \E l \in Range(history.parents[Tip]) : x \in Anc(l)
  <2>1. Tip \notin Anc(cmd.tips[2])
    BY <1>1, <1>7 DEF InLine, IsAncestor, Tip
  <2>2. x # Tip
    BY <1>7, <2>1
  <2> QED BY <1>2, <1>7, <2>2, AncUnfold
<1>8. SearchInv'
  BY <1>1, <1>3, <1>4, <1>5, <1>6, <1>7 DEF SearchInv, Searching
<1>9. TypeOK'
  BY <1>1, <1>2, <1>3 DEF IInv, TypeOK, repo
<1>10. FindInv' /\ FoldInv'
  BY <1>1 DEF FindInv, FoldInv
<1> QED BY <1>1, <1>8, <1>9, <1>10, StillLooking

LEMMA NoneFoundStep ==
  ASSUME MergeAssumption, IInv, NoneFound
  PROVE  IInv'
<1>1. /\ pc = "search" /\ pc' = "expand" /\ \A c \in Range(level) : ~InOther(c)
      /\ UNCHANGED <<given, outcome>> /\ repo' = repo
      /\ level' = level /\ next' = next /\ rest' = rest /\ base' = base
  BY DEF NoneFound, search
<1>2. /\ Tip' = Tip /\ Pair' = Pair /\ ByOctopus' = ByOctopus /\ InLine' = InLine
      /\ cmd' = cmd /\ history' = history /\ detached' = detached
      /\ \A c : Anc(c)' = Anc(c) /\ InOther(c)' = InOther(c)
  BY <1>1, SameCommand
<1>3. Pending' = Pending
  BY <1>1 DEF Pending
<1>4. SearchInv'
  BY <1>1, <1>2, <1>3 DEF IInv, SearchInv, Searching
<1>5. TypeOK' /\ FindInv' /\ FoldInv'
  BY <1>1, <1>2 DEF IInv, TypeOK, FindInv, FoldInv, repo
<1> QED BY <1>1, <1>4, <1>5, StillLooking

\* A commit that is no ancestor of the other is replaced by its parents: what
\* was shared behind it is behind one of them.
LEMMA ExpandStep ==
  ASSUME MergeAssumption, IInv, NEW c \in Commit, Expand(c)
  PROVE  IInv'
<1>1. /\ pc = "expand" /\ pc' = pc /\ level # <<>> /\ c = Head(level)
      /\ next' = next \o history.parents[c] /\ level' = Tail(level)
      /\ UNCHANGED <<given, outcome>> /\ repo' = repo /\ rest' = rest /\ base' = base
  BY DEF Expand
<1>2. /\ history \in HistoryType /\ Tip \in Commit /\ cmd.tips[2] \in Others
      /\ cmd.tips[2] \in Commit
  BY CommandFacts DEF IInv
<1>3. level \in Seq(Commit) /\ next \in Seq(Commit) /\ history.parents[c] \in Seq(Commit)
  BY <1>2 DEF IInv, TypeOK, HistoryType
<1>4. Tail(level) \in Seq(Commit) /\ Range(level) = {c} \cup Range(Tail(level))
  BY <1>1, <1>3, RangeTail
<1>5. /\ next' \in Seq(Commit)
      /\ Range(next') = Range(next) \cup Range(history.parents[c])
  <2> DEFINE s == history.parents[c]
  <2>1. s \in Seq(Commit)
    BY <1>3
  <2> HIDE DEF s
  <2>2. next \o s \in Seq(Commit) /\ Range(next \o s) = Range(next) \cup Range(s)
    BY <1>3, <2>1, RangeConcat
  <2> QED BY <1>1, <2>2 DEF s
<1>6. /\ base = Zero /\ InLine = {} /\ ~ByOctopus /\ Pending \subseteq Anc(Tip)
      /\ Pair => \A x \in Anc(Tip) \cap Anc(cmd.tips[2]) : \E l \in Pending : x \in Anc(l)
      /\ \A l \in Range(level) : ~InOther(l)
  BY <1>1 DEF IInv, SearchInv, Searching
<1>7. Pending = {c} \cup Range(Tail(level)) \cup Range(next)
      /\ Pending' = Range(Tail(level)) \cup Range(next) \cup Range(history.parents[c])
  BY <1>1, <1>4, <1>5 DEF Pending
<1>8. Pending' \subseteq Anc(Tip)
  <2>1. Range(history.parents[c]) \subseteq Anc(c)
    BY <1>2, ParentsAreAncestors
  <2>2. Anc(c) \subseteq Anc(Tip)
    BY <1>2, <1>6, <1>7, AncTransitive
  <2> QED BY <1>6, <1>7, <2>1, <2>2
<1>9. ASSUME Pair, NEW x \in Anc(Tip) \cap Anc(cmd.tips[2])
      PROVE  \E l \in Pending' : x \in Anc(l)
  <2>1. PICK l \in Pending : x \in Anc(l)
    BY <1>6, <1>9
  <2>2. CASE l # c
    BY <1>7, <2>1, <2>2
  <2>3. CASE l = c
    <3>1. c \notin Anc(cmd.tips[2])
      BY <1>2, <1>4, <1>6 DEF InOther, IsAncestor
    <3>2. x # c
      BY <1>9, <3>1
    <3>3. \E p \in Range(history.parents[c]) : x \in Anc(p)
      BY <1>2, <2>1, <2>3, <3>2, AncUnfold
    <3> QED BY <1>7, <3>3
  <2> QED BY <2>2, <2>3
<1>10. /\ Tip' = Tip /\ Pair' = Pair /\ ByOctopus' = ByOctopus /\ InLine' = InLine
       /\ cmd' = cmd /\ history' = history /\ detached' = detached
       /\ \A d : Anc(d)' = Anc(d) /\ InOther(d)' = InOther(d)
  BY <1>1, SameCommand
<1>11. SearchInv'
  <2>1. \A l \in Range(level') : ~InOther(l)'
    BY <1>1, <1>4, <1>6, <1>10
  <2> QED BY <1>1, <1>6, <1>8, <1>9, <1>10, <2>1 DEF SearchInv, Searching
<1>12. TypeOK' /\ FindInv' /\ FoldInv'
  BY <1>1, <1>4, <1>5, <1>10 DEF IInv, TypeOK, FindInv, FoldInv, repo
<1> QED BY <1>1, <1>11, <1>12, StillLooking

LEMMA NextLevelStep ==
  ASSUME MergeAssumption, IInv, NextLevel
  PROVE  IInv'
<1>1. /\ pc = "expand" /\ pc' = "search" /\ level = <<>> /\ level' = next /\ next' = <<>>
      /\ UNCHANGED <<given, outcome>> /\ repo' = repo /\ rest' = rest /\ base' = base
  BY DEF NextLevel
<1>2. /\ Tip' = Tip /\ Pair' = Pair /\ ByOctopus' = ByOctopus /\ InLine' = InLine
      /\ cmd' = cmd /\ history' = history /\ detached' = detached
      /\ \A c : Anc(c)' = Anc(c)
  BY <1>1, SameCommand
<1>3. Pending' = Pending
  BY <1>1 DEF Pending, Range
<1>4. SearchInv'
  BY <1>1, <1>2, <1>3 DEF IInv, SearchInv, Searching
<1>5. TypeOK' /\ FindInv' /\ FoldInv'
  BY <1>1, <1>2 DEF IInv, TypeOK, FindInv, FoldInv, repo
<1> QED BY <1>1, <1>4, <1>5, StillLooking


LEMMA StartFoldStep ==
  ASSUME MergeAssumption, IInv, StartFold
  PROVE  IInv'
<1>1. /\ pc = "find" /\ InLine = {} /\ ByOctopus /\ base' = Tip /\ rest' = Tail(cmd.tips)
      /\ pc' = "fold" /\ UNCHANGED <<given, outcome>> /\ repo' = repo
      /\ level' = level /\ next' = next
  BY DEF StartFold
<1>2. /\ history \in HistoryType /\ cmd.tips \in Seq(Commit) /\ Zero \notin Commit
      /\ Tip \in Commit
  BY CommandFacts DEF IInv
<1>3. Len(cmd.tips) \in Nat /\ Len(cmd.tips) >= 2
  BY <1>2 DEF IInv, TypeOK, MergeAssumption
<1>4. /\ Tail(cmd.tips) \in Seq(Commit) /\ Len(Tail(cmd.tips)) = Len(cmd.tips) - 1
      /\ \A j \in 1 .. Len(cmd.tips) - 1 : Tail(cmd.tips)[j] = cmd.tips[j + 1]
      /\ DOMAIN Tail(cmd.tips) = 1 .. Len(cmd.tips) - 1
  BY <1>2, <1>3
<1>5. Range(Tail(cmd.tips)) = Others
  <2>1. \A j \in 1 .. Len(cmd.tips) - 1 : j + 1 \in 2 .. Len(cmd.tips)
    BY <1>3
  <2>2. ASSUME NEW k \in 2 .. Len(cmd.tips)
        PROVE  k - 1 \in 1 .. Len(cmd.tips) - 1 /\ Tail(cmd.tips)[k - 1] = cmd.tips[k]
    BY <1>3, <1>4
  <2>3. Range(Tail(cmd.tips)) \subseteq Others
    BY <1>4, <2>1 DEF Range, Others
  <2>4. Others \subseteq Range(Tail(cmd.tips))
    <3>1. ASSUME NEW k \in 2 .. Len(cmd.tips) PROVE cmd.tips[k] \in Range(Tail(cmd.tips))
      <4>1. k - 1 \in DOMAIN Tail(cmd.tips) /\ cmd.tips[k] = Tail(cmd.tips)[k - 1]
        BY <1>4, <2>2
      <4> QED BY <4>1 DEF Range
    <3> QED BY <3>1 DEF Others
  <2> QED BY <2>3, <2>4
<1>6. /\ Tip' = Tip /\ Others' = Others /\ Pair' = Pair /\ ByOctopus' = ByOctopus
      /\ InLine' = InLine /\ cmd' = cmd /\ history' = history /\ detached' = detached
      /\ \A c, d : IsAncestor(c, d)' = IsAncestor(c, d)
  BY <1>1, SameCommand
<1>7. IsAncestor(Tip, Tip)
  BY <1>2, AncIsLeast DEF IsAncestor
<1>8. FoldInv'
  <2>1. Range(rest') = Others /\ (Pair => Len(rest') = 1)
    BY <1>1, <1>4, <1>5 DEF Pair
  <2>2. IsAncestor(base, Tip)'
    BY <1>1, <1>6, <1>7
  <2> QED BY <1>1, <1>2, <1>6, <2>1, <2>2 DEF FoldInv
<1>9. TypeOK' /\ FindInv' /\ SearchInv'
  BY <1>1, <1>2, <1>4, <1>6 DEF IInv, TypeOK, FindInv, SearchInv, Searching, repo
<1> QED BY <1>1, <1>8, <1>9, StillLooking

\* An ancestor of what was common so far is common, too.
LEMMA FoldStep ==
  ASSUME MergeAssumption, IInv, NEW c \in Commit, Fold(c)
  PROVE  IInv'
<1>1. /\ pc = "fold" /\ pc' = pc /\ rest # <<>> /\ c = Head(rest) /\ base # Zero
      /\ base' \in NearestCommonParents(base, c) /\ rest' = Tail(rest)
      /\ UNCHANGED <<given, outcome>> /\ repo' = repo /\ level' = level /\ next' = next
  BY DEF Fold
<1>2. /\ history \in HistoryType /\ Zero \notin Commit /\ Tip \in Commit
      /\ Others \subseteq Commit /\ (Pair => Others = {cmd.tips[2]})
  BY CommandFacts DEF IInv
<1>3. rest \in Seq(Commit) /\ base \in Commit
  BY <1>1 DEF IInv, TypeOK
<1>4. Tail(rest) \in Seq(Commit) /\ Range(rest) = {c} \cup Range(Tail(rest))
  BY <1>1, <1>3, RangeTail
<1>5. /\ InLine = {} /\ ByOctopus /\ IsAncestor(base, Tip)
      /\ \A d \in Others \ Range(rest) : IsAncestor(base, d)
      /\ Pair => rest = <<>> \/ (base = Tip /\ Len(rest) = 1)
      /\ Range(rest) \subseteq Others
  BY <1>1 DEF IInv, FoldInv
<1>6. /\ base' \in Commit \cup {Zero}
      /\ base' # Zero => IsAncestor(base', base) /\ IsAncestor(base', c)
      /\ base' = Zero => Anc(base) \cap Anc(c) = {}
  BY <1>1, <1>2, <1>3, NearestIsCommon
<1>7. ASSUME NEW d \in Commit, IsAncestor(base, d), base' # Zero
      PROVE  IsAncestor(base', d)
  <2>1. Anc(base) \subseteq Anc(d)
    BY <1>2, <1>7, AncTransitive DEF IsAncestor
  <2> QED BY <1>6, <1>7, <2>1 DEF IsAncestor
<1>8. base' # Zero => IsAncestor(base', Tip) /\ \A d \in Others \ Range(rest') : IsAncestor(base', d)
  BY <1>1, <1>2, <1>4, <1>5, <1>6, <1>7
<1>9. Pair => rest' = <<>>
  <2>1. Pair => Len(rest) = 1
    BY <1>1, <1>5
  <2> QED BY <1>1, <1>3, <2>1
<1>10. Pair /\ base' = Zero => Anc(Tip) \cap Anc(cmd.tips[2]) = {}
  <2>1. Pair => base = Tip /\ c = cmd.tips[2]
    BY <1>1, <1>2, <1>4, <1>5
  <2> QED BY <1>6, <2>1
<1>11. /\ Tip' = Tip /\ Others' = Others /\ Pair' = Pair /\ ByOctopus' = ByOctopus
       /\ InLine' = InLine /\ cmd' = cmd /\ history' = history /\ detached' = detached
       /\ \A d : Anc(d)' = Anc(d)
       /\ \A d, e : IsAncestor(d, e)' = IsAncestor(d, e)
  BY <1>1, SameCommand
<1>12. FoldInv'
  <2>1. Range(rest') \subseteq Others
    BY <1>1, <1>4, <1>5
  <2>2. base' # Zero =>
          IsAncestor(base, Tip)' /\ \A d \in (Others \ Range(rest))' : IsAncestor(base, d)'
    BY <1>8, <1>11
  <2> QED BY <1>5, <1>9, <1>10, <1>11, <2>1, <2>2 DEF FoldInv
<1>13. TypeOK' /\ FindInv' /\ SearchInv'
  BY <1>1, <1>4, <1>6, <1>11 DEF IInv, TypeOK, FindInv, SearchInv, Searching, repo
<1> QED BY <1>1, <1>12, <1>13, StillLooking

-----------------------------------------------------------------------------
(* The steps that look for nothing.                                        *)

\* When the base does not change, what is promised of it does not.
LEMMA BaseKept ==
  ASSUME MergeAssumption, IInv, UNCHANGED <<given, base>>, BaseKnown' => BaseKnown
  PROVE  BaseIsCommon' /\ NoBaseMeansUnrelated'
<1>1. /\ Tip' = Tip /\ Others' = Others /\ Pair' = Pair /\ ByOctopus' = ByOctopus
      /\ cmd' = cmd /\ base' = base
      /\ \A d : Anc(d)' = Anc(d) /\ InOther(d)' = InOther(d)
      /\ \A d, e : IsAncestor(d, e)' = IsAncestor(d, e)
  BY SameCommand
<1>2. BaseIsCommon /\ NoBaseMeansUnrelated
  BY DEF IInv
<1> QED BY <1>1, <1>2 DEF BaseIsCommon, NoBaseMeansUnrelated

LEMMA StartStep ==
  ASSUME MergeAssumption, IInv, UpToDate \/ NeedsMerge
  PROVE  IInv'
<1>1. /\ pc = "check" /\ UNCHANGED given /\ repo' = repo
      /\ level' = level /\ next' = next /\ rest' = rest /\ base' = base
  BY DEF UpToDate, NeedsMerge, search
<1>2. /\ Others' = Others /\ Tip' = Tip /\ cmd' = cmd /\ history' = history
      /\ detached' = detached
      /\ \A d, e : IsAncestor(d, e)' = IsAncestor(d, e)
  BY <1>1, SameCommand
<1>3. outcome = "none" /\ cmd.name = "merge"
  BY <1>1 DEF IInv, DecideInv
<1>4. \/ pc' = "done" /\ outcome' = "upToDate"
      \/ pc' = "find" /\ outcome' = "none" /\ \E c \in Others : ~IsAncestor(c, Tip)
  BY <1>3 DEF UpToDate, NeedsMerge, End
<1>5. TypeOK' /\ FindInv' /\ SearchInv' /\ FoldInv'
  BY <1>1, <1>2, <1>4 DEF IInv, TypeOK, FindInv, SearchInv, Searching, FoldInv, repo
<1>6. ~BaseKnown'
  BY <1>4 DEF BaseKnown
<1>7. DecideInv' /\ HeadInv'
  BY <1>2, <1>4, <1>6 DEF IInv, DecideInv, HeadInv
<1>8. BaseIsCommon' /\ NoBaseMeansUnrelated'
  BY <1>1, <1>6, BaseKept
<1>9. FastForwardExact'
  BY <1>4 DEF FastForwardExact
<1> QED BY <1>5, <1>7, <1>8, <1>9 DEF IInv

\* A command that ends with an error claims nothing.
LEMMA ErrorEnd ==
  ASSUME MergeAssumption, IInv, End("error"), UNCHANGED <<given, search>>,
         pc \notin {"check", "done"}, TypeOK'
  PROVE  IInv'
<1>1. pc' = "done" /\ outcome' = "error" /\ base' = base
  BY DEF End, search
<1>2. /\ Others' = Others /\ Tip' = Tip /\ cmd' = cmd
      /\ \A d, e : IsAncestor(d, e)' = IsAncestor(d, e)
  BY SameCommand
<1>3. FindInv' /\ SearchInv' /\ FoldInv' /\ FastForwardExact'
  BY <1>1 DEF FindInv, SearchInv, Searching, FoldInv, FastForwardExact
<1>4. ~BaseKnown'
  BY <1>1 DEF BaseKnown
<1>5. DecideInv' /\ HeadInv'
  <2>1. outcome = "none"
    BY DEF IInv, DecideInv
  <2> QED BY <1>1, <1>2, <1>4, <2>1 DEF IInv, DecideInv, HeadInv
<1>6. BaseIsCommon' /\ NoBaseMeansUnrelated'
  BY <1>1, <1>4, BaseKept
<1> QED BY <1>3, <1>5, <1>6 DEF IInv


LEMMA FoldFailsStep ==
  ASSUME MergeAssumption, IInv, FoldFails
  PROVE  IInv'
<1>1. /\ pc = "fold" /\ End("error") /\ UNCHANGED <<given, search>> /\ repo' = repo
  BY DEF FoldFails
<1>2. TypeOK'
  BY <1>1, SameCommand DEF IInv, TypeOK, End, search, repo
<1> QED BY <1>1, <1>2, ErrorEnd

LEMMA NoFastForwardStep ==
  ASSUME MergeAssumption, IInv, NoFastForward
  PROVE  IInv'
<1>1. /\ pc = "decide" /\ End("error") /\ UNCHANGED <<given, search>> /\ repo' = repo
  BY DEF NoFastForward
<1>2. TypeOK'
  BY <1>1, SameCommand DEF IInv, TypeOK, End, search, repo
<1> QED BY <1>1, <1>2, ErrorEnd

\* Only a fast-forward gets to move HEAD.
LEMMA CheckOutStep ==
  ASSUME MergeAssumption, IInv, CheckOut
  PROVE  IInv'
<1>1. /\ pc = "decide" /\ IsFastForward /\ UNCHANGED <<given, search>>
      /\ head' = head /\ raced' = raced
  BY DEF CheckOut
<1>2. cmd.tips[2] \in Commit
  BY CommandFacts DEF IInv
<1>3. CASE End("error") /\ tree' = tree
  <2>1. TypeOK'
    BY <1>1, <1>3, SameCommand DEF IInv, TypeOK, End, search
  <2> QED BY <1>1, <1>3, <2>1, ErrorEnd
<1>4. CASE tree' = cmd.tips[2] /\ pc' = "move" /\ outcome' = outcome
  <2>1. /\ Others' = Others /\ Tip' = Tip /\ cmd' = cmd /\ history' = history
        /\ detached' = detached /\ InLine' = InLine /\ base' = base
        /\ level' = level /\ next' = next /\ rest' = rest
        /\ \A d, e : IsAncestor(d, e)' = IsAncestor(d, e)
    BY <1>1, SameCommand DEF search
  <2>2. TypeOK'
    BY <1>1, <1>2, <1>4, <2>1 DEF IInv, TypeOK
  <2>3. FindInv' /\ SearchInv' /\ FoldInv'
    BY <1>4 DEF FindInv, SearchInv, Searching, FoldInv
  <2>4. BaseKnown /\ outcome = "none" /\ outcome' = "none"
    BY <1>1, <1>4 DEF BaseKnown, IInv, DecideInv
  <2>5. DecideInv' /\ HeadInv'
    BY <1>1, <1>4, <2>1, <2>4 DEF IInv, DecideInv, HeadInv, IsFastForward
  <2>6. BaseIsCommon' /\ NoBaseMeansUnrelated'
    BY <1>1, <2>1, <2>4, BaseKept
  <2>7. FastForwardExact'
    BY <2>4 DEF FastForwardExact
  <2> QED BY <2>2, <2>3, <2>5, <2>6, <2>7 DEF IInv
<1> QED BY <1>3, <1>4 DEF CheckOut

\* A base that is HEAD is an ancestor of every commit named.
LEMMA HeadIsBase ==
  ASSUME MergeAssumption, IInv, pc \in {"move", "write"}
  PROVE  /\ IsFastForward /\ \A c \in Others : IsAncestor(Tip, c)
         /\ cmd.tips[2] \in Others
<1>1. BaseKnown /\ IsFastForward /\ cmd.name = "merge"
  BY DEF BaseKnown, IInv, DecideInv
<1>2. /\ Tip \in Commit /\ Zero \notin Commit /\ (Pair \/ ByOctopus)
      /\ cmd.tips[2] \in Others
  BY <1>1, CommandFacts DEF IInv
<1>3. base # Zero /\ base = Tip
  BY <1>1, <1>2 DEF IsFastForward
<1> QED BY <1>1, <1>2, <1>3 DEF IInv, BaseIsCommon

\* A comparison that succeeds leaves HEAD as it was read.
LEMMA CompareHeadStep ==
  ASSUME MergeAssumption, IInv, CompareHead
  PROVE  IInv'
<1>1. /\ pc = "move" /\ UNCHANGED <<given, search>>
      /\ head' = head /\ raced' = raced /\ tree' = tree
  BY DEF CompareHead, repo
<1>2. CASE End("error")
  <2>1. TypeOK'
    BY <1>1, <1>2, SameCommand DEF IInv, TypeOK, End, search
  <2> QED BY <1>1, <1>2, <2>1, ErrorEnd
<1>3. CASE (head = Tip \/ detached) /\ pc' = "write" /\ outcome' = outcome
  <2>1. /\ Others' = Others /\ Tip' = Tip /\ cmd' = cmd /\ history' = history
        /\ detached' = detached /\ InLine' = InLine /\ base' = base
        /\ level' = level /\ next' = next /\ rest' = rest
        /\ \A d, e : IsAncestor(d, e)' = IsAncestor(d, e)
    BY <1>1, SameCommand DEF search
  <2>2. TypeOK'
    BY <1>1, <1>3, <2>1 DEF IInv, TypeOK
  <2>3. FindInv' /\ SearchInv' /\ FoldInv'
    BY <1>3 DEF FindInv, SearchInv, Searching, FoldInv
  <2>4. BaseKnown /\ outcome = "none" /\ outcome' = "none"
    BY <1>1, <1>3 DEF BaseKnown, IInv, DecideInv
  <2>5. DecideInv' /\ HeadInv'
    BY <1>1, <1>3, <2>1, <2>4 DEF IInv, DecideInv, HeadInv, IsFastForward
  <2>6. BaseIsCommon' /\ NoBaseMeansUnrelated'
    BY <1>1, <2>1, <2>4, BaseKept
  <2>7. FastForwardExact'
    BY <2>4 DEF FastForwardExact
  <2> QED BY <2>2, <2>3, <2>5, <2>6, <2>7 DEF IInv
<1> QED BY <1>2, <1>3 DEF CompareHead

LEMMA MoveHeadStep ==
  ASSUME MergeAssumption, IInv, MoveHead
  PROVE  IInv'
<1>1. /\ pc = "write" /\ UNCHANGED <<given, search>> /\ raced' = raced /\ tree' = tree
      /\ head' = cmd.tips[2] /\ pc' = "done" /\ outcome' = "fastForward"
  BY DEF MoveHead, End
<1>2. cmd.tips[2] \in Commit
  BY CommandFacts DEF IInv
<1>3. /\ Others' = Others /\ Tip' = Tip /\ cmd' = cmd /\ history' = history
      /\ detached' = detached /\ InLine' = InLine /\ base' = base
      /\ level' = level /\ next' = next /\ rest' = rest
      /\ \A d, e : IsAncestor(d, e)' = IsAncestor(d, e)
  BY <1>1, SameCommand DEF search
<1>4. TypeOK'
  BY <1>1, <1>2, <1>3 DEF IInv, TypeOK
<1>5. FindInv' /\ SearchInv' /\ FoldInv'
  BY <1>1 DEF FindInv, SearchInv, Searching, FoldInv
<1>6. BaseKnown /\ outcome = "none"
  BY <1>1 DEF BaseKnown, IInv, DecideInv
<1>7. DecideInv' /\ HeadInv'
  BY <1>1, <1>3, <1>6 DEF IInv, DecideInv, HeadInv
<1>8. BaseIsCommon' /\ NoBaseMeansUnrelated'
  BY <1>1, <1>3, <1>6, BaseKept
<1>9. FastForwardExact'
  <2>1. \A c \in Others : IsAncestor(Tip, c)
    BY <1>1, HeadIsBase
  <2> QED BY <1>1, <1>3, <2>1 DEF FastForwardExact
<1> QED BY <1>4, <1>5, <1>7, <1>8, <1>9 DEF IInv

\* Trees are merged only when neither commit is in the other, but for --no-ff.
LEMMA ThreeWayStep ==
  ASSUME MergeAssumption, IInv, ThreeWay
  PROVE  IInv'
<1>1. /\ pc = "decide" /\ ~IsFastForward /\ Pair /\ UNCHANGED <<given, search>>
      /\ head' = head /\ raced' = raced
  BY DEF ThreeWay
<1>2. CASE End("error") /\ tree' = tree
  <2>1. TypeOK'
    BY <1>1, <1>2, SameCommand DEF IInv, TypeOK, End, search
  <2> QED BY <1>1, <1>2, <2>1, ErrorEnd
<1>3. CASE tree' = "merged" /\ \E o \in {"merged", "conflicts"} : End(o)
  <2>1. /\ Others' = Others /\ Tip' = Tip /\ cmd' = cmd /\ history' = history
        /\ detached' = detached /\ InLine' = InLine /\ base' = base
        /\ level' = level /\ next' = next /\ rest' = rest
        /\ \A d, e : IsAncestor(d, e)' = IsAncestor(d, e)
    BY <1>1, SameCommand DEF search
  <2>2. pc' = "done" /\ outcome' \in {"merged", "conflicts"}
    BY <1>3 DEF End
  <2>3. TypeOK'
    BY <1>1, <1>3, <2>1, <2>2 DEF IInv, TypeOK
  <2>4. FindInv' /\ SearchInv' /\ FoldInv'
    BY <2>2 DEF FindInv, SearchInv, Searching, FoldInv
  <2>5. BaseKnown /\ outcome = "none" /\ cmd.name = "merge"
    BY <1>1 DEF BaseKnown, IInv, DecideInv
  <2>6. DecideInv' /\ HeadInv'
    BY <1>1, <2>1, <2>2, <2>5 DEF IInv, DecideInv, HeadInv
  <2>7. BaseIsCommon' /\ NoBaseMeansUnrelated'
    BY <1>1, <2>1, <2>5, BaseKept
  <2>8. FastForwardExact'
    <3>1. Others = {cmd.tips[2]}
      BY <1>1, CommandFacts DEF IInv
    <3>2. ~IsAncestor(cmd.tips[2], Tip)
      BY <1>1, <2>5, <3>1 DEF IInv, DecideInv
    <3>3. cmd.noFF \/ ~IsAncestor(Tip, cmd.tips[2])
      <4>1. SUFFICES ASSUME ~cmd.noFF, IsAncestor(Tip, cmd.tips[2]) PROVE FALSE
        OBVIOUS
      <4>2. InLine = {Tip}
        BY <1>1, <4>1 DEF InLine, Tip
      <4>3. base = Tip
        BY <2>5, <4>2 DEF IInv, DecideInv
      <4> QED BY <1>1, <4>1, <4>3 DEF IsFastForward
    <3> QED BY <2>1, <2>2, <3>1, <3>2, <3>3 DEF FastForwardExact
  <2> QED BY <2>3, <2>4, <2>6, <2>7, <2>8 DEF IInv
<1> QED BY <1>2, <1>3 DEF ThreeWay

\* What other processes move HEAD to is a commit, and a move that comes between
\* the comparison and the write is late.
LEMMA OtherStep ==
  ASSUME MergeAssumption, IInv, (\E c \in Commit : Race(c)) \/ UNCHANGED vars
  PROVE  IInv'
<1>1. /\ UNCHANGED given /\ tree' = tree /\ pc' = pc /\ outcome' = outcome
      /\ level' = level /\ next' = next /\ rest' = rest /\ base' = base
      /\ head' \in Commit /\ raced' \in {"no", "early", "late"}
      /\ pc = "write" /\ raced' # "late" => head' = head /\ raced' = raced
  BY DEF Race, vars, given, search, IInv, TypeOK
<1>2. /\ Others' = Others /\ Tip' = Tip /\ cmd' = cmd /\ history' = history
      /\ detached' = detached /\ InLine' = InLine /\ Pair' = Pair /\ ByOctopus' = ByOctopus
      /\ \A d : Anc(d)' = Anc(d) /\ InOther(d)' = InOther(d)
      /\ \A d, e : IsAncestor(d, e)' = IsAncestor(d, e)
  BY <1>1, SameCommand
<1>3. BaseKnown' = BaseKnown /\ Pending' = Pending /\ Range(rest)' = Range(rest)
      /\ Range(level)' = Range(level) /\ IsFastForward' = IsFastForward
  BY <1>1, <1>2 DEF BaseKnown, Pending, Range, IsFastForward
<1>4. TypeOK'
  BY <1>1, <1>2 DEF IInv, TypeOK
<1>5. FindInv' /\ SearchInv'
  BY <1>1, <1>2, <1>3 DEF IInv, FindInv, SearchInv, Searching
<1>6. FoldInv'
  BY <1>1, <1>2, <1>3 DEF IInv, FoldInv
<1>7. DecideInv' /\ HeadInv'
  BY <1>1, <1>2, <1>3 DEF IInv, DecideInv, HeadInv
<1>8. BaseIsCommon' /\ NoBaseMeansUnrelated'
  BY <1>1, <1>3, BaseKept
<1>9. FastForwardExact'
  BY <1>1, <1>2 DEF IInv, FastForwardExact
<1> QED BY <1>4, <1>5, <1>6, <1>7, <1>8, <1>9 DEF IInv

-----------------------------------------------------------------------------
(* The theorems.                                                           *)

\* Every state of a merge satisfies the invariant (merge.go, mergebase.go).
THEOREM Invariance == Spec => []IInv
<1>1. Init => IInv
  BY InitIInv, MergeAssumption
<1>2. IInv /\ [Next]_vars => IInv'
  <2> SUFFICES ASSUME IInv, [Next]_vars PROVE IInv'
    OBVIOUS
  <2>1. CASE UNCHANGED vars
    BY <2>1, OtherStep, MergeAssumption
  <2>2. CASE UpToDate \/ NeedsMerge
    BY <2>2, StartStep, MergeAssumption
  <2>3. CASE FastPath \/ StartSearch \/ NoneFound \/ NextLevel \/ Unrelated
    BY <2>3, FastPathStep, StartSearchStep, NoneFoundStep, NextLevelStep, UnrelatedStep,
       MergeAssumption
  <2>4. CASE \E i \in DOMAIN level : Found(i)
    BY <2>4, FoundStep, MergeAssumption
  <2>5. ASSUME NEW c \in Commit, Expand(c) \/ Fold(c) \/ Race(c) PROVE IInv'
    BY <2>5, ExpandStep, FoldStep, OtherStep, MergeAssumption
  <2>6. CASE StartFold \/ FoldFails \/ EndFold
    BY <2>6, StartFoldStep, FoldFailsStep, EndFoldStep, MergeAssumption
  <2>7. CASE CheckOut \/ CompareHead \/ MoveHead \/ NoFastForward \/ ThreeWay
    BY <2>7, CheckOutStep, CompareHeadStep, MoveHeadStep, NoFastForwardStep, ThreeWayStep, MergeAssumption
  <2> QED BY <2>1, <2>2, <2>3, <2>4, <2>5, <2>6, <2>7 DEF Next
<1> QED BY <1>1, <1>2, PTL DEF Spec

\* Every command line leaves HEAD on a commit and the search with a base or
\* the zero id, never between the two (merge.go:58-147, mergebase.go:32-112).
THEOREM TypeCorrect == Spec => []TypeOK
<1>1. IInv => TypeOK
  BY DEF IInv
<1> QED BY <1>1, Invariance, PTL

\* The base is a common ancestor, however it was found (mergebase.go:32-112).
THEOREM BasesAreCommon == Spec => []BaseIsCommon
<1>1. IInv => BaseIsCommon
  BY DEF IInv
<1> QED BY <1>1, Invariance, PTL

\* The search by levels overlooks no common ancestor of two commits
\* (mergebase.go:62-99).
THEOREM SearchIsComplete == Spec => []NoBaseMeansUnrelated
<1>1. IInv => NoBaseMeansUnrelated
  BY DEF IInv
<1> QED BY <1>1, Invariance, PTL

\* merge fast-forwards, and merges trees, when ancestry says so
\* (merge.go:81-147).
THEOREM FastForwardsAreExact == Spec => []FastForwardExact
<1>1. IInv => FastForwardExact
  BY DEF IInv
<1> QED BY <1>1, Invariance, PTL

\* A merge moves the branch to a descendant of what it is on then, unless
\* another process moves it between the comparison and the write of UpdateRef
\* (merge.go:136, updateref.go:69-97).
THEOREM HeadIsKept == Spec => HeadKeepsHistory
<1>1. IInv /\ [Next]_vars => [detached \/ raced = "late" \/ IsAncestor(head, head')]_head
  <2> SUFFICES ASSUME IInv, [Next]_vars, head' # head, ~detached, raced # "late"
               PROVE  IsAncestor(head, head')
    OBVIOUS
  <2>1. CASE MoveHead
    <3>1. pc = "write" /\ head' = cmd.tips[2]
      BY <2>1 DEF MoveHead
    <3>2. head = Tip
      BY <3>1 DEF IInv, HeadInv
    <3> QED BY <3>1, <3>2, HeadIsBase, MergeAssumption
  <2>2. ASSUME NEW c \in Commit, Race(c) PROVE IsAncestor(head, head')
    BY <2>2 DEF Race
  <2>3. head' = head \/ MoveHead \/ \E c \in Commit : Race(c)
    BY DEF Next, vars, repo, UpToDate, NeedsMerge, FastPath, StartSearch, NoneFound,
           NextLevel, Unrelated, Found, Expand, Fold, StartFold, FoldFails, EndFold,
           CheckOut, CompareHead, NoFastForward, ThreeWay
  <2> QED BY <2>1, <2>2, <2>3
<1> QED BY <1>1, Invariance, PTL DEF Spec, HeadKeepsHistory

=============================================================================
