------------------------------- MODULE Merge -------------------------------
(***************************************************************************)
(* git merge and git merge-base (src/git/merge.go, mergebase.go, and the   *)
(* ancestors of sha1.go).                                                  *)
(*                                                                         *)
(* merge decides from the ancestors of HEAD and of the commits named to it *)
(* that there is nothing to do, that HEAD may move, or that trees have to  *)
(* be merged from a base.  The base is searched level by level from HEAD's *)
(* parents, or for more than two commits by folding the nearest common     *)
(* parent over them.  Another process may move HEAD meanwhile.             *)
(***************************************************************************)
EXTENDS Naturals, Sequences, FiniteSets, Functions

CONSTANTS
  Commit,     \* commit ids
  Zero,       \* the zero id: no base
  Histories,  \* the histories of this instance: parents and dates
  Commands    \* the command lines of this instance

HistoryType == [parents : [Commit -> Seq(Commit)], date : [Commit -> Nat]]

\* The commits of a merge are HEAD and then its arguments.
CommandType == [name : {"merge", "merge-base", "octopus"},
                tips : Seq(Commit), ffOnly : BOOLEAN, noFF : BOOLEAN]

ASSUME MergeAssumption ==
  /\ Zero \notin Commit
  /\ Histories \subseteq HistoryType
  /\ Commands \subseteq CommandType
  /\ \A k \in Commands : Len(k.tips) >= 2

VARIABLES
  history,  \* every commit's parents and date
  cmd,      \* the command and what it was given
  head,     \* the commit HEAD is on
  detached, \* whether HEAD holds it itself
  raced,    \* whether another process has moved it, and since the comparison
  tree,     \* what the index and the work tree hold: a commit, or a merge
  pc,       \* where the command is
  level,    \* the level of the search: what is left of it to expand
  next,     \* the level after it
  rest,     \* the commits the fold has still to take
  base,     \* the merge base found so far
  outcome   \* how the command ended

vars == <<history, cmd, detached, head, raced, tree, pc, level, next, rest, base, outcome>>
given == <<history, cmd, detached>>
search == <<level, next, rest, base>>
repo == <<head, raced, tree>>

Tip == cmd.tips[1]
Others == {cmd.tips[i] : i \in 2 .. Len(cmd.tips)}

-----------------------------------------------------------------------------
(* Ancestors.                                                              *)

\* AncestorMap: c and all that follows from parents.
ClosedUnder(S) == \A c \in S : Range(history.parents[c]) \subseteq S
Anc(c) == {a \in Commit : \A S \in SUBSET Commit : c \in S /\ ClosedUnder(S) => a \in S}

\* IsAncestor(c, d): a commit is its own ancestor.
IsAncestor(c, d) == c \in Anc(d)

\* Bug: of two commits that are not in line, the older comes first.
Less_OldestFirst(c, d) ==
  /\ ~IsAncestor(c, d)
  /\ IsAncestor(d, c) \/ history.date[c] < history.date[d]

\* The comparison Ancestors sorts by: descendants first, then the newer first.
Less(c, d) ==
  /\ ~IsAncestor(c, d)
  /\ IsAncestor(d, c) \/ history.date[d] < history.date[c]

\* Dates and descent may disagree, so Less need not be an order; what the sort
\* leaves has no two neighbours that are the wrong way round.
SortedAncestors(c) ==
  {p \in [1 .. Cardinality(Anc(c)) -> Anc(c)] :
     /\ \A i, j \in DOMAIN p : p[i] = p[j] => i = j
     /\ \A i \in DOMAIN p \ {1} : ~Less(p[i], p[i - 1])}

\* NearestCommonParent: the first of c's ancestors that is one of d's.
NearestCommonParents(c, d) ==
  IF Anc(c) \cap Anc(d) = {}
  THEN {Zero}
  ELSE {a \in Anc(c) \cap Anc(d) :
          \E p \in SortedAncestors(c) : \E i \in DOMAIN p :
            p[i] = a /\ \A j \in 1 .. i - 1 : ~IsAncestor(p[j], d)}

-----------------------------------------------------------------------------
(* The command starts.                                                     *)

Init ==
  /\ history \in Histories
  /\ cmd \in Commands
  /\ head = Tip
  /\ detached \in BOOLEAN
  /\ raced = "no"
  /\ tree = Tip
  /\ pc = IF cmd.name = "merge" THEN "check" ELSE "find"
  /\ level = <<>> /\ next = <<>> /\ rest = <<>>
  /\ base = Zero
  /\ outcome = "none"

End(o) == pc' = "done" /\ outcome' = o

\* Every commit named is in HEAD already.
UpToDate ==
  /\ pc = "check"
  /\ \A c \in Others : IsAncestor(c, Tip)
  /\ End("upToDate")
  /\ UNCHANGED <<given, repo, search>>

NeedsMerge ==
  /\ pc = "check"
  /\ \E c \in Others : ~IsAncestor(c, Tip)
  /\ pc' = "find"
  /\ UNCHANGED <<given, repo, search, outcome>>

-----------------------------------------------------------------------------
(* MergeBase.                                                              *)

\* merge goes on with the base, merge-base prints it.
HasBase ==
  IF cmd.name = "merge"
  THEN pc' = "decide" /\ UNCHANGED outcome
  ELSE End("printed")

Pair == Len(cmd.tips) = 2

\* Bug: the descendant is returned.
InLine_Descendant ==
  IF ~Pair THEN {}
  ELSE IF IsAncestor(cmd.tips[1], cmd.tips[2]) THEN {cmd.tips[2]}
  ELSE IF IsAncestor(cmd.tips[2], cmd.tips[1]) THEN {cmd.tips[1]}
  ELSE {}

\* The ancestor is the base of two commits in one line.
InLine ==
  IF ~Pair THEN {}
  ELSE IF IsAncestor(cmd.tips[1], cmd.tips[2]) THEN {cmd.tips[1]}
  ELSE IF IsAncestor(cmd.tips[2], cmd.tips[1]) THEN {cmd.tips[2]}
  ELSE {}

FastPath ==
  /\ pc = "find"
  /\ base' \in InLine
  /\ HasBase
  /\ UNCHANGED <<given, repo, level, next, rest>>

ByOctopus == cmd.name = "octopus" \/ (cmd.name = "merge" /\ ~Pair)

\* The search starts from the first commit's parents.
StartSearch ==
  /\ pc = "find"
  /\ InLine = {} /\ ~ByOctopus
  /\ level' = history.parents[Tip]
  /\ pc' = "search"
  /\ UNCHANGED <<given, repo, next, rest, base, outcome>>

InOther(c) == \E d \in Others : IsAncestor(c, d)

\* The first commit of the level that is an ancestor of some other commit.
Found(i) ==
  /\ pc = "search"
  /\ i \in DOMAIN level
  /\ InOther(level[i])
  /\ \A j \in 1 .. i - 1 : ~InOther(level[j])
  /\ base' = level[i]
  /\ HasBase
  /\ UNCHANGED <<given, repo, level, next, rest>>

\* None is: the parents of all of them are the next level.
NoneFound ==
  /\ pc = "search"
  /\ level # <<>>
  /\ \A c \in Range(level) : ~InOther(c)
  /\ pc' = "expand"
  /\ UNCHANGED <<given, repo, search, outcome>>

\* Bug: append(next, parents) for append(next, parents...).
NextLevel_Nested ==
  /\ pc = "expand"
  /\ level = <<>>
  /\ level' = <<next>>
  /\ next' = <<>>
  /\ pc' = "search"
  /\ UNCHANGED <<given, repo, rest, base, outcome>>

\* Bug: only first parents are followed.
Expand_FirstParent(c) ==
  /\ pc = "expand"
  /\ level # <<>> /\ c = Head(level)
  /\ next' = next \o (IF history.parents[c] = <<>> THEN <<>> ELSE <<Head(history.parents[c])>>)
  /\ level' = Tail(level)
  /\ UNCHANGED <<given, repo, pc, rest, base, outcome>>

Expand(c) ==
  /\ pc = "expand"
  /\ level # <<>> /\ c = Head(level)
  /\ next' = next \o history.parents[c]
  /\ level' = Tail(level)
  /\ UNCHANGED <<given, repo, pc, rest, base, outcome>>

NextLevel ==
  /\ pc = "expand"
  /\ level = <<>>
  /\ level' = next
  /\ next' = <<>>
  /\ pc' = "search"
  /\ UNCHANGED <<given, repo, rest, base, outcome>>

\* The search ran out of commits: the base stays zero.
Unrelated ==
  /\ pc = "search"
  /\ level = <<>>
  /\ HasBase
  /\ UNCHANGED <<given, repo, search>>

StartFold ==
  /\ pc = "find"
  /\ InLine = {} /\ ByOctopus
  /\ base' = Tip
  /\ rest' = Tail(cmd.tips)
  /\ pc' = "fold"
  /\ UNCHANGED <<given, repo, level, next, outcome>>

\* Bug: each commit is compared with the first one, not with the base so far.
Fold_FromFirst(c) ==
  /\ pc = "fold"
  /\ rest # <<>> /\ c = Head(rest)
  /\ base # Zero
  /\ base' \in NearestCommonParents(Tip, c)
  /\ rest' = Tail(rest)
  /\ UNCHANGED <<given, repo, pc, level, next, outcome>>

Fold(c) ==
  /\ pc = "fold"
  /\ rest # <<>> /\ c = Head(rest)
  /\ base # Zero
  /\ base' \in NearestCommonParents(base, c)
  /\ rest' = Tail(rest)
  /\ UNCHANGED <<given, repo, pc, level, next, outcome>>

\* The zero id has no ancestors to look through.
FoldFails ==
  /\ pc = "fold"
  /\ rest # <<>> /\ base = Zero
  /\ End("error")
  /\ UNCHANGED <<given, repo, search>>

EndFold ==
  /\ pc = "fold"
  /\ rest = <<>>
  /\ HasBase
  /\ UNCHANGED <<given, repo, search>>

-----------------------------------------------------------------------------
(* merge goes on with the base.                                            *)

IsFastForward == base = Tip /\ ~cmd.noFF

\* ReadTreeFastForward to the first commit named, or its refusal.
CheckOut ==
  /\ pc = "decide"
  /\ IsFastForward
  /\ \/ tree' = cmd.tips[2] /\ pc' = "move" /\ UNCHANGED outcome
     \/ End("error") /\ UNCHANGED tree
  /\ UNCHANGED <<given, search, head, raced>>

\* Bug: UpdateRef gets no old value.
CompareHead_Unchecked ==
  /\ pc = "move"
  /\ pc' = "write"
  /\ UNCHANGED <<given, repo, search, outcome>>

\* UpdateRef compares with the HEAD that was read, unless HEAD is detached.  It
\* does so twice, and the later comparison is the one that counts.
CompareHead ==
  /\ pc = "move"
  /\ IF head = Tip \/ detached
     THEN pc' = "write" /\ UNCHANGED outcome
     ELSE End("error")
  /\ UNCHANGED <<given, repo, search>>

\* Then it writes, without looking again.
MoveHead ==
  /\ pc = "write"
  /\ head' = cmd.tips[2]
  /\ End("fastForward")
  /\ UNCHANGED <<given, search, raced, tree>>

NoFastForward ==
  /\ pc = "decide"
  /\ ~IsFastForward
  /\ cmd.ffOnly \/ ~Pair
  /\ End("error")
  /\ UNCHANGED <<given, repo, search>>

\* ReadTreeThreeWay and merge-file, with conflicts or without, or a refusal.
\* Nothing is committed.
ThreeWay ==
  /\ pc = "decide"
  /\ ~IsFastForward
  /\ ~cmd.ffOnly /\ Pair
  /\ \/ tree' = "merged" /\ \E o \in {"merged", "conflicts"} : End(o)
     \/ End("error") /\ UNCHANGED tree
  /\ UNCHANGED <<given, search, head, raced>>

\* Another process commits on HEAD, or fast-forwards it, once.
Race(c) ==
  /\ raced = "no" /\ pc # "done"
  /\ cmd.name = "merge"
  /\ c # head /\ IsAncestor(head, c)
  /\ head' = c
  /\ raced' = IF pc = "write" THEN "late" ELSE "early"
  /\ UNCHANGED <<given, search, tree, pc, outcome>>

Next ==
  \/ UpToDate \/ NeedsMerge
  \/ FastPath \/ StartSearch \/ NoneFound \/ NextLevel \/ Unrelated
  \/ \E i \in DOMAIN level : Found(i)
  \/ \E c \in Commit : Expand(c) \/ Fold(c) \/ Race(c)
  \/ StartFold \/ FoldFails \/ EndFold
  \/ CheckOut \/ CompareHead \/ MoveHead \/ NoFastForward \/ ThreeWay

Spec == Init /\ [][Next]_vars

-----------------------------------------------------------------------------

TypeOK ==
  /\ history \in Histories /\ cmd \in Commands
  /\ head \in Commit /\ detached \in BOOLEAN /\ raced \in {"no", "early", "late"}
  /\ tree \in Commit \cup {"merged"}
  /\ pc \in {"check", "find", "search", "expand", "fold", "decide", "move", "write",
             "done"}
  /\ level \in Seq(Commit) /\ next \in Seq(Commit) /\ rest \in Seq(Commit)
  /\ base \in Commit \cup {Zero}
  /\ outcome \in {"none", "upToDate", "printed", "fastForward", "merged",
                  "conflicts", "error"}

\* The command is past its search for a base.
BaseKnown ==
  pc \in {"decide", "move", "write"} \/ (pc = "done" /\ outcome \notin {"upToDate", "error"})

\* A base that is found is an ancestor of every commit, or of the first and of
\* one other when merge-base gets more than two (mergebase.go:32-112).
BaseIsCommon ==
  BaseKnown /\ base # Zero =>
    /\ IsAncestor(base, Tip)
    /\ IF Pair \/ ByOctopus THEN \A c \in Others : IsAncestor(base, c) ELSE InOther(base)

\* "Nothing was found" is said of two commits only when they share no ancestor
\* (mergebase.go:97-99): merge would otherwise merge against an empty tree.
NoBaseMeansUnrelated ==
  BaseKnown /\ Pair /\ base = Zero => Anc(cmd.tips[1]) \cap Anc(cmd.tips[2]) = {}

\* merge fast-forwards when HEAD is in every commit named and merges trees only
\* when neither side is in the other, but for --no-ff (merge.go:81-147).
FastForwardExact ==
  cmd.name = "merge" =>
    /\ outcome = "fastForward" => \A c \in Others : IsAncestor(Tip, c)
    /\ outcome \in {"merged", "conflicts"} =>
         \A c \in Others : ~IsAncestor(c, Tip) /\ (cmd.noFF \/ ~IsAncestor(Tip, c))

\* No merge takes a commit out of the history of the branch HEAD is on, wherever
\* another process moves the branch between the read of HEAD and the comparison
\* in UpdateRef (merge.go:76, 136).  A move after the comparison is lost: what
\* UpdateRef does there is the subject of the run refs_lost_update.
HeadKeepsHistory ==
  [][detached \/ raced = "late" \/ IsAncestor(head, head')]_head

\* Every commit is newer than its parents.
DatesAgree ==
  \A c \in Commit : \A q \in Range(history.parents[c]) : history.date[q] < history.date[c]

\* When the dates agree with descent, the sort brings descendants to the front:
\* what a step of the fold takes is a nearest common ancestor, one that no other
\* common ancestor descends from (sha1.go:382-469).
FoldTakesNearest ==
  [][pc = "fold" /\ base' # base /\ base' # Zero /\ DatesAgree =>
       \A a \in Anc(base) \cap Anc(Head(rest)) : IsAncestor(base', a) => a = base']_base

=============================================================================
