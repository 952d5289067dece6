------------------------------ MODULE RevList ------------------------------
(***************************************************************************)
(* rev-list: the objects reachable from some commits and not from others   *)
(* (src/git/revlist.go, with GetAllObjectsExcept and Parents of sha1.go).  *)
(* push sends what it lists, fsck calls unreachable what it does not list. *)
(*                                                                         *)
(* revListCallback recurses into the parents of a commit before it goes on *)
(* with the commits beside it; `todo' is what its frames have still to do, *)
(* innermost first.  One excludeList serves both passes: the first fills   *)
(* it from `excludes', the second adds to it what it lists.                *)
(***************************************************************************)
EXTENDS Naturals, Sequences, FiniteSets, Functions

CONSTANTS
  Commit,     \* commit ids
  Tree,       \* tree ids
  Blob,       \* blobs and gitlinks: what a tree may hold and nobody opens
  Histories,  \* the histories of this instance
  Revs,       \* the command lines: sequences of commits
  Holes,      \* the sets of commits and trees that cannot be read
  Limits,     \* the values of --max-count
  NoLimit     \* a nil MaxCount

Node == Commit \cup Tree \cup Blob

HistoryType == [parents : [Commit -> Seq(Commit)],
                tree    : [Commit -> Tree],
                entries : [Tree -> SUBSET (Tree \cup Blob)]]

ASSUME NodeAssumption ==
  /\ Commit \cap Tree = {} /\ Commit \cap Blob = {} /\ Tree \cap Blob = {}
  /\ IsFiniteSet(Node)
  /\ Histories \subseteq HistoryType

ASSUME QueryAssumption ==
  /\ Revs \subseteq Seq(Commit)
  /\ Holes \subseteq SUBSET (Commit \cup Tree)
  /\ Limits \subseteq Nat \cup {NoLimit}
  /\ NoLimit \notin Nat

VARIABLES
  history,      \* who is whose parent, tree and entry
  holes,        \* what cannot be read
  query,        \* the revisions and options asked for
  excludeList,  \* what is not to be listed, or not again
  calls,        \* how often the callback got each object
  count,        \* callbackCount
  todo,         \* the commits the recursion has still to look at
  phase         \* which revListCallback runs, or how the last one ended

vars == <<history, holes, query, excludeList, calls, count, todo, phase>>
given == <<history, holes, query>>

Query == [includes : Revs, excludes : Revs, objects : BOOLEAN, limit : Limits]

Init ==
  /\ history \in Histories
  /\ holes \in Holes
  /\ query \in Query
  /\ excludeList = {}
  /\ calls = [x \in Node |-> 0]
  /\ count = 0
  /\ todo = query.excludes
  /\ phase = "excluding"

-----------------------------------------------------------------------------
(* One iteration of revListCallback.                                       *)

\* TreeID.GetAllObjectsExcept: t and what the walk down from it meets first,
\* which does not enter what excludeList has.
HoldsWalk(t, S) ==
  /\ t \in S
  /\ \A u \in S \cap Tree : history.entries[u] \subseteq S \cup excludeList
Walk(t) == {x \in Tree \cup Blob :
              \A S \in SUBSET (Tree \cup Blob) : HoldsWalk(t, S) => x \in S}

\* CommitID.GetAllObjectsExcept, of --objects.
NewObjects(c) ==
  IF query.objects /\ history.tree[c] \notin excludeList
  THEN Walk(history.tree[c])
  ELSE {}

\* What one iteration for c lists.
Batch(c) == {c} \cup NewObjects(c)

CanRead(c) == Batch(c) \cap holes = {}

\* Bug: the objects of an excluded commit are not excluded.
Exclude_CommitsOnly(c) ==
  /\ phase = "excluding"
  /\ todo # <<>> /\ c = Head(todo)
  /\ c \notin excludeList
  /\ excludeList' = excludeList \cup {c}
  /\ todo' = history.parents[c] \o Tail(todo)
  /\ UNCHANGED <<given, calls, count, phase>>

\* The loop takes c from the frame, then descends into c's parents.
Next1(c) == todo # <<>> /\ c = Head(todo)
Descend(c) == todo' = history.parents[c] \o Tail(todo)

\* Bug: the wrapper compares before it counts, with >=.
WithinLimit_OffByOne(n) == query.limit # NoLimit => count + n < query.limit

WithinLimit(n) == query.limit # NoLimit => count + n <= query.limit

Skip(c) ==
  /\ phase \in {"excluding", "listing"}
  /\ Next1(c)
  /\ c \in excludeList
  /\ todo' = Tail(todo)
  /\ UNCHANGED <<given, excludeList, calls, count, phase>>

\* The first pass: buildExcludeList is the callback.
Exclude(c) ==
  /\ phase = "excluding"
  /\ Next1(c)
  /\ c \notin excludeList
  /\ CanRead(c)
  /\ excludeList' = excludeList \cup Batch(c)
  /\ Descend(c)
  /\ UNCHANGED <<given, calls, count, phase>>

EndExclude ==
  /\ phase = "excluding"
  /\ todo = <<>>
  /\ phase' = "listing"
  /\ todo' = query.includes
  /\ UNCHANGED <<given, excludeList, calls, count>>

\* Bug: what is left of --max-count is counted down.
CallBack_CountsDown(B) ==
  /\ calls' = [x \in DOMAIN calls |-> IF x \in B THEN calls[x] + 1 ELSE calls[x]]
  /\ count' = count - Cardinality(B)

\* The callback gets each of B.
CallBack(B) ==
  /\ calls' = [x \in DOMAIN calls |-> IF x \in B THEN calls[x] + 1 ELSE calls[x]]
  /\ count' = count + Cardinality(B)

\* Bug: the objects listed with a commit are not remembered.
List_CommitRemembered(c) ==
  /\ phase = "listing"
  /\ Next1(c)
  /\ c \notin excludeList
  /\ CanRead(c)
  /\ WithinLimit(Cardinality(Batch(c)))
  /\ excludeList' = excludeList \cup {c}
  /\ CallBack(Batch(c))
  /\ Descend(c)
  /\ UNCHANGED <<given, phase>>

\* The second pass lists c and its new objects.
List(c) ==
  /\ phase = "listing"
  /\ Next1(c)
  /\ c \notin excludeList
  /\ CanRead(c)
  /\ WithinLimit(Cardinality(Batch(c)))
  /\ excludeList' = excludeList \cup Batch(c)
  /\ CallBack(Batch(c))
  /\ Descend(c)
  /\ UNCHANGED <<given, phase>>

\* maxCountError inside the batch: c came first, then its tree, the rest in any
\* order.  Of a commit that cannot be read only c itself can meet the limit.
\* excludeList goes with the call that built it, here and in Fail.
Stop(c) ==
  /\ phase = "listing"
  /\ Next1(c)
  /\ c \notin excludeList
  /\ \E B \in SUBSET Batch(c) :
       /\ WithinLimit(Cardinality(B)) /\ ~WithinLimit(Cardinality(B) + 1)
       /\ B # Batch(c)
       /\ B # {} => c \in B /\ CanRead(c)
       /\ B \subseteq {c} \/ history.tree[c] \in B
       /\ CallBack(B)
  /\ phase' = "done"
  /\ UNCHANGED <<given, excludeList, todo>>

EndInclude ==
  /\ phase = "listing"
  /\ todo = <<>>
  /\ phase' = "done"
  /\ UNCHANGED <<given, excludeList, calls, count, todo>>

\* The commit, or a tree below it, cannot be read.  In the second pass the
\* callback has had the commit by then.
Fail(c) ==
  /\ phase \in {"excluding", "listing"}
  /\ Next1(c)
  /\ c \notin excludeList
  /\ ~CanRead(c)
  /\ IF phase = "listing"
     THEN WithinLimit(1) /\ CallBack({c})
     ELSE UNCHANGED <<calls, count>>
  /\ phase' = "failed"
  /\ UNCHANGED <<given, excludeList, todo>>

Next ==
  \/ \E c \in Commit : Skip(c) \/ Exclude(c) \/ List(c) \/ Stop(c) \/ Fail(c)
  \/ EndExclude
  \/ EndInclude

Spec == Init /\ [][Next]_vars

-----------------------------------------------------------------------------
(* What was asked for.                                                     *)

\* S holds every parent of its commits and, of --objects, their trees and what
\* those contain.
Closed(S) ==
  /\ \A c \in S \cap Commit : Range(history.parents[c]) \subseteq S
  /\ query.objects =>
       /\ \A c \in S \cap Commit : history.tree[c] \in S
       /\ \A t \in S \cap Tree : history.entries[t] \subseteq S

Reach(R) == {x \in Node : \A S \in SUBSET Node : R \subseteq S /\ Closed(S) => x \in S}

Wanted == Reach(Range(query.includes)) \ Reach(Range(query.excludes))
Listed == {x \in Node : calls[x] > 0}

TypeOK ==
  /\ history \in Histories /\ holes \in Holes /\ query \in Query
  /\ excludeList \subseteq Node
  /\ calls \in [Node -> Nat] /\ count \in Nat
  /\ todo \in Seq(Commit)
  /\ phase \in {"excluding", "listing", "done", "failed"}

\* What RevListCallback lists is reachable from the includes and from no
\* exclude, even when it stops early or fails: push never sends what the remote
\* said it has (revlist.go:61-74, 118).
OnlyWanted == Listed \subseteq Wanted

\* Nothing is listed twice, however often histories and trees share it
\* (revlist.go:118-137; sha1.go:704-708).
ListedOnce == \A x \in Node : calls[x] <= 1

\* A rev-list that ends without an error listed all that was wanted, or as much
\* as --max-count allows, and everything in it could be read: push sends whole
\* histories (revlist.go:99-114, 139-145).
CompleteAtEnd ==
  phase = "done" =>
    /\ Listed = Wanted \/ Cardinality(Listed) = query.limit
    /\ Listed \cap holes = {}

=============================================================================
