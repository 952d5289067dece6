---------------------------- MODULE MCObjectStore ----------------------------
(***************************************************************************)
(* Instances of ObjectStore for TLC: two commits that share a blob.  The   *)
(* second commit has the first as its parent.                              *)
(***************************************************************************)
EXTENDS ObjectStore, TLC

CONSTANTS p1, p2, blob, tree1, tree2, commit1, commit2, packA, packB

TwoProcesses == {p1, p2}
TwoPacks == {packA, packB}
OnePack == {packA}
FiveObjects == {blob, tree1, tree2, commit1, commit2}
TwoCommits == {commit1, commit2}

FiveClosure ==
  blob :> {blob} @@ tree1 :> {tree1, blob} @@ tree2 :> {tree2, blob}
  @@ commit1 :> {commit1, tree1, blob}
  @@ commit2 :> {commit2, commit1, tree1, tree2, blob}

\* Two commits of the same tree.
ThreeObjects == {tree1, commit1, commit2}
ThreeClosure ==
  tree1 :> {tree1} @@ commit1 :> {commit1, tree1}
  @@ commit2 :> {commit2, commit1, tree1}

ProcessSymmetry == Permutations(Process)

=============================================================================
