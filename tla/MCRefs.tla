------------------------------- MODULE MCRefs -------------------------------
(***************************************************************************)
(* Instances of Refs for TLC.                                              *)
(***************************************************************************)
EXTENDS Refs, TLC

CONSTANTS p1, p2, master, dev, c0, c1, c2

TwoProcesses == {p1, p2}
OneProcess == {p1}
TwoBranches == {master, dev}
ThreeCommits == {c0, c1, c2}

\* Every command, with the --create-reflog spelling of update-ref left out.
Serial == AllCommands \ {"update-ref --create-reflog"}

\* The commands whose steps interleave: one of each kind of writer.
Concurrent == {"commit", "amend", "update-ref", "checkout", "checkout -b",
               "symbolic-ref", "branch -m", "update-ref -d"}

\* A repository in which dgit has committed before, and a new one.
HeadAndMaster == {HEAD, master}
NoLogs == {}

\* The processes, and the commits that are not made yet, are alike.
Symmetry == Permutations({p1, p2}) \cup Permutations({c1, c2})

=============================================================================
