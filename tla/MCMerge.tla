------------------------------- MODULE MCMerge -------------------------------
(***************************************************************************)
(* Instances of Merge for TLC: every history of four commits with at most  *)
(* two parents each, and of five commits those in which the two sides      *)
(* merge what two roots left; dates tie, run against descent or agree with *)
(* it.                                                                     *)
(***************************************************************************)
EXTENDS Merge, TLC

CONSTANTS c1, c2, c3, c4, c5

FiveCommits == {c1, c2, c3, c4, c5}

Distinct(s) == \A i, j \in DOMAIN s : s[i] = s[j] => i = j
UpTo(n, S) == {s \in UNION {[1..k -> S] : k \in 0..n} : Distinct(s)}

\* c5 is a root that nothing descends from.
FourParents ==
  {c1 :> <<>> @@ c2 :> p @@ c3 :> q @@ c4 :> r @@ c5 :> <<>> :
     p \in UpTo(2, {c1}), q \in UpTo(2, {c1, c2}), r \in UpTo(2, {c1, c2, c3})}

\* The roots c1 and c2 are shared by c4 and, through c3, by c5.
FiveParents ==
  {c1 :> <<>> @@ c2 :> <<>> @@ c3 :> q @@ c4 :> r @@ c5 :> s :
     q, r \in UpTo(2, {c1, c2}) \ {<<>>}, s \in {<<c3>>, <<c3, c1>>, <<c2, c3>>}}

DateMaps ==
  {[c \in FiveCommits |-> 0], c1 :> 4 @@ c2 :> 3 @@ c3 :> 2 @@ c4 :> 1 @@ c5 :> 0,
   c1 :> 0 @@ c2 :> 1 @@ c3 :> 2 @@ c4 :> 3 @@ c5 :> 4}

AllHistories ==
  {[parents |-> p, date |-> d] : p \in FourParents \cup FiveParents, d \in DateMaps}

Pairs == {s \in UpTo(2, FiveCommits) : Len(s) = 2}
Triples == {<<c4, c3, c2>>, <<c3, c4, c2>>, <<c1, c3, c4>>, <<c2, c4, c3>>, <<c5, c4, c2>>}

Line(n, s, f, g) == [name |-> n, tips |-> s, ffOnly |-> f, noFF |-> g]

\* The flags make a difference where a side is one that others may precede.
Sides == {s \in Pairs : {c4, c5} \cap {s[1], s[2]} # {}}

AllCommands ==
  {Line("merge", s, FALSE, FALSE) : s \in Pairs}
  \cup {Line("merge", s, f, ~f) : s \in Sides, f \in BOOLEAN}
  \cup {Line("merge", s, TRUE, TRUE) : s \in {<<c3, c4>>, <<c4, c3>>}}
  \cup {Line(n, s, FALSE, FALSE) : n \in {"merge", "merge-base", "octopus"}, s \in Triples}

=============================================================================
