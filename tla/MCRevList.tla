----------------------------- MODULE MCRevList -----------------------------
(***************************************************************************)
(* An instance of RevList for TLC: every history of three commits with at  *)
(* most two parents each, over trees that share a subtree and a blob.      *)
(***************************************************************************)
EXTENDS RevList, TLC

CONSTANTS c1, c2, c3, top, sub, blob

ThreeCommits == {c1, c2, c3}
TwoTrees == {top, sub}
OneBlob == {blob}

Distinct(s) == \A i, j \in DOMAIN s : s[i] = s[j] => i = j
UpTo(n, S) == {s \in UNION {[1..k -> S] : k \in 0..n} : Distinct(s)}

\* Parents are older commits.
ParentMaps ==
  {c1 :> <<>> @@ c2 :> p @@ c3 :> q : p \in UpTo(1, {c1}), q \in UpTo(2, {c1, c2})}

TreeMaps ==
  {c1 :> t @@ c2 :> u @@ c3 :> t : t, u \in TwoTrees} \ {[c \in ThreeCommits |-> sub]}

EntryMaps == {top :> {sub, blob} @@ sub :> {blob}, top :> {sub} @@ sub :> {}}

AllHistories ==
  {[parents |-> p, tree |-> t, entries |-> e] :
     p \in ParentMaps, t \in TreeMaps, e \in EntryMaps}

RevsOfInstance == UpTo(1, ThreeCommits) \cup {<<c1, c3>>, <<c3, c2>>}
HolesOfInstance == {{}, {c1}, {sub}}

=============================================================================
