----------------------------- MODULE ClosedStore -----------------------------
(***************************************************************************)
(* What the object store promises to whoever holds a ref: objects are only *)
(* added, an object is added with or after everything it refers to, and a  *)
(* ref is moved to an object once that object is stored.                   *)
(***************************************************************************)
CONSTANTS Object, Root, Closure

VARIABLES stored, refs

vars == <<stored, refs>>

Init == stored = {} /\ refs = {}

Put ==
  /\ \E S \in SUBSET Object :
       /\ \A o \in S : Closure[o] \subseteq stored \cup S
       /\ stored' = stored \cup S
  /\ UNCHANGED refs

Publish ==
  /\ \E r \in Root \cap stored : refs' = refs \cup {r}
  /\ UNCHANGED stored

Next == Put \/ Publish

Spec == Init /\ [][Next]_vars

=============================================================================
