---------------------------- MODULE MCRefsAtomic ----------------------------
(***************************************************************************)
(* Instance of RefsAtomic for TLC, with the constants of MCRefs.           *)
(***************************************************************************)
EXTENDS MCRefs, RefsAtomic
=============================================================================
