------------------------------ MODULE ReadTree ------------------------------
(***************************************************************************)
(* What read-tree decides (src/git/readtree.go): the index that one, two   *)
(* or three trees give with the index i there was, and whether that would  *)
(* overwrite something in the work tree w.                                 *)
(***************************************************************************)
EXTENDS Index

\* The options -m, --reset and -u.
Options == [merge : BOOLEAN, reset : BOOLEAN, update : BOOLEAN]
MergeUpdate == [merge |-> TRUE, reset |-> FALSE, update |-> TRUE]
ResetUpdate == [merge |-> FALSE, reset |-> TRUE, update |-> TRUE]
Plain == [merge |-> FALSE, reset |-> FALSE, update |-> FALSE]

-----------------------------------------------------------------------------
(* What read-tree decides.                                                 *)

Conflicted(i) == {p \in Path : Unmerged(i, p)}

\* Bug: what is different on disk is overwritten.
Blocked_Trusting(opt, i, n, w) ==
  \/ opt.update /\ \E p \in Path :
       Has(n, p) /\ IsDir(w, p) /\ Others(i, w, p) \cup Modified(i, w, p) # {}
  \/ opt.update /\ \E p \in Path :
       n[p][0] # None /\ ~Has(i, p) /\ Others(i, w, p) # {} /\ w[p] # n[p][0]

\* checkMergeAndUpdate: what the new index would overwrite in the work tree.
Blocked(opt, i, n, w) ==
  \/ opt.update /\ \E p \in Path :
       Has(n, p) /\ IsDir(w, p) /\ Others(i, w, p) \cup Modified(i, w, p) # {}
  \/ \E p \in Path :
       /\ n[p][0] # None
       /\ opt.update => Exists(w, p)
       /\ IF Has(i, p)
          THEN ~opt.reset /\ Last(i, p) # n[p][0] /\ w[p] # Last(i, p)
          ELSE opt.update /\ Others(i, w, p) # {} /\ w[p] # n[p][0]

\* The files it then checks out.
ToCheckOut(opt, i, n, w) ==
  {p \in Path : /\ n[p][0] # None
                /\ \/ opt.update /\ ~Exists(w, p)
                   \/ ~Has(i, p)
                   \/ Last(i, p) # n[p][0]}

Acts(opt) == opt.merge \/ opt.reset \/ opt.update

-----------------------------------------------------------------------------
(* ReadTreeFastForward: the table of 21 cases of git-read-tree(1).         *)

Keep(i, p) == [s \in Stage |-> IF Has(i, p) /\ s = Top(i, p) THEN i[p][s] ELSE None]

\* The cases that fail: 8 and 9, 11 to 13, 16, 17 and 21, and 3.
FFBlocked(i, h, m, w, fresh) ==
  \E p \in Path :
    LET e == Last(i, p)
    IN \/ e # None /\ h[p] = None /\ m[p] \notin {None, e}
       \/ e # None /\ h[p] # None /\ m[p] = None /\ ~(w[p] = e /\ e = h[p])
       \/ e # None /\ None \notin {h[p], m[p]} /\ h[p] # m[p]
            /\ e # m[p] /\ (e = h[p] => w[p] # e)
       \/ e = None /\ None \notin {h[p], m[p]} /\ h[p] # m[p] /\ ~fresh

\* The others: use M (1, 20, and 3 without an index file), remove (2, 10), keep.
FFIndex(i, h, m, fresh) ==
  [p \in Path |->
     LET e == Last(i, p)
     IN IF e = None
        THEN IF h[p] = None \/ fresh THEN AtStage(0, m[p]) ELSE NoStages
        ELSE IF h[p] # None /\ m[p] = None
        THEN NoStages
        ELSE IF None \notin {h[p], m[p]} /\ h[p] # m[p] /\ e = h[p]
        THEN AtStage(0, m[p])
        ELSE Keep(i, p)]

-----------------------------------------------------------------------------
(* ReadTreeThreeWay: base, ours, theirs are O, A, B of the comments.       *)

\* Local changes a merge would overwrite.
ThreeBlocked(i, o, a, b, w) ==
  \E p \in Path : Has(i, p) /\
    LET dirty == w[p] # a[p]
        ours == o[p] = a[p]
        theirs == o[p] = b[p]
    IN IF a[p] = None
       THEN Contains(o, p) \/ Contains(a, p) \/ Last(i, p) # b[p]
       ELSE IF Contains(o, p) /\ Contains(b, p) /\ ~ours /\ theirs
       THEN FALSE
       ELSE IF Contains(o, p) /\ Contains(b, p) /\ ours /\ ~theirs /\ b[p] = Last(i, p)
       THEN FALSE
       ELSE \/ dirty /\ Contains(b, p) /\ a[p] # b[p]
            \/ dirty /\ Contains(o, p) /\ ~Contains(b, p)
            \/ a[p] # Last(i, p)

\* Bug: our change wins over theirs.
ThreeStages_Ours(o, a, b, p) ==
  IF a[p] # None /\ (o[p] = a[p] => b[p] = a[p]) THEN AtStage(0, a[p])
  ELSE IF o[p] = a[p] /\ b[p] # None THEN AtStage(0, b[p])
  ELSE Sides(o[p], a[p], b[p])

\* A file that all have, both changed alike, or one side changed.
ThreeStages(o, a, b, p) ==
  IF a[p] # None /\ a[p] = b[p] THEN AtStage(0, a[p])
  ELSE IF o[p] = a[p] /\ b[p] # None THEN AtStage(0, b[p])
  ELSE IF o[p] = b[p] /\ a[p] # None THEN AtStage(0, a[p])
  ELSE Sides(o[p], a[p], b[p])

\* A file in one tree that is a directory in another.
FileAndDir(o, a, b, p) ==
  (\E t \in {o, a, b} : t[p] # None) /\ (\E t \in {o, a, b} : HasDir(t, p))

\* With -m or --reset such a file and all under it stay in conflict; without,
\* the file is left out.
ThreeIndex(opt, o, a, b) ==
  [p \in Path |->
     IF opt.merge \/ opt.reset
     THEN IF \E d \in {p} \cup Above(p) : FileAndDir(o, a, b, d)
          THEN Sides(o[p], a[p], b[p])
          ELSE ThreeStages(o, a, b, p)
     ELSE IF FileAndDir(o, a, b, p) THEN NoStages ELSE ThreeStages(o, a, b, p)]

=============================================================================
