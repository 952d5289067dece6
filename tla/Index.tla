------------------------------- MODULE Index -------------------------------
(***************************************************************************)
(* The index, trees and the work tree as values, and what the library does *)
(* to them (src/git/index.go, readtree.go, lsfiles.go, checkoutindex.go).  *)
(*                                                                         *)
(* An index has at each path up to four entries: the file (stage 0) or the *)
(* three sides of a conflict.  The work tree has at each path a file, a    *)
(* directory or nothing.  Content stands for a blob and its id.            *)
(***************************************************************************)
EXTENDS Naturals

CONSTANTS
  Path,    \* the paths a file may have, and the directories they are in
  Below,   \* <<d, p>> when the name of p goes on after "d/"
  Content, \* contents of files
  None,    \* no entry, no file
  Dir      \* a directory

ASSUME IndexAssumption ==
  /\ Below \subseteq Path \X Path
  /\ \A p \in Path : <<p, p>> \notin Below
  /\ \A p, q, r \in Path : <<p, q>> \in Below /\ <<q, r>> \in Below => <<p, r>> \in Below
  /\ \A p, q, r \in Path : <<p, r>> \in Below /\ <<q, r>> \in Below
                           => p = q \/ <<p, q>> \in Below \/ <<q, p>> \in Below
  /\ None \notin Content /\ Dir \notin Content /\ None # Dir

Stage == 0..3
Above(p) == {d \in Path : <<d, p>> \in Below}
Under(p) == {q \in Path : <<p, q>> \in Below}

-----------------------------------------------------------------------------
(* Index and trees.                                                        *)

\* A tree by its files, as expandGitTreeIntoIndexes lists them.
TreeType == [Path -> Content \cup {None}]
IndexType == [Path -> [Stage -> Content \cup {None}]]

NoStages == [s \in Stage |-> None]
AtStage(s, c) == [NoStages EXCEPT ![s] = c]
Sides(b, o, t) == [s \in Stage |-> CASE s = 0 -> None [] s = 1 -> b [] s = 2 -> o [] s = 3 -> t]

Has(i, p) == \E s \in Stage : i[p][s] # None
Unmerged(i, p) == \E s \in Stage \ {0} : i[p][s] # None

\* GetMap keeps the last entry of a path, the one of the highest stage.
Top(i, p) == CHOOSE s \in Stage : i[p][s] # None /\ \A t \in Stage : i[p][t] # None => t <= s
Last(i, p) == IF Has(i, p) THEN i[p][Top(i, p)] ELSE None

\* ResetIndex: the index of a tree.
FromTree(t) == [p \in Path |-> AtStage(0, t[p])]
HasDir(t, p) == \E q \in Under(p) : t[q] # None
Contains(t, p) == t[p] # None \/ HasDir(t, p)

\* When AddStage does not return an error.
CanAdd(i, p, s, add, replace) ==
  /\ i[p][s] # None \/ add
  /\ s = 0 /\ ~replace => \A q \in Above(p) \cup Under(p) : ~Has(i, q)

\* AddStage: a file replaces the sides of a conflict, and what is in its way.
Added(i, p, c) ==
  [q \in Path |-> CASE q = p -> AtStage(0, c)
                    [] q \in Above(p) \cup Under(p) -> NoStages
                    [] OTHER -> i[q]]

\* RemoveFile takes the first entry of a path away, the one of the lowest stage.
RemoveFile(i, p) ==
  [i EXCEPT ![p] = [s \in Stage |-> IF \A t \in Stage : t < s => i[p][t] = None
                                    THEN None ELSE i[p][s]]]

\* A file excludes other entries of its path, and any above or below it.
Legal(i) ==
  \A p \in Path : i[p][0] # None =>
    /\ ~Unmerged(i, p)
    /\ \A q \in Above(p) \cup Under(p) : ~Has(i, q)

-----------------------------------------------------------------------------
(* Work tree.                                                              *)

WorkTreeType == [Path -> Content \cup {None, Dir}]

Exists(w, p) == w[p] # None
IsDir(w, p) == w[p] = Dir
IsFile(w, p) == w[p] \in Content

\* What exists is in directories.
Shaped(w) == \A p \in Path : Exists(w, p) => \A d \in Above(p) : IsDir(w, d)

\* The directory a path is in.
Parent(p) == {d \in Above(p) : Above(p) \subseteq Above(d) \cup {d}}

RemoveAll(w, p) == [q \in Path |-> IF q = p \/ q \in Under(p) THEN None ELSE w[q]]

\* What is there gives way to a file, made with the directories it is in.
Made(w, p, c) ==
  [q \in Path |-> CASE q = p -> c
                    [] q \in Above(p) -> Dir
                    [] q \in Under(p) -> None
                    [] OTHER -> w[q]]

\* checkoutFile: a directory or a file instead of the parent is removed; a file
\* further up makes it fail, which is printed.
CheckoutFile(w, p, c) ==
  IF \A d \in Above(p) : IsFile(w, d) => d \in Parent(p)
  THEN Made(w, p, c)
  ELSE w

\* removeFileClean: the directory goes when nothing is left in it.
RemoveFileClean(w, p) ==
  LET v == RemoveAll(w, p)
  IN [q \in Path |-> IF q \in Parent(p) /\ \A r \in Under(q) : ~Exists(v, r)
                     THEN None ELSE v[q]]

\* LsFiles --killed: files where an entry of the index needs its directory, and
\* directories where entries are files.  Further up the path that is looked for
\* ends in a slash: no file is found by it.
Killed(i, w) ==
  {d \in Path : IsFile(w, d) /\ \E p \in Path : Has(i, p) /\ d \in Parent(p)}
  \cup {p \in Path : Has(i, p) /\ IsDir(w, p)}

\* LsFiles --others of one name: files that are not in the index.
Others(i, w, f) == {q \in {f} \cup Under(f) : IsFile(w, q) /\ ~Has(i, q)}

\* LsFiles --modified: entries whose file is gone, a directory or different.
Modified(i, w, f) ==
  {q \in {f} \cup Under(f) : \E s \in Stage : i[q][s] # None /\ w[q] # i[q][s]}

=============================================================================
