------------------------------ MODULE MCPacks ------------------------------
(* Four blobs and an empty tree.  A delta of the third against the first   *)
(* makes the calculator panic.                                             *)
EXTENDS Packs

MCKind == <<"blob", "blob", "blob", "blob", "tree">>
MCContent == <<<<1, 1, 2>>, <<2, 1, 1, 2, 1, 1>>, <<3, 3, 3, 3, 1, 1, 3, 3, 3>>, <<1, 2, 3>>, <<>>>>
MCFirst == <<0, 0, 1, 1, 1, 2>>

Orders(S, n) == {s \in [1..n -> S] : \A j, k \in 1..n : j # k => s[j] # s[k]}
MCWanted == Orders(Object, 3)

\* Each object whole, or as a delta of an earlier one by location, or of any
\* by hash, one that is not there included.
Blobs == {1, 2, 3, 4}
Steps(ids, k) ==
  {[id |-> ids[k], how |-> "full", of |-> ids[k]]}
  \cup {[id |-> ids[k], how |-> "ofs", of |-> ids[j]] : j \in 1..k - 1}
  \cup {[id |-> ids[k], how |-> "ref", of |-> o] : o \in Blobs \ {ids[k]}}
Three(ids) == {<<a, b, c>> : a \in Steps(ids, 1), b \in Steps(ids, 2), c \in Steps(ids, 3)}
MCSent ==
  UNION {Three(ids) : ids \in Orders(Blobs, 3)}
  \cup {Append(s, d) : s \in Three(<<2, 4, 1>>), d \in Steps(<<2, 4, 1, 3>>, 4)}

=============================================================================
