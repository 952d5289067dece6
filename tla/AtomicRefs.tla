----------------------------- MODULE AtomicRefs -----------------------------
(***************************************************************************)
(* What the ref commands promise a user who runs one command at a time:    *)
(* each command changes HEAD and the branches in one step, or not at all,  *)
(* and no file is ever seen empty.  Refs, with one process and no crash,   *)
(* implements this specification (RefsAtomic).                             *)
(***************************************************************************)
CONSTANTS Branch, Commit, Master, Root, HEAD, ZeroId, Absent

VARIABLES file, obj, parents

vars == <<file, obj, parents>>

Init ==
  /\ file = [n \in Branch \cup {HEAD} |->
               IF n = HEAD THEN Master ELSE IF n = Master THEN Root ELSE Absent]
  /\ obj = {Root}
  /\ parents = [c \in Commit |-> {}]

Attached == file[HEAD] \in Branch

\* The file a commit moves, and the commit it holds.
Current == IF Attached THEN file[HEAD] ELSE HEAD
Tip == IF file[Current] \in Commit THEN file[Current] ELSE ZeroId

NewCommit(c, ps) ==
  /\ c \in Commit \ obj
  /\ obj' = obj \cup {c}
  /\ parents' = [parents EXCEPT ![c] = ps]
  /\ file' = [file EXCEPT ![Current] = c]

\* A commit has the tip it replaces as its only parent.
CommitOnTip(c) == NewCommit(c, IF Tip = ZeroId THEN {} ELSE {Tip})

\* An amended commit takes the place, and the parents, of the tip.
Amend(c) == Tip # ZeroId /\ NewCommit(c, parents[Tip])

Refs(f) == file' = f /\ UNCHANGED <<obj, parents>>

SetBranch(b, c) == c \in obj /\ Refs([file EXCEPT ![b] = c])
SetHead(c) == c \in obj /\ Refs([file EXCEPT ![Current] = c])
Detach(c) == c \in obj /\ Refs([file EXCEPT ![HEAD] = c])
Switch(b) == Refs([file EXCEPT ![HEAD] = b])
SwitchToNew(b, c) ==
  /\ c \in obj
  /\ file[b] = Absent
  /\ Refs([file EXCEPT ![b] = c, ![HEAD] = b])
DeleteBranch(b) == Refs([file EXCEPT ![b] = Absent])

\* branch -m onto the branch's own name removes it.
Rename(b) ==
  /\ Attached /\ Tip # ZeroId
  /\ Refs([file EXCEPT ![b] = Tip, ![HEAD] = b, ![file[HEAD]] = Absent])

Next ==
  \/ \E c \in Commit :
       \/ CommitOnTip(c) \/ Amend(c) \/ SetHead(c) \/ Detach(c)
       \/ \E b \in Branch : SetBranch(b, c) \/ SwitchToNew(b, c)
  \/ \E b \in Branch : Switch(b) \/ DeleteBranch(b) \/ Rename(b)

Spec == Init /\ [][Next]_vars

=============================================================================
