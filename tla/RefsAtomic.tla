----------------------------- MODULE RefsAtomic -----------------------------
(***************************************************************************)
(* Refs implements AtomicRefs when commands run one after the other.  The  *)
(* history variable seen is what a user sees between two commands: the     *)
(* refs and the history as the last finished command left them.            *)
(***************************************************************************)
EXTENDS Refs

VARIABLE seen

hvars == <<vars, seen>>

Store == [file |-> file, obj |-> obj, parents |-> parents]

HInit == Init /\ seen = Store

HNext ==
  /\ Next
  /\ seen' = IF \A p \in Process : proc'[p].pc = "idle" THEN Store' ELSE seen

HSpec == HInit /\ [][HNext]_hvars

Atomic == INSTANCE AtomicRefs
            WITH file <- seen.file, obj <- seen.obj, parents <- seen.parents

\* Every command takes effect as one step of the abstract store: a commit's
\* parent is the tip it replaces, an amended commit keeps its parents, a switch
\* or a rename changes HEAD and the branches together, a refused command
\* changes nothing.
ImplementsAtomicRefs == Atomic!Spec

\* The name branch -m gives the branch.
NewName(r) == IF r.kind = "branch" THEN r.tgt ELSE r.val

\* branch -m is create, fill, switch and remove.  Wherever it stops, the commit
\* the branch held is still under the old name or the new one, and HEAD, unless
\* it is empty itself, names a branch that holds it.  (A branch renamed to its
\* own name is emptied at once and removed in the end.)
RenameKeepsTip ==
  \A p \in Process :
    LET r == proc[p]
    IN  r.cmd = "branch -m" /\ r.src # NewName(r) =>
          /\ seen.file[r.src] \in {file[r.src], file[NewName(r)]}
          /\ file[HEAD] \in Branch => file[file[HEAD]] = seen.file[r.src]

=============================================================================
