----------------------------- MODULE RefsProofs -----------------------------
(***************************************************************************)
(* Safety of the reference store, for any number of processes, branches,   *)
(* commits, commands and crashes.                                          *)
(*                                                                         *)
(* TypeOK and HistoryClosed are not inductive: what a step writes to a     *)
(* file is what an earlier step of the same command put into the process   *)
(* record.  The inductive invariant IInv adds RecOK, what the record holds *)
(* at each program counter, and is split by the variables it speaks of, so *)
(* that a step has to show only the parts it touches.                      *)
(*                                                                         *)
(* The last part shows that commands which run one after the other are     *)
(* atomic: with one process and no kill, Refs implements AtomicRefs.       *)
(***************************************************************************)
EXTENDS RefsAtomic, LibraryLemmas, TLAPS

\* The record r of a process, when O is the set of stored commits.
RecOK(r, O) ==
  /\ r.pc \in {"deref", "checkhead", "loghead", "newhead", "checkspec", "log",
               "newlog"} => r.kind = "ref"
  /\ r.pc \in {"create", "write"} => r.kind # "none"
  /\ r.pc = "symlog" => r.kind = "sym"
  /\ r.kind \in {"ref", "branch"} => r.val \in O
  /\ r.kind = "branch" => r.tgt \in Branch
  /\ r.kind = "sym" => r.val \in Branch /\ r.tgt = HEAD
  /\ r.pc \in {"checkspec", "log", "newlog", "create", "write"} => r.tgt \in Name
  /\ r.pc \in {"loghead", "newhead", "checkhead"} => r.tgt \in Branch
  /\ r.pc = "object" => /\ r.old \in O \cup {ZeroId}
                        /\ r.cmd = "amend" => r.old \in O
  /\ r.pc = "remove" \/ r.cmd = "branch -m" => r.src \in Branch

ProcsOK ==
  /\ proc \in [Process -> ProcType]
  /\ \A p \in Process : RecOK(proc[p], obj)

FilesOK ==
  /\ file \in [Name -> Commit \cup Branch \cup {Empty, Absent}]
  /\ file[HEAD] # Absent
  /\ \A b \in Branch : file[b] \notin Branch
  /\ \A n \in Name : file[n] \in Commit => file[n] \in obj

LogsOK ==
  /\ hasLog \in SUBSET Name
  /\ log \in [Name -> Seq(Entry)]
  /\ \A n \in Name : \A i \in DOMAIN log[n] : log[n][i].new \in obj

ObjectsOK ==
  /\ obj \in SUBSET Commit
  /\ parents \in [Commit -> SUBSET Commit]
  /\ \A c \in obj : parents[c] \subseteq obj

CountersOK ==
  /\ started \in 0..MaxCommands
  /\ crashes \in 0..MaxCrashes
  /\ made \in SUBSET Commit

IInv == ProcsOK /\ FilesOK /\ LogsOK /\ ObjectsOK /\ CountersOK

\* The parts of the inductive invariant give the two properties of Refs.
LEMMA InvImplies == IInv => TypeOK /\ HistoryClosed
BY DEF IInv, ProcsOK, FilesOK, LogsOK, ObjectsOK, CountersOK, TypeOK,
   HistoryClosed

LEMMA InitInv == Init => IInv
<1> SUFFICES ASSUME Init PROVE IInv
  OBVIOUS
<1>1. ProcsOK
  BY DEF Init, ProcsOK, RecOK, ProcType, IdleProc, Label, Name
<1>2. FilesOK
  BY ConstantsDistinct DEF Init, FilesOK, Name
<1>3. LogsOK
  BY ConstantsDistinct DEF Init, LogsOK, Name, Entry
<1>4. ObjectsOK
  BY ConstantsDistinct DEF Init, ObjectsOK
<1>5. CountersOK
  BY ConstantsDistinct DEF Init, CountersOK
<1> QED BY <1>1, <1>2, <1>3, <1>4, <1>5 DEF IInv

-----------------------------------------------------------------------------

\* Appending to a reflog keeps it a reflog and adds one new entry.
LEMMA AppendEntry ==
  ASSUME NEW s \in Seq(Entry), NEW e \in Entry
  PROVE  /\ Append(s, e) \in Seq(Entry)
         /\ Len(Append(s, e)) = Len(s) + 1
         /\ DOMAIN s \subseteq DOMAIN Append(s, e)
         /\ \A i \in DOMAIN s : Append(s, e)[i] = s[i]
         /\ \A i \in DOMAIN Append(s, e) :
              \/ i \in DOMAIN s /\ Append(s, e)[i] = s[i]
              \/ Append(s, e)[i] = e
         /\ Append(s, e)[Len(s) + 1] = e
         /\ Len(s) + 1 \in DOMAIN Append(s, e)
OBVIOUS

\* A name resolves to a stored commit or to the zero id.
LEMMA ResolvedStored ==
  ASSUME FilesOK, ObjectsOK
  PROVE  /\ \A n \in Name : RefCommit(n) \in obj \cup {ZeroId}
         /\ HeadCommit \in obj \cup {ZeroId}
         /\ SymbolicHeadCommit \in obj \cup {ZeroId}
         /\ SymbolicHeadCommit # ZeroId => file[HEAD] \in Branch
BY ConstantsDistinct DEF FilesOK, ObjectsOK, RefCommit, HeadCommit,
   SymbolicHeadCommit, Name

\* An entry for a stored commit keeps the reflogs well formed and closed, and
\* no entry is ever lost.
LEMMA AppendClosed ==
  ASSUME LogsOK, ObjectsOK, NEW n \in Name,
         NEW o \in Commit \cup {ZeroId, Nil}, NEW c \in obj,
         Append2Log(n, o, c), obj' = obj, hasLog' = hasLog
  PROVE  /\ LogsOK'
         /\ \A m \in Name, d \in Commit : Logged(m, d) => Logged(m, d)'
         /\ Logged(n, c)'
<1> DEFINE e == [old |-> IF o = Nil THEN ZeroId ELSE o, new |-> c]
<1>1. e \in Entry
  BY ConstantsDistinct DEF Entry, ObjectsOK
<1>2. log \in [Name -> Seq(Entry)] /\ hasLog \in SUBSET Name
  BY DEF LogsOK
<1>3. log' = [log EXCEPT ![n] = Append(@, e)] /\ hasLog' = hasLog
  BY DEF Append2Log
<1>4. log'[n] = Append(log[n], e) /\ \A m \in Name \ {n} : log'[m] = log[m]
  BY <1>2, <1>3
<1>5. log' \in [Name -> Seq(Entry)] /\ hasLog' \in SUBSET Name
  BY <1>1, <1>2, <1>3, AppendEntry
<1>6. \A m \in Name : \A i \in DOMAIN log'[m] : log'[m][i].new \in obj
  <2> TAKE m \in Name
  <2>1. CASE m = n
    BY <2>1, <1>1, <1>2, <1>4, AppendEntry DEF LogsOK
  <2>2. CASE m # n
    BY <2>2, <1>4 DEF LogsOK
  <2> QED BY <2>1, <2>2
<1>7. \A m \in Name, d \in Commit : Logged(m, d) => Logged(m, d)'
  <2> TAKE m \in Name, d \in Commit
  <2>1. CASE m = n
    BY <2>1, <1>1, <1>2, <1>4, AppendEntry DEF Logged
  <2>2. CASE m # n
    BY <2>2, <1>4 DEF Logged
  <2> QED BY <2>1, <2>2
<1>8. Logged(n, c)'
  BY <1>1, <1>2, <1>4, AppendEntry DEF Logged
<1> QED BY <1>5, <1>6, <1>7, <1>8 DEF LogsOK

\* A step changes the record of one process: it is enough that the new record
\* is in order and that no commit object disappears.
LEMMA MoveOK ==
  ASSUME ProcsOK, NEW p \in Process, NEW r \in ProcType, RecOK(r, obj'),
         obj \subseteq obj', proc' = [proc EXCEPT ![p] = r]
  PROVE  ProcsOK'
<1>1. proc' \in [Process -> ProcType]
  BY DEF ProcsOK
<1>2. ASSUME NEW q \in Process PROVE RecOK(proc'[q], obj')
  <2>1. CASE q = p
    BY <2>1 DEF ProcsOK
  <2>2. CASE q # p
    <3>1. proc'[q] = proc[q] /\ RecOK(proc[q], obj)
      BY <2>2 DEF ProcsOK
    <3> QED BY <3>1 DEF RecOK
  <2> QED BY <2>1, <2>2
<1> QED BY <1>1, <1>2 DEF ProcsOK

\* A process that ends its command is idle.
LEMMA FinishOK ==
  ASSUME ProcsOK, NEW p \in Process, Finish(p), obj \subseteq obj'
  PROVE  ProcsOK'
<1>1. IdleProc \in ProcType /\ RecOK(IdleProc, obj')
  BY DEF IdleProc, ProcType, RecOK, Label, Name
<1> QED BY <1>1, MoveOK DEF Finish

\* Moving to another program counter keeps the fields of the record.
LEMMA GotoOK ==
  ASSUME ProcsOK, NEW p \in Process, NEW l \in Label, Goto(p, l),
         obj \subseteq obj',
         RecOK([proc[p] EXCEPT !.pc = l], obj)
  PROVE  ProcsOK'
<1> DEFINE r == [proc[p] EXCEPT !.pc = l]
<1>1. r \in ProcType
  BY DEF ProcsOK, ProcType
<1>2. RecOK(r, obj')
  BY DEF RecOK
<1>3. proc' = [proc EXCEPT ![p] = r]
  BY DEF Goto
<1> HIDE DEF r
<1> QED BY <1>1, <1>2, <1>3, MoveOK

-----------------------------------------------------------------------------
(* The parts of the invariant a step leaves alone. *)

LEMMA FilesFrame ==
  ASSUME FilesOK, UNCHANGED file, obj \subseteq obj'
  PROVE  FilesOK'
BY DEF FilesOK

LEMMA LogsFrame ==
  ASSUME LogsOK, UNCHANGED <<hasLog, log>>, obj \subseteq obj'
  PROVE  LogsOK'
BY DEF LogsOK

LEMMA ObjectsFrame ==
  ASSUME ObjectsOK, UNCHANGED <<obj, parents>>
  PROVE  ObjectsOK'
BY DEF ObjectsOK

LEMMA StoreFrame ==
  ASSUME FilesOK, LogsOK, ObjectsOK, UNCHANGED storeVars
  PROVE  FilesOK' /\ LogsOK' /\ ObjectsOK' /\ obj \subseteq obj'
BY FilesFrame, LogsFrame, ObjectsFrame DEF storeVars

LEMMA CountersFrame ==
  ASSUME CountersOK, UNCHANGED <<started, crashes, made>>
  PROVE  CountersOK'
BY DEF CountersOK

LEMMA StartCounters ==
  ASSUME CountersOK, NEW p, NEW c, Starts(p, c), UNCHANGED <<crashes, made>>
  PROVE  CountersOK'
BY ConstantsDistinct DEF CountersOK, Starts

\* A file may be emptied, removed, or filled with a stored commit.
LEMMA FileWrite ==
  ASSUME FilesOK, obj' = obj, NEW n \in Name, NEW v,
         file' = [file EXCEPT ![n] = v],
         \/ v = Empty
         \/ v \in obj /\ v \in Commit
         \/ v = Absent /\ n # HEAD
         \/ v \in Branch /\ n = HEAD
  PROVE  FilesOK'
BY ConstantsDistinct DEF FilesOK, Name

-----------------------------------------------------------------------------
(* One lemma per action. *)

LEMMA StartCommitInv ==
  ASSUME IInv, NEW p \in Process,
         NEW c \in {"commit", "amend"}, StartCommit(p, c)
  PROVE  IInv'
<1> DEFINE r == [IdleProc EXCEPT !.pc = "gethead", !.cmd = c]
<1>1. r \in ProcType /\ RecOK(r, obj)
  BY ConstantsDistinct DEF StartCommit, Starts, IInv, ObjectsOK, IdleProc, ProcType, Label, Name, RecOK,
     AllCommands, UpdateRefCommands
<1>2. proc' = [proc EXCEPT ![p] = r] /\ UNCHANGED storeVars
  BY DEF StartCommit
<1>3. obj' = obj
  BY <1>2 DEF storeVars
<1> HIDE DEF r
<1>4. ProcsOK'
  BY <1>1, <1>2, <1>3, MoveOK DEF IInv
<1> QED BY <1>2, <1>4, StoreFrame, StartCounters DEF StartCommit, IInv

LEMMA StartUpdateRefInv ==
  ASSUME IInv, NEW p \in Process,
         NEW n \in Name, NEW k \in UpdateRefCommands,
         NEW o \in Commit \cup {Nil, ZeroId}, NEW c \in obj, StartUpdateRef(p, n, k, o, c)
  PROVE  IInv'
<1> DEFINE r == [IdleProc EXCEPT
                   !.pc = IF n \in Branch THEN "checkspec"
                          ELSE IF k = "update-ref" THEN "deref" ELSE "log",
                   !.cmd = k, !.kind = "ref", !.tgt = n, !.val = c, !.old = o]
<1>1. r \in ProcType /\ RecOK(r, obj)
  BY ZenonT(60), ConstantsDistinct DEF StartUpdateRef, Starts, IInv, ObjectsOK, IdleProc, ProcType, Label, Name, RecOK,
     AllCommands, UpdateRefCommands
<1>2. proc' = [proc EXCEPT ![p] = r] /\ UNCHANGED storeVars
  BY DEF StartUpdateRef
<1>3. obj' = obj
  BY <1>2 DEF storeVars
<1> HIDE DEF r
<1>4. ProcsOK'
  BY <1>1, <1>2, <1>3, MoveOK DEF IInv
<1> QED BY <1>2, <1>4, StoreFrame, StartCounters DEF StartUpdateRef, IInv

LEMMA StartRenameInv ==
  ASSUME IInv, NEW p \in Process,
         NEW b \in Branch, StartRename(p, b)
  PROVE  IInv'
<1> DEFINE r == [IdleProc EXCEPT !.pc = "create", !.cmd = "branch -m",
                   !.kind = "branch", !.tgt = b, !.val = SymbolicHeadCommit,
                   !.src = file[HEAD]]
<1>1. r \in ProcType /\ RecOK(r, obj)
  BY ConstantsDistinct, ResolvedStored DEF StartRename, Starts, IInv, ObjectsOK, IdleProc, ProcType, Label, Name, RecOK,
     AllCommands, UpdateRefCommands
<1>2. proc' = [proc EXCEPT ![p] = r] /\ UNCHANGED storeVars
  BY DEF StartRename
<1>3. obj' = obj
  BY <1>2 DEF storeVars
<1> HIDE DEF r
<1>4. ProcsOK'
  BY <1>1, <1>2, <1>3, MoveOK DEF IInv
<1> QED BY <1>2, <1>4, StoreFrame, StartCounters DEF StartRename, IInv

LEMMA StartDeleteInv ==
  ASSUME IInv, NEW p \in Process,
         NEW b \in Branch, NEW o \in obj \cup {Nil}, StartDelete(p, b, o)
  PROVE  IInv'
<1> DEFINE r == [IdleProc EXCEPT !.pc = "remove", !.cmd = "update-ref -d",
                                 !.src = b, !.old = o]
<1>1. r \in ProcType /\ RecOK(r, obj)
  BY ConstantsDistinct DEF StartDelete, Starts, IInv, ObjectsOK, IdleProc, ProcType, Label, Name, RecOK,
     AllCommands, UpdateRefCommands
<1>2. proc' = [proc EXCEPT ![p] = r] /\ UNCHANGED storeVars
  BY DEF StartDelete
<1>3. obj' = obj
  BY <1>2 DEF storeVars
<1> HIDE DEF r
<1>4. ProcsOK'
  BY <1>1, <1>2, <1>3, MoveOK DEF IInv
<1> QED BY <1>2, <1>4, StoreFrame, StartCounters DEF StartDelete, IInv

LEMMA StartBranchInv ==
  ASSUME IInv, NEW p \in Process, NEW b \in Branch, NEW c \in obj,
         StartBranch(p, b, c)
  PROVE  IInv'
<1>1. PICK k \in {"branch", "checkout -b"} :
        /\ Starts(p, k)
        /\ proc' = [proc EXCEPT ![p] =
                      [IdleProc EXCEPT !.pc = "create", !.cmd = k,
                         !.kind = "branch", !.tgt = b, !.val = c]]
        /\ UNCHANGED <<storeVars, crashes, made>>
  BY DEF StartBranch
<1> DEFINE r == [IdleProc EXCEPT !.pc = "create", !.cmd = k,
                   !.kind = "branch", !.tgt = b, !.val = c]
<1>2. r \in ProcType /\ RecOK(r, obj)
  BY DEF IInv, ObjectsOK, IdleProc, ProcType, Label, Name, RecOK, AllCommands
<1>3. obj' = obj
  BY <1>1 DEF storeVars
<1> HIDE DEF r
<1>4. ProcsOK'
  BY <1>1, <1>2, <1>3, MoveOK DEF IInv, r
<1> QED BY <1>1, <1>4, StoreFrame, StartCounters DEF IInv

LEMMA StartSymbolicRefInv ==
  ASSUME IInv, NEW p \in Process, NEW b \in Branch, StartSymbolicRef(p, b)
  PROVE  IInv'
<1>1. PICK c \in {"symbolic-ref", "checkout"}, l \in {"create", "symlog"} :
        /\ Starts(p, c)
        /\ proc' = [proc EXCEPT ![p] =
                      [IdleProc EXCEPT !.pc = l, !.cmd = c,
                         !.kind = "sym", !.tgt = HEAD, !.val = b]]
        /\ UNCHANGED <<storeVars, crashes, made>>
  BY DEF StartSymbolicRef
<1> DEFINE r == [IdleProc EXCEPT !.pc = l, !.cmd = c,
                   !.kind = "sym", !.tgt = HEAD, !.val = b]
<1>2. r \in ProcType /\ RecOK(r, obj)
  BY DEF IdleProc, ProcType, Label, Name, RecOK, AllCommands
<1>3. obj' = obj
  BY <1>1 DEF storeVars
<1> HIDE DEF r
<1>4. ProcsOK'
  BY <1>1, <1>2, <1>3, MoveOK DEF IInv, r
<1> QED BY <1>1, <1>4, StoreFrame, StartCounters DEF IInv

LEMMA GetHeadCommitInv ==
  ASSUME IInv, NEW p \in Process, GetHeadCommit(p)
  PROVE  IInv'
<1> DEFINE r == [proc[p] EXCEPT !.pc = "object", !.old = HeadCommit]
<1>1. UNCHANGED storeVars /\ UNCHANGED <<started, crashes, made>>
  BY DEF GetHeadCommit
<1>2. obj \subseteq obj'
  BY <1>1 DEF storeVars
<1>3. CASE Finish(p)
  BY <1>1, <1>2, <1>3, FinishOK, StoreFrame, CountersFrame DEF IInv
<1>4. CASE /\ proc[p].cmd = "amend" => HeadCommit # ZeroId
           /\ proc' = [proc EXCEPT ![p] = r]
  <2>1. r \in ProcType
    BY ZenonT(60), ResolvedStored DEF IInv, ProcsOK, ObjectsOK, ProcType, Label
  <2>2. RecOK(r, obj')
    BY <1>1, <1>4, ResolvedStored DEF GetHeadCommit, IInv, ProcsOK, ProcType,
       RecOK, storeVars
  <2> HIDE DEF r
  <2>3. ProcsOK'
    BY <1>2, <1>4, <2>1, <2>2, MoveOK DEF IInv
  <2> QED BY <1>1, <2>3, StoreFrame, CountersFrame DEF IInv
<1> QED BY <1>3, <1>4 DEF GetHeadCommit

LEMMA CommitTreeInv ==
  ASSUME IInv, NEW p \in Process, CommitTree(p)
  PROVE  IInv'
<1>1. PICK c \in Commit \ obj :
        /\ obj' = obj \cup {c}
        /\ parents' = [parents EXCEPT ![c] = NewParents(p)]
        /\ proc' = [proc EXCEPT ![p].pc = "deref", ![p].val = c,
                                ![p].kind = "ref", ![p].mklog = TRUE]
  BY DEF CommitTree
<1> DEFINE r == [proc[p] EXCEPT !.pc = "deref", !.val = c, !.kind = "ref",
                                !.mklog = TRUE]
<1>2. /\ UNCHANGED <<file, hasLog, log, started, crashes, made>>
      /\ proc[p].pc = "object"
  BY DEF CommitTree
<1>3. obj \subseteq obj'
  BY <1>1
<1>4. r \in ProcType
  BY ZenonT(60) DEF IInv, ProcsOK, ProcType, Label
<1>5. RecOK(r, obj')
  BY <1>1 DEF IInv, ProcsOK, ProcType, RecOK
<1>6. proc' = [proc EXCEPT ![p] = r]
  BY <1>1
<1>7. NewParents(p) \subseteq obj
  BY <1>2 DEF NewParents, IInv, ProcsOK, RecOK, ObjectsOK
<1> HIDE DEF r
<1>8. ProcsOK'
  BY <1>3, <1>4, <1>5, <1>6, MoveOK DEF IInv
<1>9. ObjectsOK'
  BY <1>1, <1>7 DEF IInv, ObjectsOK
<1>10. FilesOK' /\ LogsOK' /\ CountersOK'
  BY <1>2, <1>3, FilesFrame, LogsFrame, CountersFrame DEF IInv
<1> QED BY <1>8, <1>9, <1>10 DEF IInv

LEMMA DerefInv ==
  ASSUME IInv, NEW p \in Process, Deref(p)
  PROVE  IInv'
<1>1. /\ UNCHANGED storeVars /\ UNCHANGED <<started, crashes, made>>
      /\ proc[p].pc = "deref"
  BY DEF Deref
<1>2. \E n \in Name, l \in {"loghead", "checkhead", "log"} :
        /\ l # "log" => n \in Branch
        /\ proc' = [proc EXCEPT ![p].tgt = n, ![p].pc = l]
  BY DEF Deref, Name
<1>3. PICK n \in Name, l \in {"loghead", "checkhead", "log"} :
        /\ l # "log" => n \in Branch
        /\ proc' = [proc EXCEPT ![p].tgt = n, ![p].pc = l]
  BY <1>2
<1> DEFINE r == [proc[p] EXCEPT !.tgt = n, !.pc = l]
<1>4. r \in ProcType
  BY ZenonT(60) DEF IInv, ProcsOK, ProcType, Label
<1>5. RecOK(r, obj')
  BY <1>1, <1>3 DEF IInv, ProcsOK, ProcType, RecOK, storeVars
<1>6. proc' = [proc EXCEPT ![p] = r]
  BY <1>3
<1> HIDE DEF r
<1>7. ProcsOK'
  BY <1>1, <1>4, <1>5, <1>6, MoveOK DEF IInv, storeVars
<1> QED BY <1>1, <1>7, StoreFrame, CountersFrame DEF IInv

LEMMA CheckHeadInv ==
  ASSUME IInv, NEW p \in Process, CheckHead(p)
  PROVE  IInv'
<1>1. /\ UNCHANGED storeVars /\ UNCHANGED <<started, crashes, made>>
      /\ proc[p].pc = "checkhead"
      /\ Goto(p, "loghead") \/ Finish(p)
  BY DEF CheckHead
<1>2. RecOK([proc[p] EXCEPT !.pc = "loghead"], obj)
  BY <1>1 DEF IInv, ProcsOK, ProcType, RecOK, Name
<1>3. ProcsOK'
  BY <1>1, <1>2, GotoOK, FinishOK DEF IInv, Label, storeVars
<1> QED BY <1>1, <1>3, StoreFrame, CountersFrame DEF IInv

LEMMA CheckSpecInv ==
  ASSUME IInv, NEW p \in Process, CheckSpec(p)
  PROVE  IInv'
<1>1. /\ UNCHANGED storeVars /\ UNCHANGED <<started, crashes, made>>
      /\ proc[p].pc = "checkspec"
      /\ Goto(p, "log") \/ Finish(p)
  BY DEF CheckSpec
<1>2. RecOK([proc[p] EXCEPT !.pc = "log"], obj)
  BY <1>1 DEF IInv, ProcsOK, ProcType, RecOK, Name
<1>3. ProcsOK'
  BY <1>1, <1>2, GotoOK, FinishOK DEF IInv, Label, storeVars
<1> QED BY <1>1, <1>3, StoreFrame, CountersFrame DEF IInv

LEMMA LogHeadInv ==
  ASSUME IInv, NEW p \in Process, LogHead(p)
  PROVE  IInv'
<1>1. /\ UNCHANGED <<file, hasLog, obj, parents, started, crashes, made>>
      /\ proc[p].pc = "loghead"
      /\ Goto(p, "checkspec") \/ Goto(p, "newhead")
      /\ \/ Append2Log(HEAD, proc[p].old, proc[p].val)
         \/ UNCHANGED log
  BY DEF LogHead
<1>2. ASSUME NEW l \in {"checkspec", "newhead"}
      PROVE  RecOK([proc[p] EXCEPT !.pc = l], obj)
  BY <1>1 DEF IInv, ProcsOK, ProcType, RecOK, Name
<1>3. ProcsOK'
  BY <1>1, <1>2, GotoOK DEF IInv, Label
<1>4. /\ proc[p].old \in Commit \cup {ZeroId, Nil}
      /\ proc[p].val \in obj
  BY <1>1 DEF IInv, ProcsOK, ProcType, RecOK
<1>5. LogsOK'
  BY <1>1, <1>4, AppendClosed, LogsFrame DEF IInv, Name
<1> QED BY <1>1, <1>3, <1>5, FilesFrame, ObjectsFrame, CountersFrame DEF IInv

LEMMA LogTargetInv ==
  ASSUME IInv, NEW p \in Process, LogTarget(p)
  PROVE  IInv'
<1>1. /\ UNCHANGED <<file, hasLog, obj, parents, started, crashes, made>>
      /\ proc[p].pc = "log"
      /\ Goto(p, "create") \/ Goto(p, "newlog")
      /\ \/ Append2Log(proc[p].tgt, proc[p].old, proc[p].val)
         \/ UNCHANGED log
  BY DEF LogTarget
<1>2. ASSUME NEW l \in {"create", "newlog"}
      PROVE  RecOK([proc[p] EXCEPT !.pc = l], obj)
  BY <1>1 DEF IInv, ProcsOK, ProcType, RecOK
<1>3. ProcsOK'
  BY <1>1, <1>2, GotoOK DEF IInv, Label
<1>4. /\ proc[p].old \in Commit \cup {ZeroId, Nil}
      /\ proc[p].val \in obj /\ proc[p].tgt \in Name
  BY <1>1 DEF IInv, ProcsOK, ProcType, RecOK
<1>5. LogsOK'
  BY <1>1, <1>4, AppendClosed, LogsFrame DEF IInv
<1> QED BY <1>1, <1>3, <1>5, FilesFrame, ObjectsFrame, CountersFrame DEF IInv

\* What the creation of a reflog does, wherever in UpdateRef it happens.
LEMMA CreateLogStep ==
  ASSUME IInv, NEW p \in Process, CreateLog(p)
  PROVE  \E n \in Name :
           /\ Creates(p, n)
           /\ hasLog' = hasLog \cup {n}
           /\ log'[n] = <<>> /\ \A m \in Name \ {n} : log'[m] = log[m]
           /\ log' = [log EXCEPT ![n] = <<>>]
           /\ \/ proc[p].pc = "newhead" /\ n = HEAD /\ Goto(p, "loghead")
              \/ proc[p].pc = "newlog" /\ n = proc[p].tgt /\ Goto(p, "log")
           /\ UNCHANGED <<file, obj, parents, started, crashes, made>>
BY DEF CreateLog, Creates, IInv, LogsOK

LEMMA CreateLogInv ==
  ASSUME IInv, NEW p \in Process, CreateLog(p)
  PROVE  IInv'
<1>1. PICK n \in Name :
        /\ hasLog' = hasLog \cup {n}
        /\ log' = [log EXCEPT ![n] = <<>>]
        /\ \/ proc[p].pc = "newhead" /\ Goto(p, "loghead")
           \/ proc[p].pc = "newlog" /\ Goto(p, "log")
        /\ UNCHANGED <<file, obj, parents, started, crashes, made>>
  BY CreateLogStep
<1>2. /\ proc[p].pc = "newhead" => RecOK([proc[p] EXCEPT !.pc = "loghead"], obj)
      /\ proc[p].pc = "newlog" => RecOK([proc[p] EXCEPT !.pc = "log"], obj)
  BY DEF IInv, ProcsOK, ProcType, RecOK
<1>3. ProcsOK'
  BY <1>1, <1>2, GotoOK DEF IInv, Label
<1>4. LogsOK'
  <2>1. <<>> \in Seq(Entry) /\ \A i \in DOMAIN <<>> : FALSE
    OBVIOUS
  <2> QED BY <1>1, <2>1 DEF IInv, LogsOK
<1> QED BY <1>1, <1>3, <1>4, FilesFrame, ObjectsFrame, CountersFrame DEF IInv

LEMMA CreateInv ==
  ASSUME IInv, NEW p \in Process, Create(p)
  PROVE  IInv'
<1>1. /\ UNCHANGED <<hasLog, log, obj, parents, started, crashes, made>>
      /\ proc[p].pc = "create" /\ Goto(p, "write")
      /\ file' = [file EXCEPT ![proc[p].tgt] = Empty]
  BY DEF Create
<1>2. RecOK([proc[p] EXCEPT !.pc = "write"], obj)
  BY <1>1 DEF IInv, ProcsOK, ProcType, RecOK
<1>3. ProcsOK'
  BY <1>1, <1>2, GotoOK DEF IInv, Label
<1>4. proc[p].tgt \in Name
  BY <1>1 DEF IInv, ProcsOK, RecOK
<1>5. FilesOK'
  BY <1>1, <1>4, FileWrite DEF IInv
<1> QED BY <1>1, <1>3, <1>5, LogsFrame, ObjectsFrame, CountersFrame DEF IInv

LEMMA WriteRefInv ==
  ASSUME IInv, NEW p \in Process, WriteRef(p)
  PROVE  IInv'
<1>1. /\ UNCHANGED <<hasLog, log, obj, parents, started, crashes>>
      /\ proc[p].pc = "write" /\ proc[p].kind = "ref" /\ Finish(p)
      /\ file' = [file EXCEPT ![proc[p].tgt] = proc[p].val]
      /\ made' \in {made, made \cup {proc[p].val}}
  BY DEF WriteRef
<1>2. proc[p].tgt \in Name /\ proc[p].val \in obj /\ proc[p].val \in Commit
  BY <1>1 DEF IInv, ProcsOK, RecOK, ObjectsOK
<1>3. ProcsOK'
  BY <1>1, FinishOK DEF IInv
<1>4. FilesOK'
  BY <1>1, <1>2, FileWrite DEF IInv
<1>5. CountersOK'
  BY <1>1, <1>2 DEF IInv, CountersOK
<1> QED BY <1>1, <1>3, <1>4, <1>5, LogsFrame, ObjectsFrame DEF IInv

LEMMA WriteBranchInv ==
  ASSUME IInv, NEW p \in Process, WriteBranch(p)
  PROVE  IInv'
<1> DEFINE r == [proc[p] EXCEPT !.pc = "symlog", !.kind = "sym", !.tgt = HEAD,
                                !.val = proc[p].tgt]
<1>1. /\ UNCHANGED <<hasLog, log, obj, parents, started, crashes, made>>
      /\ proc[p].pc = "write" /\ proc[p].kind = "branch"
      /\ file' = [file EXCEPT ![proc[p].tgt] = proc[p].val]
      /\ Finish(p) \/ proc' = [proc EXCEPT ![p] = r]
  BY DEF WriteBranch
<1>2. /\ proc[p].tgt \in Branch /\ proc[p].tgt \in Name
      /\ proc[p].val \in obj /\ proc[p].val \in Commit
  BY <1>1 DEF IInv, ProcsOK, RecOK, ObjectsOK, Name
<1>3. r \in ProcType
  BY ZenonT(60), <1>2 DEF IInv, ProcsOK, ProcType, Label, Name
<1>4. RecOK(r, obj')
  BY ZenonT(60), <1>1, <1>2 DEF IInv, ProcsOK, ProcType, RecOK
<1> HIDE DEF r
<1>5. ProcsOK'
  BY <1>1, <1>3, <1>4, FinishOK, MoveOK DEF IInv
<1>6. FilesOK'
  BY <1>1, <1>2, FileWrite DEF IInv
<1> QED BY <1>1, <1>5, <1>6, LogsFrame, ObjectsFrame, CountersFrame DEF IInv

LEMMA RemoveInv ==
  ASSUME IInv, NEW p \in Process, Remove(p)
  PROVE  IInv'
<1>1. /\ UNCHANGED <<hasLog, log, obj, parents, started, crashes, made>>
      /\ proc[p].pc = "remove" /\ Finish(p)
      /\ file' = [file EXCEPT ![proc[p].src] = Absent]
  BY DEF Remove
<1>2. proc[p].src \in Name /\ proc[p].src # HEAD
  BY <1>1, ConstantsDistinct DEF IInv, ProcsOK, RecOK, Name
<1>3. ProcsOK'
  BY <1>1, FinishOK DEF IInv
<1>4. FilesOK'
  BY <1>1, <1>2, FileWrite DEF IInv
<1> QED BY <1>1, <1>3, <1>4, LogsFrame, ObjectsFrame, CountersFrame DEF IInv

LEMMA SymbolicRefLogInv ==
  ASSUME IInv, NEW p \in Process, SymbolicRefLog(p)
  PROVE  IInv'
<1>1. /\ UNCHANGED <<file, obj, parents, started, crashes, made>>
      /\ proc[p].pc = "symlog"
      /\ Goto(p, "create") \/ Finish(p)
      /\ \/ /\ HEAD \in hasLog /\ ~SymbolicRefFails(p)
            /\ Append2Log(HEAD, SymbolicHeadCommit, RefCommit(proc[p].val))
         \/ UNCHANGED log
      /\ hasLog' = hasLog
  BY DEF SymbolicRefLog
<1>2. proc[p].val \in Name
  BY <1>1 DEF IInv, ProcsOK, RecOK, Name
<1>3. ProcsOK'
  <2>1. ASSUME Goto(p, "create")
        PROVE  RecOK([proc[p] EXCEPT !.pc = "create"], obj)
    BY ZenonT(60), <1>1 DEF IInv, ProcsOK, ProcType, RecOK, Name
  <2> QED BY <1>1, <2>1, GotoOK, FinishOK DEF IInv, Label
<1>4. SymbolicHeadCommit \in Commit \cup {ZeroId, Nil}
  BY ResolvedStored DEF IInv, ObjectsOK
<1>5. HEAD \in hasLog /\ ~SymbolicRefFails(p) => RefCommit(proc[p].val) \in obj
  BY <1>2, ResolvedStored DEF SymbolicRefFails, IInv
<1>6. LogsOK'
  BY <1>1, <1>4, <1>5, AppendClosed, LogsFrame DEF IInv, Name
<1> QED BY <1>1, <1>3, <1>6, FilesFrame, ObjectsFrame, CountersFrame DEF IInv

LEMMA WriteSymbolicRefInv ==
  ASSUME IInv, NEW p \in Process, WriteSymbolicRef(p)
  PROVE  IInv'
<1>1. /\ UNCHANGED <<hasLog, log, obj, parents, started, crashes, made>>
      /\ proc[p].pc = "write" /\ proc[p].kind = "sym"
      /\ file' = [file EXCEPT ![HEAD] = proc[p].val]
      /\ (proc[p].cmd = "branch -m" /\ Goto(p, "remove")) \/ Finish(p)
  BY DEF WriteSymbolicRef
<1>2. proc[p].val \in Branch
  BY <1>1 DEF IInv, ProcsOK, RecOK
<1>3. proc[p].cmd = "branch -m"
        => RecOK([proc[p] EXCEPT !.pc = "remove"], obj)
  BY <1>1 DEF IInv, ProcsOK, ProcType, RecOK
<1>4. ProcsOK'
  BY <1>1, <1>3, GotoOK, FinishOK DEF IInv, Label
<1>5. FilesOK'
  BY <1>1, <1>2, FileWrite DEF IInv, Name
<1> QED BY <1>1, <1>4, <1>5, LogsFrame, ObjectsFrame, CountersFrame DEF IInv

LEMMA CrashInv ==
  ASSUME IInv, NEW p \in Process, Crash(p)
  PROVE  IInv'
<1>1. UNCHANGED storeVars /\ Finish(p)
  BY DEF Crash
<1>2. ProcsOK'
  BY <1>1, FinishOK DEF IInv, storeVars
<1>3. CountersOK'
  BY ConstantsDistinct DEF Crash, IInv, CountersOK
<1> QED BY <1>1, <1>2, <1>3, StoreFrame DEF IInv

-----------------------------------------------------------------------------

LEMMA NextInv == IInv /\ [Next]_vars => IInv'
<1> SUFFICES ASSUME IInv, [Next]_vars PROVE IInv'
  OBVIOUS
<1>1. CASE UNCHANGED vars
  BY <1>1, StoreFrame, CountersFrame DEF vars, storeVars, IInv, ProcsOK
<1>2. ASSUME NEW p \in Process, Start(p)
      PROVE  IInv'
  BY <1>2, StartCommitInv, StartUpdateRefInv, StartBranchInv, StartRenameInv,
     StartDeleteInv, StartSymbolicRefInv DEF Start
<1>3. ASSUME NEW p \in Process, Advance(p)
      PROVE  IInv'
  BY <1>3, GetHeadCommitInv, CommitTreeInv, DerefInv, CheckHeadInv, LogHeadInv,
     CheckSpecInv, LogTargetInv, CreateLogInv, CreateInv, WriteRefInv, WriteBranchInv,
     RemoveInv, SymbolicRefLogInv, WriteSymbolicRefInv DEF Advance
<1> QED BY <1>1, <1>2, <1>3, CrashInv DEF Next

\* The invariant of the store holds in every reachable state.
THEOREM InvHolds == Spec => []IInv
BY InitInv, NextInv, PTL DEF Spec

\* The state keeps its shape: HEAD is never missing, and only HEAD names a
\* branch.
THEOREM TypeCorrect == Spec => []TypeOK
BY InvHolds, InvImplies, PTL

\* Objects before names: no interleaving of update-ref, commit, checkout,
\* branch and kills ever makes a ref, a reflog or a parent line name a commit
\* that CommitTree has not stored.
THEOREM HistoryIsClosed == Spec => []HistoryClosed
BY InvHolds, InvImplies, PTL

-----------------------------------------------------------------------------
(***************************************************************************)
(* The reflog leads the ref, for the reflogs no process can create under   *)
(* another's entries (Safe).  CreatesOK says that such a log is created    *)
(* only while it is missing, and so empty.  Recoverability of a commit     *)
(* needs the record of the commit command at every step between its first  *)
(* reflog append and the end of its write.                                 *)
(***************************************************************************)

LoggedIn(l, n, c) == \E i \in DOMAIN l[n] : l[n][i].new = c

CreatesOK ==
  /\ FirstLogs \subseteq hasLog
  /\ \A n \in Name : n \notin hasLog => log[n] = <<>>
  /\ \A p \in Process, n \in Name : Creates(p, n) /\ Safe(n) => n \notin hasLog

\* What a record r promises about the reflogs l.
RecLogged(r, l) ==
  /\ (/\ r.pc \in {"create", "write"} /\ r.kind = "ref"
      /\ r.tgt = HEAD \/ r.mklog
      /\ Safe(r.tgt)) => LoggedIn(l, r.tgt, r.val)
  /\ r.cmd \in {"commit", "amend"} =>
       /\ r.kind \in {"none", "ref"}
       /\ Safe(HEAD) =>
            /\ r.pc \in {"checkspec", "create", "write"} => LoggedIn(l, HEAD, r.val)
            /\ r.pc \in {"log", "newlog"} /\ r.tgt # HEAD
                 => LoggedIn(l, HEAD, r.val)

AllLogged == \A p \in Process : RecLogged(proc[p], log)

LInv == IInv /\ CreatesOK /\ AllLogged /\ CommitRecoverable

\* No step removes an entry from a safe reflog.
LogGrows ==
  \A n \in Name, c \in Commit : Safe(n) /\ Logged(n, c) => Logged(n, c)'

LEMMA InitLogged == Init => LInv
<1> SUFFICES ASSUME Init PROVE LInv
  OBVIOUS
<1>1. AllLogged
  BY DEF Init, AllLogged, RecLogged, IdleProc
<1>2. CommitRecoverable
  BY DEF Init, CommitRecoverable, CommitsLogged
<1>3. CreatesOK
  BY DEF Init, CreatesOK, Creates, IdleProc
<1> QED BY <1>1, <1>2, <1>3, InitInv DEF LInv

\* The steps that touch the reflogs, or come to find one missing.
LogStep(p) == LogHead(p) \/ LogTarget(p) \/ CreateLog(p) \/ SymbolicRefLog(p)

LeavesLogs(p) ==
  /\ UNCHANGED <<hasLog, log>>
  /\ proc'[p].pc \notin {"newhead", "newlog"}
  /\ \A q \in Process \ {p} : proc'[q] = proc[q]

\* Every other step leaves the reflogs alone and creates none.
LEMMA OtherLogs ==
  ASSUME IInv, NEW p \in Process, Start(p) \/ Advance(p) \/ Crash(p), ~LogStep(p)
  PROVE  LeavesLogs(p)
<1> USE DEF LeavesLogs
<1>1. proc \in [Process -> ProcType] /\ proc[p] \in ProcType
  BY DEF IInv, ProcsOK
<1>2. ASSUME Start(p) PROVE LeavesLogs(p)
  <2>1. ASSUME NEW c, StartCommit(p, c) PROVE LeavesLogs(p)
    BY <1>1, <2>1 DEF StartCommit, storeVars, IdleProc
  <2>2. ASSUME NEW n, NEW k, NEW o, NEW c, StartUpdateRef(p, n, k, o, c)
        PROVE  LeavesLogs(p)
    BY <1>1, <2>2 DEF StartUpdateRef, storeVars, IdleProc
  <2>3. ASSUME NEW b, NEW c, StartBranch(p, b, c) PROVE LeavesLogs(p)
    BY <1>1, <2>3 DEF StartBranch, storeVars, IdleProc
  <2>4. ASSUME NEW b, StartRename(p, b) PROVE LeavesLogs(p)
    BY <1>1, <2>4 DEF StartRename, storeVars, IdleProc
  <2>5. ASSUME NEW b, NEW o, StartDelete(p, b, o) PROVE LeavesLogs(p)
    BY <1>1, <2>5 DEF StartDelete, storeVars, IdleProc
  <2>6. ASSUME NEW b, StartSymbolicRef(p, b) PROVE LeavesLogs(p)
    BY <1>1, <2>6 DEF StartSymbolicRef, storeVars, IdleProc
  <2> QED BY <1>2, <2>1, <2>2, <2>3, <2>4, <2>5, <2>6 DEF Start
<1>3. ASSUME Advance(p) PROVE LeavesLogs(p)
  <2>1. CASE GetHeadCommit(p)
    BY <1>1, <2>1 DEF GetHeadCommit, Finish, IdleProc, storeVars, ProcType
  <2>2. CASE CommitTree(p)
    BY <1>1, <2>2 DEF CommitTree, ProcType
  <2>3. CASE Deref(p)
    BY <1>1, <2>3 DEF Deref, storeVars, ProcType
  <2>4. CASE CheckHead(p) \/ CheckSpec(p) \/ Create(p)
    BY <1>1, <2>4 DEF CheckHead, CheckSpec, Create, Goto, Finish, IdleProc,
       storeVars, ProcType
  <2>5. CASE WriteRef(p) \/ Remove(p)
    BY <1>1, <2>5 DEF WriteRef, Remove, Finish, IdleProc
  <2>7. CASE WriteSymbolicRef(p)
    <3>1. \/ Finish(p)
          \/ Goto(p, "remove")
      BY <2>7 DEF WriteSymbolicRef
    <3>2. proc'[p].pc \in {"idle", "remove"}
      BY <1>1, <3>1 DEF Goto, Finish, IdleProc, ProcType
    <3>3. \A q \in Process \ {p} : proc'[q] = proc[q]
      BY <1>1, <3>1 DEF Goto, Finish
    <3> QED BY <2>7, <3>2, <3>3 DEF WriteSymbolicRef
  <2>6. CASE WriteBranch(p)
    BY <1>1, <2>6 DEF WriteBranch, Finish, IdleProc, ProcType
  <2> QED BY <1>3, <2>1, <2>2, <2>3, <2>4, <2>5, <2>6, <2>7 DEF Advance, LogStep
<1>4. ASSUME Crash(p) PROVE LeavesLogs(p)
  BY <1>1, <1>4 DEF Crash, Finish, IdleProc, storeVars
<1> QED BY <1>2, <1>3, <1>4

\* What a step of UpdateRef or SymbolicRefUpdate does to the reflogs.
LEMMA LogSteps ==
  ASSUME IInv, NEW p \in Process, LogStep(p)
  PROVE  /\ \A q \in Process \ {p} : proc'[q] = proc[q]
         /\ \/ /\ hasLog' = hasLog /\ obj' = obj
               /\ \/ log' = log
                  \/ \E n \in hasLog, o \in Commit \cup {ZeroId, Nil}, c \in obj :
                       Append2Log(n, o, c)
               /\ \A n \in Name : Creates(p, n)' => n \notin hasLog
            \/ /\ CreateLog(p)
               /\ \A n \in Name : ~Creates(p, n)'
<1>1. /\ proc \in [Process -> ProcType] /\ proc[p] \in ProcType
      /\ RecOK(proc[p], obj)
  BY DEF IInv, ProcsOK
<1>2. CASE LogHead(p)
  BY <1>1, <1>2 DEF LogHead, RecOK, ProcType, Goto, Creates
<1>3. CASE LogTarget(p)
  <2>1. proc[p].tgt \in hasLog
          => /\ Append2Log(proc[p].tgt, proc[p].old, proc[p].val)
             /\ proc[p].old \in Commit \cup {ZeroId, Nil} /\ proc[p].val \in obj
    BY <1>1, <1>3 DEF LogTarget, RecOK, ProcType
  <2>2. /\ hasLog' = hasLog /\ obj' = obj
        /\ proc[p].tgt \notin hasLog => log' = log
    BY <1>3 DEF LogTarget
  <2>3. PICK l \in {"create", "newlog"} :
          Goto(p, l) /\ (l = "newlog" => proc[p].tgt \notin hasLog)
    BY <1>3 DEF LogTarget
  <2>4. \A n \in Name : Creates(p, n)' => n \notin hasLog
    BY <1>1, <2>3 DEF Goto, Creates, ProcType
  <2>5. \A q \in Process \ {p} : proc'[q] = proc[q]
    BY <1>1, <2>3 DEF Goto
  <2>6. CASE proc[p].tgt \in hasLog
    BY <2>1, <2>2, <2>4, <2>5, <2>6
  <2>7. CASE proc[p].tgt \notin hasLog
    BY <2>2, <2>4, <2>5, <2>7
  <2> QED BY <2>6, <2>7
<1>4. CASE CreateLog(p)
  <2>1. PICK l \in {"loghead", "log"} : Goto(p, l)
    BY <1>4 DEF CreateLog
  <2> QED BY <1>1, <1>4, <2>1 DEF ProcType, Goto, Creates
<1>5. CASE SymbolicRefLog(p)
  <2>1. proc[p].val \in Name
    BY <1>1, <1>5 DEF SymbolicRefLog, RecOK, Name
  <2>2. /\ SymbolicHeadCommit \in Commit \cup {ZeroId, Nil}
        /\ HEAD \in hasLog /\ ~SymbolicRefFails(p) => RefCommit(proc[p].val) \in obj
    BY <2>1, ResolvedStored DEF IInv, ObjectsOK, SymbolicRefFails
  <2> QED BY <1>1, <1>5, <2>2 DEF SymbolicRefLog, ProcType, Goto, Finish, IdleProc,
             Creates
<1> QED BY <1>2, <1>3, <1>4, <1>5 DEF LogStep

\* A safe reflog is created only while it is missing.
LEMMA CreatesKept ==
  ASSUME IInv, CreatesOK, NEW p \in Process, Start(p) \/ Advance(p) \/ Crash(p)
  PROVE  CreatesOK'
<1>1. CASE ~LogStep(p)
  <2>1. LeavesLogs(p)
    BY <1>1, OtherLogs
  <2> QED BY <2>1 DEF LeavesLogs, CreatesOK, Creates, Safe
<1>2. CASE LogStep(p)
  <2>0. \A q \in Process \ {p}, n \in Name : Creates(q, n)' => Creates(q, n)
    BY <1>2, LogSteps DEF Creates
  <2>1. CASE CreateLog(p) /\ \A n \in Name : ~Creates(p, n)'
    <3>1. PICK n \in Name :
            /\ Creates(p, n)
            /\ hasLog' = hasLog \cup {n}
            /\ log'[n] = <<>> /\ \A m \in Name \ {n} : log'[m] = log[m]
      BY <2>1, CreateLogStep
    <3>2. \A q \in Process, m \in Name : Creates(q, m)' /\ Safe(m)
            => q # p /\ m \in FirstLogs /\ Creates(q, m)
      BY <2>0, <2>1 DEF Safe
    <3>3. \A q \in Process, m \in Name : ~(Creates(q, m) /\ m \in FirstLogs)
      BY DEF CreatesOK, Safe
    <3> QED BY <3>1, <3>2, <3>3 DEF CreatesOK, Safe
  <2>2. CASE /\ hasLog' = hasLog
             /\ \/ log' = log
                \/ \E n \in hasLog, o \in Commit \cup {ZeroId, Nil}, c \in obj :
                     Append2Log(n, o, c)
             /\ \A n \in Name : Creates(p, n)' => n \notin hasLog
    <3>1. \A m \in Name : m \notin hasLog => log'[m] = log[m]
      BY <2>2 DEF Append2Log, IInv, LogsOK
    <3> QED BY <2>0, <2>2, <3>1 DEF CreatesOK, Safe
  <2> QED BY <1>2, <2>1, <2>2, LogSteps
<1> QED BY <1>1, <1>2

LEMMA Grows ==
  ASSUME IInv, CreatesOK, NEW p \in Process, Start(p) \/ Advance(p) \/ Crash(p)
  PROVE  LogGrows
<1>1. CASE log' = log
  BY <1>1 DEF LogGrows, Logged
<1>2. ASSUME NEW n \in hasLog, NEW o \in Commit \cup {ZeroId, Nil}, NEW c \in obj,
             Append2Log(n, o, c), obj' = obj, hasLog' = hasLog
      PROVE  LogGrows
  <2>1. n \in Name
    BY DEF IInv, LogsOK
  <2> QED BY <1>2, <2>1, AppendClosed DEF IInv, LogGrows
<1>3. CASE CreateLog(p)
  <2>1. PICK n \in Name :
          /\ Creates(p, n)
          /\ log'[n] = <<>> /\ \A m \in Name \ {n} : log'[m] = log[m]
    BY <1>3, CreateLogStep
  <2>2. Safe(n) => log[n] = <<>>
    BY <2>1 DEF CreatesOK
  <2> QED BY <2>1, <2>2 DEF LogGrows, Logged
<1> QED BY <1>1, <1>2, <1>3, OtherLogs, LogSteps DEF LeavesLogs

\* The record of one process changes and the reflogs only grow.
LEMMA MoveLogged ==
  ASSUME IInv, AllLogged, LogGrows, NEW p \in Process, NEW r,
         RecLogged(r, log'), proc' = [proc EXCEPT ![p] = r]
  PROVE  AllLogged'
<1> SUFFICES ASSUME NEW q \in Process PROVE RecLogged(proc'[q], log')
  BY DEF AllLogged
<1>1. CASE q = p
  BY <1>1 DEF IInv, ProcsOK
<1>2. CASE q # p
  <2>1. proc'[q] = proc[q] /\ RecLogged(proc[q], log) /\ RecOK(proc[q], obj)
    BY <1>2 DEF AllLogged, IInv, ProcsOK
  <2>2. \A n \in Name, c \in obj :
          Safe(n) /\ LoggedIn(log, n, c) => LoggedIn(log', n, c)
    BY DEF LogGrows, Logged, LoggedIn, IInv, ObjectsOK
  <2> QED BY <2>1, <2>2 DEF RecLogged, RecOK, Name
<1> QED BY <1>1, <1>2

LEMMA FinishLogged ==
  ASSUME IInv, AllLogged, LogGrows, NEW p \in Process, Finish(p)
  PROVE  AllLogged'
<1>1. RecLogged(IdleProc, log')
  BY DEF RecLogged, IdleProc
<1> QED BY <1>1, MoveLogged DEF Finish

LEMMA GotoLogged ==
  ASSUME IInv, AllLogged, LogGrows, NEW p \in Process, NEW l \in Label,
         Goto(p, l), RecLogged([proc[p] EXCEPT !.pc = l], log')
  PROVE  AllLogged'
BY MoveLogged DEF Goto

LEMMA StartLogged ==
  ASSUME IInv, AllLogged, LogGrows, NEW p \in Process, Start(p)
  PROVE  AllLogged'
<1>1. ASSUME NEW c \in {"commit", "amend"}, StartCommit(p, c)
      PROVE  AllLogged'
  <2> DEFINE r == [IdleProc EXCEPT !.pc = "gethead", !.cmd = c]
  <2>1. RecLogged(r, log') BY DEF RecLogged, IdleProc
  <2>2. proc' = [proc EXCEPT ![p] = r] BY <1>1 DEF StartCommit
  <2> HIDE DEF r
  <2> QED BY <2>1, <2>2, MoveLogged
<1>2. ASSUME NEW n \in Name, NEW k \in UpdateRefCommands, NEW o, NEW c,
             StartUpdateRef(p, n, k, o, c)
      PROVE  AllLogged'
  <2> DEFINE r == [IdleProc EXCEPT
                     !.pc = IF n \in Branch THEN "checkspec"
                            ELSE IF k = "update-ref" THEN "deref" ELSE "log",
                     !.cmd = k, !.kind = "ref", !.tgt = n, !.val = c, !.old = o]
  <2>1. RecLogged(r, log') BY DEF RecLogged, IdleProc, UpdateRefCommands
  <2>2. proc' = [proc EXCEPT ![p] = r] BY <1>2 DEF StartUpdateRef
  <2> HIDE DEF r
  <2> QED BY <2>1, <2>2, MoveLogged
<1>3. ASSUME NEW b \in Branch, NEW c, StartBranch(p, b, c)
      PROVE  AllLogged'
  <2>1. PICK k \in {"branch", "checkout -b"} :
          proc' = [proc EXCEPT ![p] = [IdleProc EXCEPT !.pc = "create",
                     !.cmd = k, !.kind = "branch", !.tgt = b, !.val = c]]
    BY <1>3 DEF StartBranch
  <2> DEFINE r == [IdleProc EXCEPT !.pc = "create", !.cmd = k,
                     !.kind = "branch", !.tgt = b, !.val = c]
  <2>2. RecLogged(r, log') BY DEF RecLogged, IdleProc
  <2>3. proc' = [proc EXCEPT ![p] = r] BY <2>1
  <2> HIDE DEF r
  <2> QED BY <2>2, <2>3, MoveLogged
<1>4. ASSUME NEW b \in Branch, StartRename(p, b)
      PROVE  AllLogged'
  <2> DEFINE r == [IdleProc EXCEPT !.pc = "create", !.cmd = "branch -m",
                     !.kind = "branch", !.tgt = b, !.val = SymbolicHeadCommit,
                     !.src = file[HEAD]]
  <2>1. RecLogged(r, log') BY DEF RecLogged, IdleProc
  <2>2. proc' = [proc EXCEPT ![p] = r] BY <1>4 DEF StartRename
  <2> HIDE DEF r
  <2> QED BY <2>1, <2>2, MoveLogged
<1>5. ASSUME NEW b \in Branch, NEW o, StartDelete(p, b, o)
      PROVE  AllLogged'
  <2> DEFINE r == [IdleProc EXCEPT !.pc = "remove", !.cmd = "update-ref -d",
                     !.src = b, !.old = o]
  <2>1. RecLogged(r, log') BY DEF RecLogged, IdleProc
  <2>2. proc' = [proc EXCEPT ![p] = r] BY <1>5 DEF StartDelete
  <2> HIDE DEF r
  <2> QED BY <2>1, <2>2, MoveLogged
<1>6. ASSUME NEW b \in Branch, StartSymbolicRef(p, b)
      PROVE  AllLogged'
  <2>1. PICK c \in {"symbolic-ref", "checkout"}, l \in {"create", "symlog"} :
          proc' = [proc EXCEPT ![p] = [IdleProc EXCEPT !.pc = l, !.cmd = c,
                                         !.kind = "sym", !.tgt = HEAD, !.val = b]]
    BY <1>6 DEF StartSymbolicRef
  <2> DEFINE r == [IdleProc EXCEPT !.pc = l, !.cmd = c,
                     !.kind = "sym", !.tgt = HEAD, !.val = b]
  <2>2. RecLogged(r, log') BY DEF RecLogged, IdleProc
  <2>3. proc' = [proc EXCEPT ![p] = r] BY <2>1
  <2> HIDE DEF r
  <2> QED BY <2>2, <2>3, MoveLogged
<1> QED BY <1>1, <1>2, <1>3, <1>4, <1>5, <1>6 DEF Start

LEMMA AdvanceLogged ==
  ASSUME IInv, AllLogged, LogGrows, NEW p \in Process, Advance(p)
  PROVE  AllLogged'
<1>1. proc[p] \in ProcType /\ RecOK(proc[p], obj) /\ RecLogged(proc[p], log)
  BY DEF IInv, ProcsOK, AllLogged
<1>2. \A n \in Name, c \in obj :
        Safe(n) /\ LoggedIn(log, n, c) => LoggedIn(log', n, c)
  BY DEF LogGrows, Logged, LoggedIn, IInv, ObjectsOK
<1>3. ASSUME GetHeadCommit(p) PROVE AllLogged'
  <2> DEFINE r == [proc[p] EXCEPT !.pc = "object", !.old = HeadCommit]
  <2>1. RecLogged(r, log')
    BY <1>1, <1>3 DEF GetHeadCommit, RecLogged, ProcType
  <2>2. Finish(p) \/ proc' = [proc EXCEPT ![p] = r]
    BY <1>3 DEF GetHeadCommit
  <2> HIDE DEF r
  <2> QED BY <2>1, <2>2, MoveLogged, FinishLogged
<1>4. ASSUME CommitTree(p) PROVE AllLogged'
  <2>1. PICK c \in Commit : proc' = [proc EXCEPT ![p].pc = "deref",
                ![p].val = c, ![p].kind = "ref", ![p].mklog = TRUE]
    BY <1>4 DEF CommitTree
  <2> DEFINE r == [proc[p] EXCEPT !.pc = "deref", !.val = c, !.kind = "ref",
                                  !.mklog = TRUE]
  <2>2. RecLogged(r, log') BY <1>1 DEF RecLogged, ProcType
  <2>3. proc' = [proc EXCEPT ![p] = r] BY <2>1
  <2> HIDE DEF r
  <2> QED BY <2>2, <2>3, MoveLogged
<1>5. ASSUME Deref(p) PROVE AllLogged'
  <2>1. PICK n \in Name, l \in {"loghead", "checkhead", "log"} :
          /\ l = "log" => n = HEAD
          /\ proc' = [proc EXCEPT ![p].tgt = n, ![p].pc = l]
    BY <1>5 DEF Deref, Name
  <2> DEFINE r == [proc[p] EXCEPT !.tgt = n, !.pc = l]
  <2>2. RecLogged(r, log') BY <1>1, <2>1 DEF RecLogged, ProcType
  <2>3. proc' = [proc EXCEPT ![p] = r] BY <2>1
  <2> HIDE DEF r
  <2> QED BY <2>2, <2>3, MoveLogged
<1>6. ASSUME CheckHead(p) PROVE AllLogged'
  <2>1. RecLogged([proc[p] EXCEPT !.pc = "loghead"], log')
    BY <1>1 DEF RecLogged, ProcType
  <2> QED BY <1>6, <2>1, GotoLogged, FinishLogged DEF CheckHead, Label
<1>7. ASSUME LogHead(p) PROVE AllLogged'
  <2>1. CASE HEAD \in hasLog
    <3>1. /\ Append2Log(HEAD, proc[p].old, proc[p].val) /\ obj' = obj
          /\ proc[p].old \in Commit \cup {ZeroId, Nil} /\ proc[p].val \in obj
          /\ hasLog' = hasLog /\ Goto(p, "checkspec")
      BY <1>1, <1>7, <2>1 DEF LogHead, ProcType, RecOK
    <3>2. LoggedIn(log', HEAD, proc[p].val)
      BY <3>1, AppendClosed DEF IInv, Name, Logged, LoggedIn
    <3>3. RecLogged([proc[p] EXCEPT !.pc = "checkspec"], log')
      BY <1>1, <3>2 DEF RecLogged, ProcType
    <3> QED BY <3>1, <3>3, GotoLogged DEF Label
  <2>2. CASE HEAD \notin hasLog
    <3>1. Goto(p, "newhead")
      BY <1>7, <2>2 DEF LogHead
    <3>2. RecLogged([proc[p] EXCEPT !.pc = "newhead"], log')
      BY <1>1 DEF RecLogged, ProcType
    <3> QED BY <3>1, <3>2, GotoLogged DEF Label
  <2> QED BY <2>1, <2>2
<1>8. ASSUME CheckSpec(p) PROVE AllLogged'
  <2>1. RecLogged([proc[p] EXCEPT !.pc = "log"], log')
    BY <1>1, <1>2, <1>8 DEF CheckSpec, RecLogged, RecOK, ProcType, Name
  <2> QED BY <1>8, <2>1, GotoLogged, FinishLogged DEF CheckSpec, Label
<1>9. ASSUME LogTarget(p) PROVE AllLogged'
  <2>1. /\ proc[p].old \in Commit \cup {ZeroId, Nil} /\ proc[p].val \in obj
        /\ proc[p].tgt \in Name /\ obj' = obj /\ proc[p].pc = "log"
        /\ hasLog' = hasLog
    BY <1>1, <1>9 DEF LogTarget, ProcType, RecOK
  <2>2. CASE proc[p].tgt \in hasLog
    <3>1. LoggedIn(log', proc[p].tgt, proc[p].val) /\ Goto(p, "create")
      BY <2>1, <2>2, <1>9, AppendClosed DEF LogTarget, IInv, Logged, LoggedIn
    <3>2. RecLogged([proc[p] EXCEPT !.pc = "create"], log')
      BY <1>1, <1>2, <2>1, <3>1 DEF RecLogged, ProcType, Name
    <3> QED BY <3>1, <3>2, GotoLogged DEF Label
  <2>3. CASE proc[p].tgt \notin hasLog
    <3>1. Goto(p, IF MustLog(p) THEN "newlog" ELSE "create") /\ log' = log
      BY <1>9, <2>3 DEF LogTarget
    <3>2. CASE MustLog(p)
      <4>1. RecLogged([proc[p] EXCEPT !.pc = "newlog"], log')
        BY <1>1, <2>1, <3>1 DEF RecLogged, ProcType
      <4> QED BY <3>1, <3>2, <4>1, GotoLogged DEF Label
    <3>3. CASE ~MustLog(p)
      <4>1. RecLogged([proc[p] EXCEPT !.pc = "create"], log')
        BY <1>1, <2>1, <3>1, <3>3 DEF RecLogged, ProcType, MustLog
      <4> QED BY <3>1, <3>3, <4>1, GotoLogged DEF Label
    <3> QED BY <3>2, <3>3
  <2> QED BY <2>2, <2>3
<1>14. ASSUME CreateLog(p) PROVE AllLogged'
  <2>1. CASE proc[p].pc = "newhead" /\ Goto(p, "loghead")
    <3>1. RecLogged([proc[p] EXCEPT !.pc = "loghead"], log')
      BY <1>1 DEF RecLogged, ProcType
    <3> QED BY <2>1, <3>1, GotoLogged DEF Label
  <2>2. CASE proc[p].pc = "newlog" /\ Goto(p, "log")
    <3>1. RecLogged([proc[p] EXCEPT !.pc = "log"], log')
      BY <1>1, <1>2, <2>2 DEF RecLogged, RecOK, ProcType, Name
    <3> QED BY <2>2, <3>1, GotoLogged DEF Label
  <2> QED BY <1>14, <2>1, <2>2, CreateLogStep
<1>10. ASSUME Create(p) PROVE AllLogged'
  <2>1. RecLogged([proc[p] EXCEPT !.pc = "write"], log')
    BY <1>1, <1>2, <1>10 DEF Create, RecLogged, RecOK, ProcType, Name
  <2> QED BY <1>10, <2>1, GotoLogged DEF Create, Label
<1>11. ASSUME WriteBranch(p) PROVE AllLogged'
  <2> DEFINE r == [proc[p] EXCEPT !.pc = "symlog", !.kind = "sym",
                                  !.tgt = HEAD, !.val = proc[p].tgt]
  <2>1. RecLogged(r, log')
    BY <1>1, <1>11 DEF WriteBranch, RecLogged, ProcType
  <2>2. Finish(p) \/ proc' = [proc EXCEPT ![p] = r]
    BY <1>11 DEF WriteBranch
  <2> HIDE DEF r
  <2> QED BY <2>1, <2>2, MoveLogged, FinishLogged
<1>12. ASSUME SymbolicRefLog(p) PROVE AllLogged'
  <2>1. RecLogged([proc[p] EXCEPT !.pc = "create"], log')
    BY <1>1, <1>12 DEF SymbolicRefLog, RecLogged, RecOK, ProcType
  <2> QED BY <1>12, <2>1, GotoLogged, FinishLogged DEF SymbolicRefLog, Label
<1>13. ASSUME WriteSymbolicRef(p) PROVE AllLogged'
  <2>1. RecLogged([proc[p] EXCEPT !.pc = "remove"], log')
    BY <1>1, <1>13 DEF WriteSymbolicRef, RecLogged, RecOK, ProcType
  <2> QED BY <1>13, <2>1, GotoLogged, FinishLogged DEF WriteSymbolicRef, Label
<1> QED BY <1>3, <1>4, <1>5, <1>6, <1>7, <1>8, <1>9, <1>10, <1>11, <1>12,
           <1>13, <1>14, FinishLogged DEF Advance, WriteRef, Remove

\* A log that is settled stays so, and keeps its entries.
LEMMA SettledStays ==
  ASSUME IInv, NEW p \in Process, Start(p) \/ Advance(p) \/ Crash(p),
         NEW n \in Name, Settled(n)
  PROVE  Settled(n)' /\ \A c \in Commit : Logged(n, c) => Logged(n, c)'
<1>1. n \in hasLog /\ \A q \in Process : ~Creates(q, n)
  BY DEF Settled
<1>2. CASE ~LogStep(p)
  <2>1. LeavesLogs(p)
    BY <1>2, OtherLogs
  <2> QED BY <1>1, <2>1 DEF LeavesLogs, Settled, Creates, Logged
<1>3. CASE LogStep(p)
  <2>1. /\ \A q \in Process \ {p} : proc'[q] = proc[q]
        /\ \/ /\ hasLog' = hasLog /\ obj' = obj
              /\ \/ log' = log
                 \/ \E m \in hasLog, o \in Commit \cup {ZeroId, Nil}, c \in obj :
                      Append2Log(m, o, c)
              /\ \A m \in Name : Creates(p, m)' => m \notin hasLog
           \/ /\ CreateLog(p)
              /\ \A m \in Name : ~Creates(p, m)'
    BY <1>3, LogSteps
  <2>2. \A q \in Process : ~Creates(q, n)'
    BY <1>1, <2>1 DEF Creates
  <2>3. CASE CreateLog(p)
    <3>1. PICK m \in Name :
            /\ Creates(p, m) /\ hasLog' = hasLog \cup {m}
            /\ \A k \in Name \ {m} : log'[k] = log[k]
      BY <2>3, CreateLogStep
    <3> QED BY <1>1, <2>2, <3>1 DEF Settled, Logged
  <2>4. CASE log' = log /\ hasLog' = hasLog
    BY <1>1, <2>2, <2>4 DEF Settled, Logged
  <2>5. ASSUME NEW m \in hasLog, NEW o \in Commit \cup {ZeroId, Nil}, NEW c \in obj,
               Append2Log(m, o, c), obj' = obj, hasLog' = hasLog
        PROVE  Settled(n)' /\ \A d \in Commit : Logged(n, d) => Logged(n, d)'
    <3>1. m \in Name
      BY DEF IInv, LogsOK
    <3> QED BY <1>1, <2>2, <2>5, <3>1, AppendClosed DEF IInv, Settled
  <2> QED BY <2>1, <2>3, <2>4, <2>5
<1> QED BY <1>2, <1>3

\* A reflog loses entries only while processes that found it missing are still to
\* create it.
THEOREM LogsStaySettled == Spec => LogsSettle
<1>1. IInv /\ [Next]_vars =>
        [\A n \in Name : Settled(n) =>
           Settled(n)' /\ \A c \in Commit : Logged(n, c) => Logged(n, c)']_vars
  BY SettledStays DEF Next
<1> QED BY <1>1, InvHolds, PTL DEF Spec, LogsSettle

LEMMA NextLogged == LInv /\ [Next]_vars => LInv'
<1> SUFFICES ASSUME LInv, [Next]_vars PROVE LInv'
  OBVIOUS
<1>1. IInv /\ IInv' /\ AllLogged /\ CreatesOK
  BY NextInv DEF LInv
<1>4. LogGrows /\ CreatesOK'
  <2>1. CASE UNCHANGED vars
    BY <1>1, <2>1 DEF vars, LogGrows, Logged, CreatesOK, Creates, Safe
  <2>2. CASE Next
    BY <1>1, <2>2, Grows, CreatesKept DEF Next
  <2> QED BY <2>1, <2>2
<1>2. AllLogged'
  <2>1. CASE UNCHANGED vars
    BY <1>1, <2>1 DEF AllLogged, vars
  <2>2. CASE Next
    BY <1>1, <1>4, <2>2, StartLogged, AdvanceLogged, FinishLogged DEF Next, Crash
  <2> QED BY <2>1, <2>2
<1>3. CommitRecoverable'
  <2> SUFFICES ASSUME Safe(HEAD) PROVE CommitsLogged'
    BY DEF CommitRecoverable, Safe
  <2>0. CommitsLogged
    BY DEF LInv, CommitRecoverable
  <2>1. CASE made' = made
    BY <1>1, <1>4, <2>0, <2>1, InvImplies DEF CommitsLogged, LogGrows, TypeOK, Name
  <2>2. ASSUME NEW p \in Process, WriteRef(p), made' # made
        PROVE  CommitsLogged'
    <3>1. /\ made' = made \cup {proc[p].val} /\ log' = log
          /\ proc[p].pc = "write" /\ proc[p].cmd \in {"commit", "amend"}
      BY <2>2 DEF WriteRef
    <3>2. Logged(HEAD, proc[p].val)
      BY <1>1, <3>1 DEF AllLogged, RecLogged, Logged, LoggedIn
    <3> QED BY <2>0, <3>1, <3>2 DEF CommitsLogged, Logged
  <2>3. ASSUME NEW p \in Process, Start(p)
        PROVE  made' = made
    BY <2>3 DEF Start, StartCommit, StartUpdateRef, StartBranch, StartRename,
       StartDelete, StartSymbolicRef
  <2>4. ASSUME NEW p \in Process, Advance(p), ~WriteRef(p)
        PROVE  made' = made
    BY <2>4 DEF Advance, GetHeadCommit, CommitTree, Deref, CheckHead, LogHead,
       CheckSpec, LogTarget, CreateLog, Create, WriteBranch, Remove,
       SymbolicRefLog, WriteSymbolicRef
  <2>5. ASSUME NEW p \in Process, Crash(p)
        PROVE  made' = made
    BY <2>5 DEF Crash
  <2> QED BY <2>1, <2>2, <2>3, <2>4, <2>5 DEF Next, vars
<1> QED BY <1>1, <1>2, <1>3, <1>4 DEF LInv

LEMMA LoggedImplies == LInv => LoggedBeforeWritten /\ CommitRecoverable
BY DEF LInv, AllLogged, RecLogged, LoggedBeforeWritten, MustLog, Logged, LoggedIn

\* The reflog leads the ref: whatever runs besides it and wherever it is
\* killed, a command that truncates HEAD, or a ref whose reflog it creates, has
\* logged the value it will write and the entry is there, for every reflog that
\* exists from the start, and for the others when no other process runs.
THEOREM LogLeads == Spec => []LoggedBeforeWritten
<1>1. Spec => []LInv
  BY InitLogged, NextLogged, PTL DEF Spec
<1> QED BY <1>1, LoggedImplies, PTL

\* Every commit that was reported as made stays in HEAD's reflog for good, if
\* HEAD has a reflog from the start or no two processes run at a time.
THEOREM CommitsRecoverable == Spec => []CommitRecoverable
<1>1. Spec => []LInv
  BY InitLogged, NextLogged, PTL DEF Spec
<1> QED BY <1>1, LoggedImplies, PTL

-----------------------------------------------------------------------------
(***************************************************************************)
(* Torn files.  The bound is not inductive over an infinite set of         *)
(* branches: the invariant adds that the torn files are finitely many.     *)
(* Every step but a crash leaves them alone or repairs one; a crash tears  *)
(* at most the file its process was filling.                               *)
(***************************************************************************)

Torn == {n \in Name : file[n] = Empty /\ Writers(n) = {}}

TornInv == IInv /\ IsFiniteSet(Torn) /\ Cardinality(Torn) <= crashes

\* A file that is torn after a step of p was torn before it, or is the file p
\* was filling, still empty.
LEMMA TornMove ==
  ASSUME IInv, NEW p \in Process, NEW r, proc' = [proc EXCEPT ![p] = r],
         \A n \in Name : file'[n] = Empty
           => file[n] = Empty \/ (r.pc = "write" /\ r.tgt = n)
  PROVE  \A n \in Torn' : \/ n \in Torn
                          \/ /\ proc[p].pc = "write" /\ proc[p].tgt = n
                             /\ file'[n] = Empty
<1> SUFFICES ASSUME NEW n \in Torn', n \notin Torn
             PROVE  /\ proc[p].pc = "write" /\ proc[p].tgt = n
                    /\ file'[n] = Empty
  OBVIOUS
<1>1. n \in Name /\ file'[n] = Empty /\ Writers(n)' = {}
  BY DEF Torn
<1>2. /\ proc'[p] = r /\ \A q \in Process \ {p} : proc'[q] = proc[q]
  BY DEF IInv, ProcsOK
<1>3. file[n] = Empty
  BY <1>1, <1>2 DEF Writers
<1>4. PICK q \in Process : proc[q].pc = "write" /\ proc[q].tgt = n
  BY <1>1, <1>3 DEF Torn, Writers
<1>5. q = p
  BY <1>1, <1>2, <1>4 DEF Writers
<1> QED BY <1>1, <1>4, <1>5

\* No step but a crash tears a file.
LEMMA TornFrame ==
  ASSUME IInv, NEW p \in Process, NEW r, proc' = [proc EXCEPT ![p] = r],
         UNCHANGED file, proc[p].pc # "write"
  PROVE  Torn' \subseteq Torn
BY TornMove

LEMMA StartTorn ==
  ASSUME IInv, NEW p \in Process, Start(p)
  PROVE  Torn' \subseteq Torn /\ crashes' = crashes
<1>1. /\ proc[p].pc # "write" /\ UNCHANGED <<file, crashes>>
      /\ \E r : proc' = [proc EXCEPT ![p] = r]
  <2>1. ASSUME NEW c, StartCommit(p, c) PROVE <1>1!:
    BY <2>1 DEF StartCommit, Starts, storeVars
  <2>2. ASSUME NEW n, NEW k, NEW o, NEW c, StartUpdateRef(p, n, k, o, c)
        PROVE  <1>1!:
    BY <2>2 DEF StartUpdateRef, Starts, storeVars
  <2>3. ASSUME NEW b, NEW c, StartBranch(p, b, c) PROVE <1>1!:
    BY <2>3 DEF StartBranch, Starts, storeVars
  <2>4. ASSUME NEW b, StartRename(p, b) PROVE <1>1!:
    BY <2>4 DEF StartRename, Starts, storeVars
  <2>5. ASSUME NEW b, NEW o, StartDelete(p, b, o) PROVE <1>1!:
    BY <2>5 DEF StartDelete, Starts, storeVars
  <2>6. ASSUME NEW b, StartSymbolicRef(p, b) PROVE <1>1!:
    BY <2>6 DEF StartSymbolicRef, Starts, storeVars
  <2> QED BY <2>1, <2>2, <2>3, <2>4, <2>5, <2>6 DEF Start
<1> QED BY <1>1, TornFrame

LEMMA AdvanceTorn ==
  ASSUME IInv, NEW p \in Process, Advance(p)
  PROVE  Torn' \subseteq Torn /\ crashes' = crashes
<1>1. ASSUME NEW t \in Name, NEW v, NEW r, v # Empty,
             proc[p].pc = "write" => t = proc[p].tgt,
             file' = [file EXCEPT ![t] = v], proc' = [proc EXCEPT ![p] = r]
      PROVE  Torn' \subseteq Torn
  <2>1. file'[t] = v /\ \A n \in Name \ {t} : file'[n] = file[n]
    BY <1>1 DEF IInv, FilesOK
  <2> QED BY <1>1, <2>1, TornMove
<1>2. /\ proc[p] \in ProcType /\ RecOK(proc[p], obj)
      /\ \A c \in obj : c # Empty
      /\ \A b \in Branch : b # Empty
      /\ Absent # Empty
  BY ConstantsDistinct DEF IInv, ProcsOK, ObjectsOK
<1>3. CASE GetHeadCommit(p)
  <2>1. /\ proc[p].pc # "write" /\ UNCHANGED <<file, crashes>>
        /\ \E r : proc' = [proc EXCEPT ![p] = r]
    BY <1>3 DEF GetHeadCommit, Finish, storeVars
  <2> QED BY <2>1, TornFrame
<1>4. CASE CommitTree(p)
  <2>1. /\ proc[p].pc # "write" /\ UNCHANGED <<file, crashes>>
        /\ \E r : proc' = [proc EXCEPT ![p] = r]
    BY <1>4 DEF CommitTree
  <2> QED BY <2>1, TornFrame
<1>5. CASE Deref(p) \/ CheckHead(p) \/ CheckSpec(p)
  <2>1. /\ proc[p].pc # "write" /\ UNCHANGED <<file, crashes>>
        /\ \E r : proc' = [proc EXCEPT ![p] = r]
    BY <1>5 DEF Deref, CheckHead, CheckSpec, Goto, Finish, storeVars
  <2> QED BY <2>1, TornFrame
<1>6. CASE LogHead(p) \/ LogTarget(p) \/ CreateLog(p) \/ SymbolicRefLog(p)
  <2>1. /\ proc[p].pc # "write" /\ UNCHANGED <<file, crashes>>
        /\ \E r : proc' = [proc EXCEPT ![p] = r]
    BY <1>6 DEF LogHead, LogTarget, CreateLog, Creates, SymbolicRefLog, Goto, Finish
  <2> QED BY <2>1, TornFrame
<1>7. CASE Create(p)
  <2> DEFINE r == [proc[p] EXCEPT !.pc = "write"]
  <2>1. /\ proc[p].pc = "create" /\ crashes' = crashes
        /\ file' = [file EXCEPT ![proc[p].tgt] = Empty]
        /\ proc' = [proc EXCEPT ![p] = r]
    BY <1>7 DEF Create, Goto
  <2>2. r.pc = "write" /\ r.tgt = proc[p].tgt
    BY <1>2 DEF ProcType
  <2>3. \A n \in Name : file'[n] = Empty
          => file[n] = Empty \/ (r.pc = "write" /\ r.tgt = n)
    BY <2>1, <2>2 DEF IInv, FilesOK
  <2> HIDE DEF r
  <2> QED BY <2>1, <2>3, TornMove
<1>8. CASE WriteRef(p)
  <2>1. /\ proc[p].tgt \in Name /\ proc[p].val # Empty /\ crashes' = crashes
        /\ file' = [file EXCEPT ![proc[p].tgt] = proc[p].val]
        /\ proc' = [proc EXCEPT ![p] = IdleProc]
    BY <1>2, <1>8 DEF WriteRef, RecOK, Finish
  <2> QED BY <1>1, <2>1
<1>9. CASE WriteBranch(p)
  <2>1. /\ proc[p].tgt \in Name /\ proc[p].val # Empty /\ crashes' = crashes
        /\ file' = [file EXCEPT ![proc[p].tgt] = proc[p].val]
        /\ \E r : proc' = [proc EXCEPT ![p] = r]
    BY <1>2, <1>9 DEF WriteBranch, RecOK, Finish
  <2> QED BY <1>1, <2>1
<1>10. CASE Remove(p)
  <2>1. /\ proc[p].src \in Name /\ proc[p].pc # "write" /\ crashes' = crashes
        /\ file' = [file EXCEPT ![proc[p].src] = Absent]
        /\ proc' = [proc EXCEPT ![p] = IdleProc]
    BY <1>2, <1>10 DEF Remove, RecOK, Finish, Name
  <2> QED BY <1>1, <1>2, <2>1
<1>11. CASE WriteSymbolicRef(p)
  <2>1. /\ proc[p].tgt = HEAD /\ proc[p].val # Empty /\ crashes' = crashes
        /\ file' = [file EXCEPT ![HEAD] = proc[p].val]
        /\ \E r : proc' = [proc EXCEPT ![p] = r]
    BY <1>2, <1>11 DEF WriteSymbolicRef, RecOK, Finish, Goto
  <2> QED BY <1>1, <2>1 DEF Name
<1> QED BY <1>3, <1>4, <1>5, <1>6, <1>7, <1>8, <1>9, <1>10, <1>11 DEF Advance

\* A process that is killed tears at most the file it was filling.
LEMMA CrashTorn ==
  ASSUME IInv, NEW p \in Process, Crash(p)
  PROVE  Torn' \subseteq Torn \cup {proc[p].tgt} /\ crashes' = crashes + 1
<1>1. UNCHANGED file /\ proc' = [proc EXCEPT ![p] = IdleProc]
  BY DEF Crash, Finish, storeVars
<1> QED BY <1>1, TornMove DEF Crash

LEMMA NextTorn == TornInv /\ [Next]_vars => TornInv'
<1> SUFFICES ASSUME TornInv, [Next]_vars PROVE TornInv'
  OBVIOUS
<1>1. IInv /\ IInv' /\ crashes \in Nat
  BY NextInv, ConstantsDistinct DEF TornInv, IInv, CountersOK
<1>2. \/ Torn' \subseteq Torn /\ crashes' = crashes
      \/ \E p \in Process :
           Torn' \subseteq Torn \cup {proc[p].tgt} /\ crashes' = crashes + 1
  <2>1. CASE UNCHANGED vars
    BY <2>1 DEF vars, Torn, Writers
  <2>2. CASE Next
    BY <1>1, <2>2, StartTorn, AdvanceTorn, CrashTorn DEF Next
  <2> QED BY <2>1, <2>2
<1> QED BY <1>1, <1>2, BoundStep DEF TornInv

LEMMA InitTorn == Init => TornInv
<1> SUFFICES ASSUME Init PROVE TornInv
  OBVIOUS
<1>1. Torn = {}
  BY ConstantsDistinct DEF Init, Torn
<1>2. IsFiniteSet(Torn) /\ Cardinality(Torn) = 0
  BY <1>1, FS_EmptySet
<1> QED BY <1>2, InitInv DEF Init, TornInv

\* A ref file is empty only while a process is filling it: k kills, wherever
\* they strike and whatever else runs, leave at most k refs truncated.
THEOREM CrashesTearOneFile == Spec => []TornFilesBounded
<1>1. TornInv => TornFilesBounded
  BY DEF TornInv, TornFilesBounded, Torn
<1>2. Spec => []TornInv
  BY InitTorn, NextTorn, PTL DEF Spec
<1> QED BY <1>1, <1>2, PTL

-----------------------------------------------------------------------------
(***************************************************************************)
(* Commands that run one after the other are atomic.  The invariant Owes   *)
(* says how far the files have come from what the user saw last, for the   *)
(* record of the process at each program counter.  The step that ends a    *)
(* command then closes the distance to an abstract step.                   *)
(***************************************************************************)

\* Nothing has been stored, nothing has been renamed.
SameObjects == obj = seen.obj /\ parents = seen.parents
SameFiles == file = seen.file

Commits == {"commit", "amend"}
Renaming == Atomic!Attached /\ Atomic!Tip # ZeroId

\* The commit object a commit or amend has written is not in any history yet.
OwesObject(r) ==
  /\ r.old = Atomic!Tip
  /\ r.cmd = "amend" => Atomic!Tip # ZeroId
  /\ r.pc # "object" =>
       /\ r.kind = "ref"
       /\ r.val \in Commit \ seen.obj
       /\ obj = seen.obj \cup {r.val}
       /\ parents = [seen.parents EXCEPT ![r.val] =
                       IF r.cmd = "amend" THEN seen.parents[r.old]
                       ELSE IF r.old = ZeroId THEN {} ELSE {r.old}]
       /\ r.pc # "deref" => r.tgt = Atomic!Current

\* A file is emptied and then written.
OwesFile(r, f) ==
  /\ r.pc \in {"deref", "checkhead", "loghead", "newhead", "checkspec", "log",
               "newlog", "symlog", "create"} => file = f
  /\ r.pc = "write" => file = [f EXCEPT ![r.tgt] = Empty]

OwesBranch(r) ==
  /\ OwesFile(r, seen.file)
  /\ r.pc \in {"create", "write"}
  /\ r.cmd \in {"branch", "checkout -b", "branch -m"}
  /\ r.cmd = "checkout -b" => seen.file[r.tgt] = Absent
  /\ r.cmd = "branch -m" =>
       Renaming /\ r.src = seen.file[HEAD] /\ r.val = Atomic!Tip

\* HEAD is about to name the branch that was just made.
OwesSwitch(r, c) ==
  /\ OwesFile(r, [seen.file EXCEPT ![r.val] = c])
  /\ r.cmd = "checkout -b" => seen.file[r.val] = Absent
  /\ r.cmd = "branch -m" => Renaming /\ r.src = seen.file[HEAD] /\ c = Atomic!Tip
  /\ r.pc = "remove" => file = [seen.file EXCEPT ![r.val] = c, ![HEAD] = r.val]

OwesSym(r) ==
  /\ r.pc \in {"symlog", "create", "write", "remove"}
  /\ r.pc = "remove" => r.cmd = "branch -m"
  /\ \/ /\ r.cmd \in {"symbolic-ref", "checkout"}
        /\ OwesFile(r, seen.file)
     \/ /\ r.cmd \in {"checkout -b", "branch -m"}
        /\ \E c \in seen.obj : OwesSwitch(r, c)

Owes(r) ==
  /\ r.pc \in {"idle", "gethead", "object"} => SameFiles
  /\ r.cmd \in Commits /\ r.pc # "gethead"
       => r.pc # "idle" /\ OwesObject(r)
  /\ r.cmd \notin Commits \/ r.pc \in {"idle", "gethead", "object"} => SameObjects
  /\ r.pc \in {"gethead", "object"} => r.cmd \in Commits /\ r.kind = "none"
  /\ r.kind = "ref" => OwesFile(r, seen.file)
  /\ r.kind = "branch" => OwesBranch(r)
  /\ r.kind = "sym" => OwesSym(r)
  /\ r.kind # "sym" /\ r.pc = "remove" => SameFiles /\ r.cmd = "update-ref -d"
  /\ r.kind \in {"branch", "sym"} => r.cmd \notin Commits
  /\ r.cmd = "branch -m" => r.kind \in {"branch", "sym"}

SeenOK ==
  /\ seen.file \in [Name -> Commit \cup Branch \cup {Empty, Absent}]
  /\ seen.obj \in SUBSET Commit
  /\ seen.parents \in [Commit -> SUBSET Commit]

SInv == IInv /\ SeenOK /\ \A p \in Process : Owes(proc[p])

\* What the history variable does in a step of the only process.
Sees(p) == seen' = IF proc'[p].pc = "idle" THEN Store' ELSE seen

AbstractStep == [Atomic!Next]_(Atomic!vars)

-----------------------------------------------------------------------------

\* A process at a program counter, with the record it has there.
LEMMA GotoFields ==
  ASSUME IInv, NEW p \in Process, NEW l, Goto(p, l)
  PROVE  /\ proc'[p].pc = l /\ proc'[p].cmd = proc[p].cmd
         /\ proc'[p].kind = proc[p].kind /\ proc'[p].tgt = proc[p].tgt
         /\ proc'[p].val = proc[p].val /\ proc'[p].old = proc[p].old
         /\ proc'[p].src = proc[p].src
BY DEF Goto, IInv, ProcsOK, ProcType

LEMMA FinishFields ==
  ASSUME IInv, NEW p \in Process, Finish(p)
  PROVE  proc'[p] = IdleProc
BY DEF Finish, IInv, ProcsOK

\* What the invariants say of one record.
LEMMA RecordFacts ==
  ASSUME SInv, NEW p \in Process
  PROVE  /\ proc[p] \in ProcType /\ RecOK(proc[p], obj) /\ Owes(proc[p])
         /\ FilesOK /\ ObjectsOK /\ SeenOK
BY DEF SInv, IInv, ProcsOK

\* A command that has ended owes nothing.
LEMMA EndOwes ==
  ASSUME IInv, NEW p \in Process, Finish(p), Sees(p)
  PROVE  /\ Owes(proc[p])'
         /\ seen'.file = file' /\ seen'.obj = obj' /\ seen'.parents = parents'
<1>1. proc'[p] = IdleProc
  BY FinishFields
<1>2. seen' = Store'
  BY <1>1 DEF Sees, IdleProc
<1>3. seen'.file = file' /\ seen'.obj = obj' /\ seen'.parents = parents'
  BY <1>2 DEF Store
<1> QED BY <1>1, <1>3 DEF Owes, SameFiles, SameObjects, IdleProc, Commits

\* A command that ends without having changed anything.
LEMMA EndSame ==
  ASSUME SInv, NEW p \in Process, Finish(p), Sees(p), SameFiles, SameObjects,
         UNCHANGED <<file, obj, parents>>
  PROVE  Owes(proc[p])' /\ AbstractStep
BY EndOwes DEF SInv, AbstractStep, SameFiles, SameObjects, Atomic!vars

\* A command that goes on shows nothing.
LEMMA GoOn ==
  ASSUME NEW p \in Process, Sees(p), proc'[p].pc # "idle"
  PROVE  AbstractStep /\ seen' = seen
BY DEF Sees, AbstractStep, Atomic!vars

\* Emptying a file and filling it is writing it.
LEMMA Refill ==
  ASSUME NEW S, NEW T, NEW f \in [S -> T], NEW n, NEW v, NEW w
  PROVE  [[f EXCEPT ![n] = v] EXCEPT ![n] = w] = [f EXCEPT ![n] = w]
OBVIOUS

\* What a user saw at HEAD, while the files are still as they were seen.
LEMMA SeenTip ==
  ASSUME FilesOK, SameFiles
  PROVE  /\ HeadCommit = Atomic!Tip
         /\ Atomic!Attached => SymbolicHeadCommit = Atomic!Tip
         /\ RefCommit(Atomic!Current) = Atomic!Tip
         /\ Atomic!Current \in Branch <=> Atomic!Attached
         /\ Atomic!Current \in Name
         /\ Atomic!Attached <=> file[HEAD] \in Branch
BY ConstantsDistinct DEF FilesOK, SameFiles, HeadCommit, SymbolicHeadCommit,
   RefCommit, Atomic!Tip, Atomic!Current, Atomic!Attached, Name

-----------------------------------------------------------------------------
(* The steps. *)

LEMMA StartOwes ==
  ASSUME SInv, NEW p \in Process, Start(p), Sees(p)
  PROVE  Owes(proc[p])' /\ AbstractStep
<1>1. /\ proc[p].pc = "idle" /\ UNCHANGED <<file, obj, parents>>
  BY DEF Start, StartCommit, StartUpdateRef, StartBranch, StartRename,
     StartDelete, StartSymbolicRef, Starts, storeVars
<1>2. SameFiles /\ SameObjects
  BY <1>1, RecordFacts DEF Owes
<1>3. proc \in [Process -> ProcType] /\ FilesOK
  BY DEF SInv, IInv, ProcsOK
<1>4. ASSUME NEW c \in {"commit", "amend"}, StartCommit(p, c)
      PROVE  Owes(proc[p])' /\ AbstractStep
  <2>1. proc'[p].pc = "gethead" /\ proc'[p].cmd = c /\ proc'[p].kind = "none"
    BY <1>3, <1>4 DEF StartCommit, IdleProc
  <2>2. AbstractStep /\ seen' = seen
    BY <2>1, GoOn
  <2> QED BY <1>1, <1>2, <2>1, <2>2 DEF Owes, SameFiles, SameObjects, Commits
<1>5. ASSUME NEW n \in Name, NEW k \in UpdateRefCommands, NEW o, NEW c,
             StartUpdateRef(p, n, k, o, c)
      PROVE  Owes(proc[p])' /\ AbstractStep
  <2>1. /\ proc'[p].pc \in {"checkspec", "deref", "log"}
        /\ proc'[p].cmd = k /\ proc'[p].kind = "ref"
    BY <1>3, <1>5 DEF StartUpdateRef, IdleProc
  <2>2. AbstractStep /\ seen' = seen
    BY <2>1, GoOn
  <2> QED BY <1>1, <1>2, <2>1, <2>2 DEF Owes, OwesFile, SameFiles, SameObjects,
             Commits, UpdateRefCommands
<1>6. ASSUME NEW b \in Branch, NEW c \in obj, StartBranch(p, b, c)
      PROVE  Owes(proc[p])' /\ AbstractStep
  <2>1. PICK k \in {"branch", "checkout -b"} :
          /\ k = "checkout -b" => file[b] = Absent
          /\ proc' = [proc EXCEPT ![p] =
                        [IdleProc EXCEPT !.pc = "create", !.cmd = k,
                           !.kind = "branch", !.tgt = b, !.val = c]]
    BY <1>6 DEF StartBranch
  <2>3. /\ proc'[p].pc = "create" /\ proc'[p].cmd = k
        /\ proc'[p].kind = "branch" /\ proc'[p].tgt = b
    BY <1>3, <2>1 DEF IdleProc
  <2>2. AbstractStep /\ seen' = seen
    BY <2>3, GoOn
  <2> QED BY <1>1, <1>2, <2>1, <2>2, <2>3 DEF Owes, OwesBranch, OwesFile,
             SameFiles, SameObjects, Commits
<1>7. ASSUME NEW b \in Branch, StartRename(p, b)
      PROVE  Owes(proc[p])' /\ AbstractStep
  <2>1. /\ proc'[p].pc = "create" /\ proc'[p].cmd = "branch -m"
        /\ proc'[p].kind = "branch" /\ proc'[p].tgt = b
        /\ proc'[p].val = SymbolicHeadCommit /\ proc'[p].src = file[HEAD]
        /\ SymbolicHeadCommit # ZeroId
    BY <1>3, <1>7 DEF StartRename, IdleProc
  <2>2. AbstractStep /\ seen' = seen
    BY <2>1, GoOn
  <2>3. Renaming /\ SymbolicHeadCommit = Atomic!Tip
    BY <1>2, <1>3, <2>1, SeenTip DEF Renaming, SymbolicHeadCommit
  <2>4. Renaming' /\ Atomic!Tip' = Atomic!Tip
    BY <2>2, <2>3 DEF Renaming, Atomic!Tip, Atomic!Current, Atomic!Attached
  <2>5. OwesBranch(proc[p])'
    BY <1>1, <1>2, <2>1, <2>2, <2>3, <2>4 DEF OwesBranch, OwesFile, SameFiles
  <2> QED BY <1>1, <1>2, <2>1, <2>2, <2>5 DEF Owes, SameFiles, SameObjects, Commits
<1>8. ASSUME NEW b \in Branch, NEW o, StartDelete(p, b, o)
      PROVE  Owes(proc[p])' /\ AbstractStep
  <2>1. /\ proc'[p].pc = "remove" /\ proc'[p].cmd = "update-ref -d"
        /\ proc'[p].kind = "none"
    BY <1>3, <1>8 DEF StartDelete, IdleProc
  <2>2. AbstractStep /\ seen' = seen
    BY <2>1, GoOn
  <2> QED BY <1>1, <1>2, <2>1, <2>2 DEF Owes, SameFiles, SameObjects, Commits
<1>9. ASSUME NEW b \in Branch, StartSymbolicRef(p, b)
      PROVE  Owes(proc[p])' /\ AbstractStep
  <2>1. /\ proc'[p].pc \in {"create", "symlog"}
        /\ proc'[p].cmd \in {"symbolic-ref", "checkout"}
        /\ proc'[p].kind = "sym" /\ proc'[p].tgt = HEAD
    BY <1>3, <1>9 DEF StartSymbolicRef, IdleProc
  <2>2. AbstractStep /\ seen' = seen
    BY <2>1, GoOn
  <2> QED BY <1>1, <1>2, <2>1, <2>2 DEF Owes, OwesSym, OwesFile, SameFiles,
             SameObjects, Commits
<1> QED BY <1>4, <1>5, <1>6, <1>7, <1>8, <1>9 DEF Start

LEMMA GetHeadCommitOwes ==
  ASSUME SInv, NEW p \in Process, GetHeadCommit(p), Sees(p)
  PROVE  Owes(proc[p])' /\ AbstractStep
<1>1. /\ UNCHANGED <<file, obj, parents>> /\ proc[p].pc = "gethead"
      /\ proc \in [Process -> ProcType]
  BY DEF GetHeadCommit, storeVars, SInv, IInv, ProcsOK
<1>2. SameFiles /\ SameObjects /\ proc[p].cmd \in Commits
  BY <1>1, RecordFacts DEF Owes
<1>3. CASE Finish(p)
  BY <1>1, <1>2, <1>3, EndSame
<1>4. CASE /\ proc[p].cmd = "amend" => HeadCommit # ZeroId
           /\ proc' = [proc EXCEPT ![p].pc = "object", ![p].old = HeadCommit]
  <2>1. /\ proc'[p].pc = "object" /\ proc'[p].old = HeadCommit
        /\ proc'[p].cmd = proc[p].cmd /\ proc'[p].kind = proc[p].kind
    BY <1>1, <1>4 DEF ProcType
  <2>2. AbstractStep /\ seen' = seen
    BY <2>1, GoOn
  <2>3. HeadCommit = Atomic!Tip /\ Atomic!Tip' = Atomic!Tip
    BY <1>2, <2>2, SeenTip, RecordFacts DEF Atomic!Tip, Atomic!Current,
       Atomic!Attached
  <2>4. OwesObject(proc[p])'
    BY <1>4, <2>1, <2>3 DEF OwesObject
  <2>5. proc[p].kind = "none"
    BY <1>1, <1>2, RecordFacts DEF Owes, OwesBranch, OwesSym, ProcType
  <2> QED BY <1>1, <1>2, <2>1, <2>2, <2>4, <2>5 DEF Owes, SameFiles, SameObjects,
             Commits
<1> QED BY <1>3, <1>4 DEF GetHeadCommit

LEMMA CommitTreeOwes ==
  ASSUME SInv, NEW p \in Process, CommitTree(p), Sees(p)
  PROVE  Owes(proc[p])' /\ AbstractStep
<1>1. PICK c \in Commit \ obj :
        /\ obj' = obj \cup {c}
        /\ parents' = [parents EXCEPT ![c] = NewParents(p)]
        /\ proc' = [proc EXCEPT ![p].pc = "deref", ![p].val = c,
                                ![p].kind = "ref", ![p].mklog = TRUE]
  BY DEF CommitTree
<1>2. /\ proc[p].pc = "object" /\ file' = file
      /\ proc \in [Process -> ProcType]
  BY DEF CommitTree, SInv, IInv, ProcsOK
<1>3. /\ proc'[p].pc = "deref" /\ proc'[p].val = c /\ proc'[p].kind = "ref"
      /\ proc'[p].cmd = proc[p].cmd /\ proc'[p].old = proc[p].old
  BY <1>1, <1>2 DEF ProcType
<1>4. AbstractStep /\ seen' = seen
  BY <1>3, GoOn
<1>5. SameFiles /\ SameObjects /\ proc[p].cmd \in Commits /\ OwesObject(proc[p])
  BY <1>2, RecordFacts DEF Owes
<1>6. Atomic!Tip' = Atomic!Tip
  BY <1>4 DEF Atomic!Tip, Atomic!Current, Atomic!Attached
<1>7. NewParents(p) = IF proc[p].cmd = "amend" THEN seen.parents[proc[p].old]
                      ELSE IF proc[p].old = ZeroId THEN {} ELSE {proc[p].old}
  BY <1>5 DEF NewParents, SameObjects
<1>8. OwesObject(proc[p])'
  BY <1>1, <1>3, <1>4, <1>5, <1>6, <1>7 DEF OwesObject, SameObjects
<1>9. OwesFile(proc[p], seen.file)'
  BY <1>2, <1>3, <1>4, <1>5 DEF OwesFile, SameFiles
<1> QED BY <1>3, <1>4, <1>5, <1>8, <1>9 DEF Owes, Commits

\* Between the first step of UpdateRef and the write, an update moves on and
\* leaves the objects alone.
LEMMA UpdateGoesOn ==
  ASSUME SInv, NEW p \in Process, Sees(p),
         proc[p].kind = "ref", proc'[p].kind = "ref",
         proc[p].pc \in {"deref", "checkhead", "loghead", "newhead", "checkspec",
                         "log", "newlog", "create"},
         proc'[p].pc \in {"checkhead", "loghead", "newhead", "checkspec", "log",
                          "newlog", "create", "write"},
         proc'[p].cmd = proc[p].cmd, proc'[p].val = proc[p].val,
         proc'[p].old = proc[p].old,
         IF proc[p].pc = "deref" THEN proc'[p].tgt = Atomic!Current
                                 ELSE proc'[p].tgt = proc[p].tgt,
         UNCHANGED <<obj, parents>>,
         IF proc'[p].pc = "write"
           THEN proc[p].pc = "create" /\ file' = [file EXCEPT ![proc[p].tgt] = Empty]
           ELSE UNCHANGED file
  PROVE  Owes(proc[p])' /\ AbstractStep
<1>1. AbstractStep /\ seen' = seen
  BY GoOn
<1>2. Atomic!Tip' = Atomic!Tip /\ Atomic!Current' = Atomic!Current
  BY <1>1 DEF Atomic!Tip, Atomic!Current, Atomic!Attached
<1>3. Owes(proc[p]) /\ OwesFile(proc[p], seen.file)
  BY RecordFacts DEF Owes
<1>4. proc[p].cmd \in Commits => OwesObject(proc[p])' /\ proc'[p].pc # "object"
  BY <1>1, <1>2, <1>3 DEF Owes, OwesObject
<1>5. OwesFile(proc[p], seen.file)'
  BY <1>1, <1>3 DEF OwesFile
<1>6. proc[p].cmd \notin Commits => SameObjects'
  BY <1>1, <1>3 DEF Owes, SameObjects
<1>7. proc[p].cmd # "branch -m"
  BY <1>3 DEF Owes
<1> QED BY <1>1, <1>4, <1>5, <1>6, <1>7 DEF Owes

LEMMA DerefOwes ==
  ASSUME SInv, NEW p \in Process, Deref(p), Sees(p)
  PROVE  Owes(proc[p])' /\ AbstractStep
<1>1. /\ UNCHANGED <<file, obj, parents>> /\ proc[p].pc = "deref"
      /\ proc \in [Process -> ProcType]
  BY DEF Deref, storeVars, SInv, IInv, ProcsOK
<1>2. proc[p].kind = "ref"
  BY <1>1, RecordFacts DEF RecOK
<1>3. file = seen.file
  BY <1>1, <1>2, RecordFacts DEF Owes, OwesFile
<1>4. PICK l \in {"loghead", "checkhead", "log"} :
        proc' = [proc EXCEPT ![p].tgt = Atomic!Current, ![p].pc = l]
  BY <1>3 DEF Deref, Atomic!Current, Atomic!Attached
<1>5. /\ proc'[p].pc = l /\ proc'[p].tgt = Atomic!Current
      /\ proc'[p].kind = proc[p].kind /\ proc'[p].cmd = proc[p].cmd
      /\ proc'[p].val = proc[p].val /\ proc'[p].old = proc[p].old
  BY <1>1, <1>4 DEF ProcType
<1> QED BY <1>1, <1>2, <1>5, UpdateGoesOn

\* A commit goes on from what it read: nothing has moved HEAD meanwhile.
LEMMA CheckHeadOwes ==
  ASSUME SInv, NEW p \in Process, CheckHead(p), Sees(p)
  PROVE  Owes(proc[p])' /\ AbstractStep
<1>1. /\ UNCHANGED <<file, obj, parents>> /\ proc[p].pc = "checkhead"
  BY DEF CheckHead, storeVars
<1>2. proc[p].kind = "ref" /\ proc[p].tgt \in Branch
  BY <1>1, RecordFacts DEF RecOK
<1>3. SameFiles /\ Owes(proc[p])
  BY <1>1, <1>2, RecordFacts DEF Owes, OwesFile, SameFiles
<1>4. CASE Goto(p, "loghead")
  BY <1>1, <1>2, <1>4, GotoFields, UpdateGoesOn DEF SInv
<1>5. CASE Finish(p) /\ SymbolicHeadCommit # proc[p].old
  <2>1. proc[p].cmd \notin Commits
    <3> SUFFICES ASSUME proc[p].cmd \in Commits PROVE FALSE
      OBVIOUS
    <3>1. proc[p].old = Atomic!Tip /\ proc[p].tgt = Atomic!Current
      BY <1>1, <1>3 DEF Owes, OwesObject
    <3> QED BY <1>2, <1>3, <1>5, <3>1, SeenTip, RecordFacts
  <2> QED BY <1>1, <1>3, <1>5, <2>1, EndSame DEF Owes
<1> QED BY <1>4, <1>5 DEF CheckHead

LEMMA CheckSpecOwes ==
  ASSUME SInv, NEW p \in Process, CheckSpec(p), Sees(p)
  PROVE  Owes(proc[p])' /\ AbstractStep
<1>1. /\ UNCHANGED <<file, obj, parents>> /\ proc[p].pc = "checkspec"
  BY DEF CheckSpec, storeVars
<1>2. proc[p].kind = "ref"
  BY <1>1, RecordFacts DEF RecOK
<1>3. SameFiles /\ Owes(proc[p])
  BY <1>1, <1>2, RecordFacts DEF Owes, OwesFile, SameFiles
<1>4. CASE Goto(p, "log")
  BY <1>1, <1>2, <1>4, GotoFields, UpdateGoesOn DEF SInv
<1>5. CASE Finish(p) /\ ~OldValueMatches(p)
  <2>1. proc[p].cmd \notin Commits
    <3> SUFFICES ASSUME proc[p].cmd \in Commits PROVE FALSE
      OBVIOUS
    <3>1. proc[p].old = Atomic!Tip /\ proc[p].tgt = Atomic!Current
      BY <1>1, <1>3 DEF Owes, OwesObject
    <3> QED BY <1>3, <1>5, <3>1, SeenTip, RecordFacts DEF OldValueMatches
  <2> QED BY <1>1, <1>3, <1>5, <2>1, EndSame DEF Owes
<1> QED BY <1>4, <1>5 DEF CheckSpec

LEMMA LogOwes ==
  ASSUME SInv, NEW p \in Process,
         LogHead(p) \/ LogTarget(p) \/ CreateLog(p), Sees(p)
  PROVE  Owes(proc[p])' /\ AbstractStep
<1>1. /\ UNCHANGED <<file, obj, parents>>
      /\ proc[p].pc \in {"loghead", "newhead", "log", "newlog"}
  BY DEF LogHead, LogTarget, CreateLog, Creates
<1>2. PICK l \in {"loghead", "newhead", "checkspec", "log", "newlog", "create"} :
        Goto(p, l)
  BY DEF LogHead, LogTarget, CreateLog
<1>3. proc[p].kind = "ref"
  BY <1>1, RecordFacts DEF RecOK
<1> QED BY <1>1, <1>2, <1>3, GotoFields, UpdateGoesOn DEF SInv

LEMMA CreateOwes ==
  ASSUME SInv, NEW p \in Process, Create(p), Sees(p)
  PROVE  Owes(proc[p])' /\ AbstractStep
<1>1. /\ UNCHANGED <<obj, parents>> /\ proc[p].pc = "create"
      /\ Goto(p, "write") /\ file' = [file EXCEPT ![proc[p].tgt] = Empty]
  BY DEF Create
<1>2. /\ proc'[p].pc = "write" /\ proc'[p].cmd = proc[p].cmd
      /\ proc'[p].kind = proc[p].kind /\ proc'[p].tgt = proc[p].tgt
      /\ proc'[p].val = proc[p].val /\ proc'[p].old = proc[p].old
      /\ proc'[p].src = proc[p].src
  BY <1>1, GotoFields DEF SInv
<1>3. AbstractStep /\ seen' = seen
  BY <1>2, GoOn
<1>4. Owes(proc[p]) /\ proc[p].kind \in {"ref", "branch", "sym"}
  BY <1>1, RecordFacts DEF RecOK, ProcType
<1>5. CASE proc[p].kind = "ref"
  BY <1>1, <1>2, <1>5, UpdateGoesOn
<1>6. CASE proc[p].kind # "ref"
  <2>1. SameObjects /\ proc[p].cmd \notin Commits
    BY <1>4, <1>6 DEF Owes
  <2>2. ASSUME NEW f, OwesFile(proc[p], f)
        PROVE  proc'[p].pc = "write" /\ file' = [f EXCEPT ![proc'[p].tgt] = Empty]
    BY <1>1, <1>2, <2>2 DEF OwesFile
  <2>3. /\ Atomic!Tip' = Atomic!Tip /\ (Renaming => Renaming')
    BY <1>3 DEF Atomic!Tip, Atomic!Current, Atomic!Attached, Renaming
  <2>4. CASE proc[p].kind = "branch"
    <3>1. OwesBranch(proc[p])'
      <4>1. OwesBranch(proc[p])
        BY <1>4, <2>4 DEF Owes
      <4>2. OwesFile(proc[p], seen.file)'
        BY <1>2, <1>3, <2>2, <4>1 DEF OwesBranch, OwesFile
      <4> QED BY <1>2, <1>3, <2>3, <4>1, <4>2 DEF OwesBranch
    <3> QED BY <1>1, <1>2, <1>3, <2>1, <2>4, <3>1 DEF Owes, SameObjects
  <2>5. CASE proc[p].kind = "sym"
    <3>1. OwesSym(proc[p])
      BY <1>4, <2>5 DEF Owes
    <3>2. CASE proc[p].cmd \in {"symbolic-ref", "checkout"}
      <4>1. OwesFile(proc[p], seen.file)'
        BY <1>2, <1>3, <2>2, <3>1, <3>2 DEF OwesSym, OwesFile
      <4> QED BY <1>1, <1>2, <1>3, <2>1, <2>5, <3>2, <4>1 DEF Owes, OwesSym,
                 SameObjects
    <3>3. CASE proc[p].cmd \in {"checkout -b", "branch -m"}
      <4>1. PICK c \in seen.obj : OwesSwitch(proc[p], c)
        BY <3>1, <3>3 DEF OwesSym
      <4>2. file' = [[seen.file EXCEPT ![proc[p].val] = c]
                       EXCEPT ![proc[p].tgt] = Empty]
        BY <1>2, <2>2, <4>1 DEF OwesSwitch
      <4>3. /\ proc[p].cmd = "checkout -b" => seen.file[proc[p].val] = Absent
            /\ proc[p].cmd = "branch -m" =>
                 Renaming' /\ proc[p].src = seen.file[HEAD] /\ c = Atomic!Tip'
        BY <2>3, <4>1 DEF OwesSwitch
      <4>4. \E d \in seen'.obj :
              /\ OwesFile(proc[p], [seen.file EXCEPT ![proc[p].val] = d])'
              /\ proc'[p].cmd = "checkout -b" => seen'.file[proc'[p].val] = Absent
              /\ proc'[p].cmd = "branch -m" =>
                   Renaming' /\ proc'[p].src = seen'.file[HEAD] /\ d = Atomic!Tip'
        BY <1>2, <1>3, <4>2, <4>3 DEF OwesFile
      <4>5. OwesSym(proc[p])'
        BY <1>2, <1>3, <3>3, <4>4 DEF OwesSym, OwesSwitch
      <4> QED BY <1>1, <1>2, <1>3, <2>1, <2>5, <4>5 DEF Owes, SameObjects
    <3> QED BY <3>1, <3>2, <3>3 DEF OwesSym
  <2> QED BY <1>4, <1>6, <2>4, <2>5
<1> QED BY <1>5, <1>6

\* The write of a commit or of an update-ref ends in the abstract step.
LEMMA WriteRefOwes ==
  ASSUME SInv, NEW p \in Process, WriteRef(p), Sees(p)
  PROVE  Owes(proc[p])' /\ AbstractStep
<1>1. /\ UNCHANGED <<obj, parents>> /\ Finish(p)
      /\ proc[p].pc = "write" /\ proc[p].kind = "ref"
      /\ file' = [file EXCEPT ![proc[p].tgt] = proc[p].val]
  BY DEF WriteRef
<1>2. /\ Owes(proc[p])' /\ seen'.file = file' /\ seen'.obj = obj'
      /\ seen'.parents = parents'
  BY <1>1, EndOwes DEF SInv
<1>3. Owes(proc[p]) /\ RecOK(proc[p], obj) /\ SeenOK /\ obj \subseteq Commit
  BY RecordFacts DEF ObjectsOK
<1>4. file = [seen.file EXCEPT ![proc[p].tgt] = Empty]
  BY <1>1, <1>3 DEF Owes, OwesFile
<1>5. seen'.file = [seen.file EXCEPT ![proc[p].tgt] = proc[p].val]
  BY <1>1, <1>2, <1>3, <1>4, Refill DEF SeenOK
<1>6. proc[p].val \in obj /\ proc[p].tgt \in Name
  BY <1>1, <1>3 DEF RecOK
<1>7. CASE proc[p].cmd \in Commits
  <2>1. OwesObject(proc[p])
    BY <1>1, <1>3, <1>7 DEF Owes
  <2> DEFINE c == proc[p].val
             ps == IF proc[p].cmd = "amend" THEN seen.parents[Atomic!Tip]
                   ELSE IF Atomic!Tip = ZeroId THEN {} ELSE {Atomic!Tip}
  <2>2. /\ c \in Commit \ seen.obj
        /\ seen'.obj = seen.obj \cup {c}
        /\ seen'.parents = [seen.parents EXCEPT ![c] = ps]
        /\ seen'.file = [seen.file EXCEPT ![Atomic!Current] = c]
        /\ proc[p].cmd = "amend" => Atomic!Tip # ZeroId
    BY <1>1, <1>2, <1>5, <2>1 DEF OwesObject
  <2>3. Atomic!NewCommit(c, ps)
    BY <2>2 DEF Atomic!NewCommit
  <2>4. Atomic!CommitOnTip(c) \/ Atomic!Amend(c)
    BY <2>2, <2>3 DEF Atomic!CommitOnTip, Atomic!Amend
  <2> QED BY <1>2, <2>2, <2>4 DEF AbstractStep, Atomic!Next
<1>8. CASE proc[p].cmd \notin Commits
  <2>1. seen'.obj = seen.obj /\ seen'.parents = seen.parents
    BY <1>1, <1>2, <1>3, <1>8 DEF Owes, SameObjects
  <2>2. proc[p].val \in seen.obj /\ proc[p].val \in Commit
    BY <1>3, <1>6, <1>8 DEF Owes, SameObjects
  <2>3. CASE proc[p].tgt = HEAD
    BY <1>2, <1>5, <2>1, <2>2, <2>3 DEF AbstractStep, Atomic!Next, Atomic!Detach,
       Atomic!Refs
  <2>4. CASE proc[p].tgt \in Branch
    BY <1>2, <1>5, <2>1, <2>2, <2>4 DEF AbstractStep, Atomic!Next,
       Atomic!SetBranch, Atomic!Refs
  <2> QED BY <1>6, <2>3, <2>4 DEF Name
<1> QED BY <1>7, <1>8

\* branch ends here; checkout -b and branch -m go on to HEAD.
LEMMA WriteBranchOwes ==
  ASSUME SInv, NEW p \in Process, WriteBranch(p), Sees(p)
  PROVE  Owes(proc[p])' /\ AbstractStep
<1>1. /\ UNCHANGED <<obj, parents>> /\ proc[p].pc = "write"
      /\ proc[p].kind = "branch" /\ proc \in [Process -> ProcType]
      /\ file' = [file EXCEPT ![proc[p].tgt] = proc[p].val]
  BY DEF WriteBranch, SInv, IInv, ProcsOK
<1>2. /\ Owes(proc[p]) /\ RecOK(proc[p], obj) /\ SeenOK /\ obj \subseteq Commit
  BY RecordFacts DEF ObjectsOK
<1>3. OwesBranch(proc[p]) /\ SameObjects /\ proc[p].cmd \notin Commits
  BY <1>1, <1>2 DEF Owes
<1>4. file' = [seen.file EXCEPT ![proc[p].tgt] = proc[p].val]
  BY <1>1, <1>2, <1>3, Refill DEF OwesBranch, OwesFile, SeenOK
<1>5. proc[p].val \in seen.obj /\ proc[p].val \in Commit /\ proc[p].tgt \in Branch
  BY <1>1, <1>2, <1>3 DEF RecOK, SameObjects
<1>6. CASE proc[p].cmd = "branch"
  <2>1. Finish(p)
    BY <1>6 DEF WriteBranch
  <2>2. /\ Owes(proc[p])' /\ seen'.file = file' /\ seen'.obj = obj'
        /\ seen'.parents = parents'
    BY <2>1, EndOwes DEF SInv
  <2>3. Atomic!SetBranch(proc[p].tgt, proc[p].val)
    BY <1>1, <1>3, <1>4, <1>5, <2>2 DEF Atomic!SetBranch, Atomic!Refs, SameObjects
  <2> QED BY <1>5, <2>2, <2>3 DEF AbstractStep, Atomic!Next
<1>7. CASE proc[p].cmd # "branch"
  <2>1. /\ proc'[p].pc = "symlog" /\ proc'[p].kind = "sym"
        /\ proc'[p].val = proc[p].tgt /\ proc'[p].cmd = proc[p].cmd
        /\ proc'[p].src = proc[p].src
    BY <1>1, <1>7 DEF WriteBranch, ProcType
  <2>2. AbstractStep /\ seen' = seen
    BY <2>1, GoOn
  <2>3. Atomic!Tip' = Atomic!Tip /\ (Renaming => Renaming')
    BY <2>2 DEF Atomic!Tip, Atomic!Current, Atomic!Attached, Renaming
  <2>4. OwesSym(proc[p])'
    <3>1. \E d \in seen'.obj :
            /\ OwesFile(proc[p], [seen.file EXCEPT ![proc[p].val] = d])'
            /\ proc'[p].cmd = "checkout -b" => seen'.file[proc'[p].val] = Absent
            /\ proc'[p].cmd = "branch -m" =>
                 Renaming' /\ proc'[p].src = seen'.file[HEAD] /\ d = Atomic!Tip'
      BY <1>3, <1>4, <1>5, <2>1, <2>2, <2>3 DEF OwesFile, OwesBranch
    <3> QED BY <1>3, <1>7, <2>1, <3>1 DEF OwesSym, OwesSwitch, OwesBranch
  <2> QED BY <1>1, <1>3, <2>1, <2>2, <2>4 DEF Owes, SameObjects
<1> QED BY <1>6, <1>7

\* A refused switch leaves the new branch behind, which is a step of its own.
LEMMA SymbolicRefLogOwes ==
  ASSUME SInv, NEW p \in Process, SymbolicRefLog(p), Sees(p)
  PROVE  Owes(proc[p])' /\ AbstractStep
<1>1. /\ UNCHANGED <<file, obj, parents>> /\ proc[p].pc = "symlog"
      /\ Finish(p) \/ Goto(p, "create")
  BY DEF SymbolicRefLog
<1>2. Owes(proc[p]) /\ RecOK(proc[p], obj) /\ obj \subseteq Commit
  BY RecordFacts DEF ObjectsOK
<1>3. proc[p].kind = "sym" /\ proc[p].val \in Branch
  BY <1>1, <1>2 DEF RecOK
<1>4. OwesSym(proc[p]) /\ SameObjects /\ proc[p].cmd \notin Commits
  BY <1>1, <1>2, <1>3 DEF Owes
<1>5. CASE Finish(p)
  <2>1. /\ Owes(proc[p])' /\ seen'.file = file' /\ seen'.obj = obj'
        /\ seen'.parents = parents'
    BY <1>5, EndOwes DEF SInv
  <2>2. CASE proc[p].cmd \in {"symbolic-ref", "checkout"}
    BY <1>1, <1>4, <2>1, <2>2 DEF OwesSym, OwesFile, SameObjects, AbstractStep,
       Atomic!vars
  <2>3. CASE proc[p].cmd \in {"checkout -b", "branch -m"}
    <3>1. PICK c \in seen.obj : OwesSwitch(proc[p], c)
      BY <1>4, <2>3 DEF OwesSym
    <3>2. file = [seen.file EXCEPT ![proc[p].val] = c]
      BY <1>1, <3>1 DEF OwesSwitch, OwesFile
    <3>3. Atomic!SetBranch(proc[p].val, c) /\ c \in Commit
      BY <1>1, <1>2, <1>4, <2>1, <3>2 DEF Atomic!SetBranch, Atomic!Refs, SameObjects
    <3> QED BY <1>3, <2>1, <3>3 DEF AbstractStep, Atomic!Next
  <2> QED BY <1>4, <2>2, <2>3 DEF OwesSym
<1>6. CASE Goto(p, "create")
  <2>1. /\ proc'[p].pc = "create" /\ proc'[p].cmd = proc[p].cmd
        /\ proc'[p].kind = proc[p].kind /\ proc'[p].tgt = proc[p].tgt
        /\ proc'[p].val = proc[p].val /\ proc'[p].src = proc[p].src
    BY <1>6, GotoFields DEF SInv
  <2>2. AbstractStep /\ seen' = seen
    BY <2>1, GoOn
  <2>3. Atomic!Tip' = Atomic!Tip /\ (Renaming => Renaming')
    BY <2>2 DEF Atomic!Tip, Atomic!Current, Atomic!Attached, Renaming
  <2>4. CASE proc[p].cmd \in {"symbolic-ref", "checkout"}
    <3>1. OwesFile(proc[p], seen.file)'
      BY <1>1, <1>4, <2>1, <2>2, <2>4 DEF OwesSym, OwesFile
    <3> QED BY <1>1, <1>3, <1>4, <2>1, <2>2, <2>4, <3>1 DEF Owes, OwesSym,
               SameObjects
  <2>5. CASE proc[p].cmd \in {"checkout -b", "branch -m"}
    <3>1. PICK c \in seen.obj : OwesSwitch(proc[p], c)
      BY <1>4, <2>5 DEF OwesSym
    <3>2. \E d \in seen'.obj :
            /\ OwesFile(proc[p], [seen.file EXCEPT ![proc[p].val] = d])'
            /\ proc'[p].cmd = "checkout -b" => seen'.file[proc'[p].val] = Absent
            /\ proc'[p].cmd = "branch -m" =>
                 Renaming' /\ proc'[p].src = seen'.file[HEAD] /\ d = Atomic!Tip'
      BY <1>1, <2>1, <2>2, <2>3, <3>1 DEF OwesFile, OwesSwitch
    <3>3. OwesSym(proc[p])'
      BY <2>1, <2>2, <2>5, <3>2 DEF OwesSym, OwesSwitch
    <3> QED BY <1>1, <1>3, <1>4, <2>1, <2>2, <3>3 DEF Owes, SameObjects
  <2> QED BY <1>4, <2>4, <2>5 DEF OwesSym
<1> QED BY <1>1, <1>5, <1>6

\* HEAD is switched: a rename has still the old branch to remove.
LEMMA WriteSymbolicRefOwes ==
  ASSUME SInv, NEW p \in Process, WriteSymbolicRef(p), Sees(p)
  PROVE  Owes(proc[p])' /\ AbstractStep
<1>1. /\ UNCHANGED <<obj, parents>> /\ proc[p].pc = "write"
      /\ proc[p].kind = "sym"
      /\ file' = [file EXCEPT ![HEAD] = proc[p].val]
  BY DEF WriteSymbolicRef
<1>2. /\ Owes(proc[p]) /\ RecOK(proc[p], obj) /\ SeenOK /\ obj \subseteq Commit
  BY RecordFacts DEF ObjectsOK
<1>3. proc[p].val \in Branch /\ proc[p].tgt = HEAD
  BY <1>1, <1>2 DEF RecOK
<1>4. OwesSym(proc[p]) /\ SameObjects /\ proc[p].cmd \notin Commits
  BY <1>1, <1>2 DEF Owes
<1>5. CASE proc[p].cmd \in {"symbolic-ref", "checkout"}
  <2>1. Finish(p)
    BY <1>5 DEF WriteSymbolicRef
  <2>2. /\ Owes(proc[p])' /\ seen'.file = file' /\ seen'.obj = obj'
        /\ seen'.parents = parents'
    BY <2>1, EndOwes DEF SInv
  <2>3. file = [seen.file EXCEPT ![HEAD] = Empty]
    BY <1>1, <1>3, <1>4, <1>5 DEF OwesSym, OwesFile
  <2>4. file' = [seen.file EXCEPT ![HEAD] = proc[p].val]
    BY <1>1, <1>2, <2>3, Refill DEF SeenOK
  <2>5. Atomic!Switch(proc[p].val)
    BY <1>1, <1>4, <2>2, <2>4 DEF Atomic!Switch, Atomic!Refs, SameObjects
  <2> QED BY <1>3, <2>2, <2>5 DEF AbstractStep, Atomic!Next
<1>6. CASE proc[p].cmd \in {"checkout -b", "branch -m"}
  <2>1. PICK c \in seen.obj : OwesSwitch(proc[p], c)
    BY <1>4, <1>6 DEF OwesSym
  <2> DEFINE made1 == [seen.file EXCEPT ![proc[p].val] = c]
  <2>2. made1 \in [Name -> Commit \cup Branch \cup {Empty, Absent}]
        /\ c \in Commit
    BY <1>2, <1>4 DEF SeenOK, SameObjects
  <2>3. file = [made1 EXCEPT ![HEAD] = Empty]
    BY <1>1, <1>3, <2>1 DEF OwesSwitch, OwesFile
  <2>4. file' = [made1 EXCEPT ![HEAD] = proc[p].val]
    <3> HIDE DEF made1
    <3> QED BY <1>1, <2>2, <2>3, Refill
  <2>5. CASE proc[p].cmd = "checkout -b"
    <3>1. Finish(p)
      BY <2>5 DEF WriteSymbolicRef
    <3>2. /\ Owes(proc[p])' /\ seen'.file = file' /\ seen'.obj = obj'
          /\ seen'.parents = parents'
      BY <3>1, EndOwes DEF SInv
    <3>3. Atomic!SwitchToNew(proc[p].val, c)
      BY <1>1, <1>4, <2>1, <2>4, <2>5, <3>2 DEF Atomic!SwitchToNew, Atomic!Refs,
         SameObjects, OwesSwitch
    <3> QED BY <1>3, <2>2, <3>2, <3>3 DEF AbstractStep, Atomic!Next
  <2>6. CASE proc[p].cmd = "branch -m"
    <3>1. Goto(p, "remove")
      BY <2>6 DEF WriteSymbolicRef
    <3>2. /\ proc'[p].pc = "remove" /\ proc'[p].cmd = proc[p].cmd
          /\ proc'[p].kind = proc[p].kind /\ proc'[p].tgt = proc[p].tgt
          /\ proc'[p].val = proc[p].val /\ proc'[p].src = proc[p].src
      BY <3>1, GotoFields DEF SInv
    <3>3. AbstractStep /\ seen' = seen
      BY <3>2, GoOn
    <3>4. Atomic!Tip' = Atomic!Tip /\ (Renaming => Renaming')
      BY <3>3 DEF Atomic!Tip, Atomic!Current, Atomic!Attached, Renaming
    <3>5. \E d \in seen'.obj :
            /\ OwesFile(proc[p], [seen.file EXCEPT ![proc[p].val] = d])'
            /\ Renaming' /\ proc'[p].src = seen'.file[HEAD] /\ d = Atomic!Tip'
            /\ file' = [seen'.file EXCEPT ![proc'[p].val] = d,
                                          ![HEAD] = proc'[p].val]
      BY <2>1, <2>4, <2>6, <3>2, <3>3, <3>4 DEF OwesFile, OwesSwitch
    <3>6. OwesSym(proc[p])'
      BY <2>6, <3>2, <3>5 DEF OwesSym, OwesSwitch
    <3> QED BY <1>1, <1>4, <3>2, <3>3, <3>6 DEF Owes, SameObjects
  <2> QED BY <1>6, <2>5, <2>6
<1> QED BY <1>4, <1>5, <1>6 DEF OwesSym

\* update-ref -d, and the end of a rename.
LEMMA RemoveOwes ==
  ASSUME SInv, NEW p \in Process, Remove(p), Sees(p)
  PROVE  Owes(proc[p])' /\ AbstractStep
<1>1. /\ UNCHANGED <<obj, parents>> /\ proc[p].pc = "remove" /\ Finish(p)
      /\ file' = [file EXCEPT ![proc[p].src] = Absent]
  BY DEF Remove
<1>2. /\ Owes(proc[p]) /\ RecOK(proc[p], obj)
  BY RecordFacts
<1>3. proc[p].src \in Branch
  BY <1>1, <1>2 DEF RecOK
<1>4. /\ Owes(proc[p])' /\ seen'.file = file' /\ seen'.obj = obj'
      /\ seen'.parents = parents'
  BY <1>1, EndOwes DEF SInv
<1>5. CASE proc[p].kind # "sym"
  <2>1. SameFiles /\ SameObjects
    BY <1>1, <1>2, <1>5 DEF Owes, Commits
  <2>2. Atomic!DeleteBranch(proc[p].src)
    BY <1>1, <1>4, <2>1 DEF Atomic!DeleteBranch, Atomic!Refs, SameFiles, SameObjects
  <2> QED BY <1>3, <1>4, <2>2 DEF AbstractStep, Atomic!Next
<1>6. CASE proc[p].kind = "sym"
  <2>1. OwesSym(proc[p]) /\ SameObjects /\ proc[p].val \in Branch
    BY <1>1, <1>2, <1>6 DEF Owes, RecOK
  <2>2. PICK c \in seen.obj : OwesSwitch(proc[p], c)
    BY <1>1, <2>1 DEF OwesSym
  <2>3. /\ proc[p].cmd = "branch -m" /\ Renaming
        /\ proc[p].src = seen.file[HEAD] /\ c = Atomic!Tip
        /\ file = [seen.file EXCEPT ![proc[p].val] = c, ![HEAD] = proc[p].val]
    BY <1>1, <2>1, <2>2 DEF OwesSym, OwesSwitch
  <2>4. Atomic!Rename(proc[p].val)
    BY <1>1, <1>4, <2>1, <2>3 DEF Atomic!Rename, Atomic!Refs, SameObjects, Renaming
  <2> QED BY <1>4, <2>1, <2>4 DEF AbstractStep, Atomic!Next
<1> QED BY <1>5, <1>6

-----------------------------------------------------------------------------

\* One command at a time, none of them killed.
OneAtATime == (\A p, q \in Process : p = q) /\ MaxCrashes = 0

LEMMA SerialInit == HInit => SInv /\ Atomic!Init
<1> SUFFICES ASSUME HInit PROVE SInv /\ Atomic!Init
  OBVIOUS
<1>1. IInv /\ seen = Store
  BY InitInv DEF HInit
<1>2. seen.file = file /\ seen.obj = obj /\ seen.parents = parents
  BY <1>1 DEF Store
<1>3. SeenOK
  BY <1>1, <1>2 DEF SeenOK, IInv, FilesOK, ObjectsOK
<1>4. \A p \in Process : Owes(proc[p])
  BY <1>2 DEF HInit, Init, Owes, SameFiles, SameObjects, IdleProc, Commits
<1>5. Atomic!Init
  BY <1>2 DEF HInit, Init, Atomic!Init, Name
<1> QED BY <1>1, <1>3, <1>4, <1>5 DEF SInv

LEMMA SerialStep ==
  ASSUME OneAtATime, SInv, [HNext]_hvars
  PROVE  SInv' /\ AbstractStep
<1>1. CASE UNCHANGED hvars
  <2>1. UNCHANGED vars /\ UNCHANGED seen
    BY <1>1 DEF hvars
  <2>2. IInv'
    BY <2>1, NextInv DEF SInv
  <2>3. AbstractStep /\ SeenOK'
    BY <2>1 DEF SInv, SeenOK, AbstractStep, Atomic!vars
  <2>4. ASSUME NEW p \in Process PROVE Owes(proc[p])'
    <3>1. Owes(proc[p]) /\ UNCHANGED <<file, obj, parents, seen, proc>>
      BY <2>1 DEF SInv, vars
    <3>2. /\ Atomic!Tip' = Atomic!Tip /\ Atomic!Current' = Atomic!Current
          /\ Renaming' = Renaming
      BY <3>1 DEF Renaming, Atomic!Tip, Atomic!Current, Atomic!Attached
    <3>3. OwesObject(proc[p])' = OwesObject(proc[p])
      BY <3>1, <3>2 DEF OwesObject
    <3>4. OwesBranch(proc[p])' = OwesBranch(proc[p])
      BY <3>1, <3>2 DEF OwesBranch, OwesFile
    <3>5. OwesSym(proc[p])' = OwesSym(proc[p])
      BY <3>1, <3>2 DEF OwesSym, OwesSwitch, OwesFile
    <3> QED BY <3>1, <3>3, <3>4, <3>5 DEF Owes, OwesFile, SameFiles, SameObjects
  <2> QED BY <2>2, <2>3, <2>4 DEF SInv
<1>2. CASE HNext
  <2>1. PICK p \in Process : Start(p) \/ Advance(p) \/ Crash(p)
    BY <1>2 DEF HNext, Next
  <2>2. Sees(p)
    BY <1>2 DEF HNext, OneAtATime, Sees
  <2>3. ~Crash(p)
    BY DEF OneAtATime, Crash, SInv, IInv, CountersOK
  <2>4. Owes(proc[p])' /\ AbstractStep
    BY <2>1, <2>2, <2>3, StartOwes, GetHeadCommitOwes, CommitTreeOwes, DerefOwes,
       CheckHeadOwes, LogOwes, CheckSpecOwes, CreateOwes, WriteRefOwes,
       WriteBranchOwes, RemoveOwes, SymbolicRefLogOwes, WriteSymbolicRefOwes
       DEF Advance
  <2>5. IInv'
    BY <1>2, NextInv DEF SInv, HNext
  <2>6. SeenOK'
    <3>1. seen' \in {Store', seen}
      BY <2>2 DEF Sees
    <3> QED BY <2>5, <3>1 DEF SInv, SeenOK, Store, IInv, FilesOK, ObjectsOK
  <2> QED BY <2>4, <2>5, <2>6 DEF SInv, OneAtATime
<1> QED BY <1>1, <1>2

\* Between two commands a user sees only what whole commands have done.
THEOREM CommandsAreAtomic ==
  ASSUME OneAtATime
  PROVE  HSpec => ImplementsAtomicRefs
<1>1. HInit => SInv /\ Atomic!Init
  BY SerialInit
<1>2. SInv /\ [HNext]_hvars => SInv' /\ [Atomic!Next]_(Atomic!vars)
  BY SerialStep DEF AbstractStep
<1> QED BY <1>1, <1>2, PTL DEF HSpec, ImplementsAtomicRefs, Atomic!Spec

\* Wherever branch -m stops, the renamed commit is under one of the two names,
\* and a HEAD that is not empty leads to it.
THEOREM RenamesKeepTip ==
  ASSUME OneAtATime
  PROVE  HSpec => []RenameKeepsTip
<1>1. HInit => SInv
  BY SerialInit
<1>2. SInv /\ [HNext]_hvars => SInv'
  BY SerialStep
<1>3. SInv => RenameKeepsTip
  <2> SUFFICES ASSUME SInv, NEW p \in Process, proc[p].cmd = "branch -m",
                      proc[p].src # NewName(proc[p])
               PROVE  /\ seen.file[proc[p].src]
                           \in {file[proc[p].src], file[NewName(proc[p])]}
                      /\ file[HEAD] \in Branch
                           => file[file[HEAD]] = seen.file[proc[p].src]
    BY DEF RenameKeepsTip
  <2>1. Owes(proc[p]) /\ RecOK(proc[p], obj) /\ SeenOK /\ proc[p] \in ProcType
    BY RecordFacts
  <2>2. proc[p].kind \in {"branch", "sym"}
    BY <2>1 DEF Owes, ProcType, RecOK, Commits
  <2>3. CASE proc[p].kind = "branch"
    <3>1. /\ OwesBranch(proc[p]) /\ proc[p].tgt \in Branch
          /\ NewName(proc[p]) = proc[p].tgt
      BY <2>1, <2>3 DEF Owes, RecOK, NewName
    <3>2. /\ file \in {seen.file, [seen.file EXCEPT ![proc[p].tgt] = Empty]}
          /\ proc[p].src = seen.file[HEAD] /\ proc[p].src \in Branch
      BY <2>1, <3>1 DEF OwesBranch, OwesFile, RecOK
    <3>3. file[HEAD] = proc[p].src /\ file[proc[p].src] = seen.file[proc[p].src]
      BY <2>1, <3>1, <3>2, ConstantsDistinct DEF SeenOK, Name
    <3> QED BY <3>3
  <2>4. CASE proc[p].kind = "sym"
    <3>1. /\ OwesSym(proc[p]) /\ proc[p].val \in Branch /\ proc[p].tgt = HEAD
          /\ NewName(proc[p]) = proc[p].val
      BY <2>1, <2>4 DEF Owes, RecOK, NewName
    <3>2. PICK c \in seen.obj : OwesSwitch(proc[p], c)
      BY <3>1 DEF OwesSym
    <3>3. /\ proc[p].src = seen.file[HEAD] /\ proc[p].src \in Branch
          /\ c = Atomic!Tip /\ Renaming
      BY <2>1, <3>2 DEF OwesSwitch, RecOK
    <3>4. seen.file[proc[p].src] = c
      BY <3>3 DEF Renaming, Atomic!Tip, Atomic!Current, Atomic!Attached
    <3>5. \/ file = [seen.file EXCEPT ![proc[p].val] = c]
          \/ file = [[seen.file EXCEPT ![proc[p].val] = c] EXCEPT ![HEAD] = Empty]
          \/ file = [seen.file EXCEPT ![proc[p].val] = c, ![HEAD] = proc[p].val]
      BY <3>1, <3>2 DEF OwesSym, OwesSwitch, OwesFile
    <3>6. /\ proc[p].val # HEAD /\ proc[p].src # HEAD
          /\ {HEAD, proc[p].val, proc[p].src} \subseteq DOMAIN seen.file
      <4>1. DOMAIN seen.file = Branch \cup {HEAD}
        BY <2>1 DEF SeenOK, Name
      <4>2. HEAD \notin Branch
        BY ConstantsDistinct
      <4> QED BY <3>1, <3>3, <4>1, <4>2
    <3>7. /\ file[proc[p].val] = c /\ file[proc[p].src] = c
          /\ file[HEAD] \in {proc[p].src, Empty, proc[p].val}
      <4>1. CASE file = [seen.file EXCEPT ![proc[p].val] = c]
        BY <3>3, <3>4, <3>6, <4>1
      <4>2. CASE file = [[seen.file EXCEPT ![proc[p].val] = c] EXCEPT ![HEAD] = Empty]
        BY <3>3, <3>4, <3>6, <4>2
      <4>3. CASE file = [seen.file EXCEPT ![proc[p].val] = c, ![HEAD] = proc[p].val]
        BY <3>3, <3>4, <3>6, <4>3
      <4> QED BY <3>5, <4>1, <4>2, <4>3
    <3> QED BY <3>1, <3>4, <3>7, ConstantsDistinct
  <2> QED BY <2>2, <2>3, <2>4
<1> QED BY <1>1, <1>2, <1>3, PTL DEF HSpec

-----------------------------------------------------------------------------
(***************************************************************************)
(* Compare and swap.  What CheckSpec compared is what Create truncates     *)
(* when no other process runs in between; kills do no harm.                *)
(***************************************************************************)

Compared ==
  \A p \in Process :
    /\ proc[p].pc \in {"log", "newlog", "create"} /\ proc[p].kind = "ref"
    /\ proc[p].tgt \in Branch /\ proc[p].old # Nil
    => RefCommit(proc[p].tgt) = proc[p].old

LEMMA ComparedStep ==
  ASSUME \A p, q \in Process : p = q, IInv, Compared, Next
  PROVE  Compared'
<1>1. PICK p \in Process : Start(p) \/ Advance(p) \/ Crash(p)
  BY DEF Next
<1>2. /\ proc \in [Process -> ProcType] /\ proc[p] \in ProcType
      /\ RecOK(proc[p], obj)
  BY DEF IInv, ProcsOK
<1> DEFINE Due == /\ proc'[p].pc \in {"log", "newlog", "create"}
                  /\ proc'[p].kind = "ref"
                  /\ proc'[p].tgt \in Branch /\ proc'[p].old # Nil
<1> SUFFICES ASSUME Due PROVE RefCommit(proc[p].tgt)' = proc'[p].old
  BY DEF Compared
<1>3. ASSUME NEW n \in Name, NEW k \in UpdateRefCommands, NEW o, NEW c,
             StartUpdateRef(p, n, k, o, c)
      PROVE  FALSE
  BY <1>2, <1>3 DEF StartUpdateRef, IdleProc
<1>4. ~Start(p)
  <2>1. ASSUME NEW c, StartCommit(p, c) PROVE FALSE
    BY <1>2, <2>1 DEF StartCommit, IdleProc
  <2>2. ASSUME NEW b, NEW c, StartBranch(p, b, c) PROVE FALSE
    <3>1. PICK k : proc' = [proc EXCEPT ![p] =
                              [IdleProc EXCEPT !.pc = "create", !.cmd = k,
                                 !.kind = "branch", !.tgt = b, !.val = c]]
      BY <2>2 DEF StartBranch
    <3> QED BY <1>2, <3>1 DEF IdleProc
  <2>3. ASSUME NEW b, StartRename(p, b) PROVE FALSE
    BY <1>2, <2>3 DEF StartRename, IdleProc
  <2>4. ASSUME NEW b, NEW o, StartDelete(p, b, o) PROVE FALSE
    BY <1>2, <2>4 DEF StartDelete, IdleProc
  <2>5. ASSUME NEW b, StartSymbolicRef(p, b) PROVE FALSE
    <3>1. PICK k, l : proc' = [proc EXCEPT ![p] =
                                 [IdleProc EXCEPT !.pc = l, !.cmd = k,
                                    !.kind = "sym", !.tgt = HEAD, !.val = b]]
      BY <2>5 DEF StartSymbolicRef
    <3> QED BY <1>2, <3>1 DEF IdleProc
  <2> QED BY <1>3, <2>1, <2>2, <2>3, <2>4, <2>5 DEF Start
<1>5. ~Finish(p)
  BY <1>2 DEF Finish, IdleProc
<1>6. CASE CheckSpec(p)
  <2>1. /\ Goto(p, "log") /\ OldValueMatches(p) /\ file' = file
    BY <1>5, <1>6 DEF CheckSpec, storeVars
  <2>2. proc'[p].tgt = proc[p].tgt /\ proc'[p].old = proc[p].old
    BY <2>1, GotoFields
  <2> QED BY <2>1, <2>2 DEF OldValueMatches, RefCommit
<1>7. CASE LogTarget(p) \/ (CreateLog(p) /\ proc[p].pc # "newhead")
  <2>0. /\ proc[p].pc \in {"log", "newlog"} /\ file' = file
        /\ \E l \in {"create", "newlog", "log"} : Goto(p, l)
    BY <1>7 DEF LogTarget, CreateLog, Creates
  <2>1. PICK l \in {"create", "newlog", "log"} :
          Goto(p, l) /\ proc[p].pc \in {"log", "newlog"} /\ file' = file
    BY <2>0
  <2>2. /\ proc'[p].tgt = proc[p].tgt /\ proc'[p].old = proc[p].old
        /\ proc'[p].kind = proc[p].kind
    BY <2>1, GotoFields
  <2> QED BY <2>1, <2>2 DEF Compared, RefCommit
<1>8. CASE Deref(p)
  BY <1>2, <1>8, ConstantsDistinct DEF Deref, ProcType
<1>9. CASE SymbolicRefLog(p)
  <2>1. Goto(p, "create") /\ proc[p].kind = "sym"
    BY <1>2, <1>5, <1>9 DEF SymbolicRefLog, RecOK
  <2> QED BY <2>1, GotoFields
<1>10. CASE \/ CheckHead(p) \/ LogHead(p) \/ Create(p) \/ WriteSymbolicRef(p)
            \/ (CreateLog(p) /\ proc[p].pc = "newhead")
  <2>1. PICK l \in {"loghead", "newhead", "checkspec", "write", "remove"} :
          Goto(p, l)
    BY <1>5, <1>10 DEF CheckHead, LogHead, CreateLog, Create, WriteSymbolicRef
  <2> QED BY <2>1, GotoFields
<1>11. CASE GetHeadCommit(p)
  <2>1. proc'[p].pc = "object"
    BY <1>2, <1>5, <1>11 DEF GetHeadCommit, ProcType
  <2> QED BY <2>1
<1>12. CASE CommitTree(p)
  BY <1>2, <1>12 DEF CommitTree
<1>13. CASE WriteBranch(p)
  <2>1. proc'[p].pc = "symlog"
    BY <1>2, <1>5, <1>13 DEF WriteBranch, ProcType
  <2> QED BY <2>1
<1> QED BY <1>1, <1>4, <1>5, <1>6, <1>7, <1>8, <1>9, <1>10, <1>11, <1>12, <1>13
           DEF Advance, WriteRef, Remove, Crash

\* An update that was given an old value truncates the branch only while it
\* still holds it, if no other process runs beside it; with two processes
\* the run refs_lost_update shows that it need not (updateref.go:92-149).
THEOREM OldValuesRespected ==
  ASSUME \A p, q \in Process : p = q
  PROVE  Spec => OldValueRespected
<1>1. Init => IInv /\ Compared
  BY InitInv DEF Init, Compared, IdleProc
<1>2. IInv /\ Compared /\ [Next]_vars => (IInv /\ Compared)'
  <2> SUFFICES ASSUME IInv, Compared, [Next]_vars PROVE IInv' /\ Compared'
    OBVIOUS
  <2>1. CASE UNCHANGED vars
    BY <2>1, NextInv DEF vars, Compared, RefCommit
  <2>2. CASE Next
    BY <2>2, NextInv, ComparedStep
  <2> QED BY <2>1, <2>2
<1>3. Compared => [\A p \in Process :
                     /\ Truncates(p) /\ proc[p].kind = "ref" /\ proc[p].tgt \in Branch
                     /\ proc[p].old # Nil
                     => RefCommit(proc[p].tgt) = proc[p].old]_vars
  BY DEF Compared, Truncates
<1>4. Spec => [](IInv /\ Compared)
  BY <1>1, <1>2, PTL DEF Spec
<1> QED BY <1>3, <1>4, PTL DEF OldValueRespected

=============================================================================
