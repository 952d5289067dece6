-------------------------------- MODULE Refs --------------------------------
(***************************************************************************)
(* The reference store of a repository: HEAD, the branch files under       *)
(* refs/ and the reflogs under logs/, and the dgit commands that read and  *)
(* write them (src/git/updateref.go, symbolicref.go, refspec.go, the ref   *)
(* half of commit.go, checkout.go, reset.go and branch handling).          *)
(*                                                                         *)
(* Every dgit command is a process of its own.  Nothing in the repository  *)
(* is locked, and a ref is rewritten in place: os.Create truncates the     *)
(* file and a later write fills it.  A process therefore advances one file *)
(* operation at a time, and a crash leaves the files as they are.          *)
(*                                                                         *)
(* One step reads or writes one thing: resolving a name (HEAD, and the     *)
(* branch file HEAD names) is one read, the creation of a reflog one       *)
(* write, the append of an entry one write, a truncation one write, the    *)
(* contents one write.  Finding a reflog that exists, and appending to it, *)
(* is one step: no command removes a reflog.                               *)
(***************************************************************************)
EXTENDS Naturals, Sequences, FiniteSets

CONSTANTS
  Process,      \* dgit processes running in the same repository
  Branch,       \* names under refs/heads (and refs/remotes)
  Commit,       \* ids of the commit objects that may ever be written
  Master,       \* the branch HEAD names at first
  Root,         \* the commit Master holds at first
  HEAD,         \* the file name HEAD
  ZeroId,       \* CommitID{}: the zero id, and what a failed resolution gives
  Nil,          \* an option that was not given (a nil Commitish)
  FirstLogs,    \* names whose reflog exists at first
  Absent,       \* the file does not exist
  Empty,        \* the file exists and holds nothing: it was truncated
  Commands,     \* the commands the processes of this instance may start
  MaxCommands,  \* bound: commands started in a behaviour
  MaxCrashes    \* bound: processes killed in a behaviour

\* The three spellings of update-ref: cmd/updateref.go binds --create-reflog
\* to the option --no-deref sets.
UpdateRefCommands ==
  {"update-ref", "update-ref --no-deref", "update-ref --create-reflog"}

AllCommands == UpdateRefCommands \cup
  {"commit", "amend", "symbolic-ref", "checkout", "checkout -b", "branch",
   "branch -m", "update-ref -d"}

ASSUME ConstantsDistinct ==
  /\ Master \in Branch /\ Root \in Commit
  /\ Branch \cap Commit = {}
  /\ HEAD \notin Branch \cup Commit
  /\ {ZeroId, Nil, Absent, Empty} \cap (Branch \cup Commit \cup {HEAD}) = {}
  /\ ZeroId # Nil /\ ZeroId # Absent /\ ZeroId # Empty
  /\ Nil # Absent /\ Nil # Empty /\ Absent # Empty
  /\ FirstLogs \subseteq Branch \cup {HEAD}
  /\ Commands \subseteq AllCommands
  /\ MaxCommands \in Nat /\ MaxCrashes \in Nat

Name == Branch \cup {HEAD}

VARIABLES
  file,     \* contents of HEAD and of every branch file
  hasLog,   \* names whose reflog file exists
  log,      \* entries of every reflog
  obj,      \* commit objects in the object store
  parents,  \* parent lines of every commit object
  proc,     \* the command each process is in
  started,  \* commands started so far
  crashes,  \* processes killed so far
  made      \* history: commits whose commit command reported success

vars == <<file, hasLog, log, obj, parents, proc, started, crashes, made>>

Entry == [old: Commit \cup {ZeroId}, new: Commit]

IdleProc == [pc |-> "idle", cmd |-> "none", kind |-> "none", tgt |-> Nil,
             val |-> Nil, old |-> Nil, mklog |-> FALSE, src |-> Nil]

Init ==
  /\ file = [n \in Name |-> IF n = HEAD THEN Master
                            ELSE IF n = Master THEN Root ELSE Absent]
  /\ hasLog = FirstLogs      \* entries of earlier commands are left out
  /\ log = [n \in Name |-> <<>>]
  /\ obj = {Root}
  /\ parents = [c \in Commit |-> {}]
  /\ proc = [p \in Process |-> IdleProc]
  /\ started = 0
  /\ crashes = 0
  /\ made = {}

-----------------------------------------------------------------------------
(* Resolving names.  A file that is missing, or does not hold a hash,      *)
(* makes the resolution fail, and the callers go on with the zero id.      *)

\* Bug: the error of a failed resolution is not looked at.
RefCommit_Unchecked(b) == file[b]

RefCommit(b) == IF file[b] \in Commit THEN file[b] ELSE ZeroId

\* GetHeadCommit: HEAD's branch, or the hash a detached HEAD holds.
HeadCommit == IF file[HEAD] \in Branch THEN RefCommit(file[HEAD])
                                       ELSE RefCommit(HEAD)

\* SymbolicRef("HEAD").CommitID: fails with DetachedHead unless HEAD names a
\* branch.
SymbolicHeadCommit == IF file[HEAD] \in Branch THEN RefCommit(file[HEAD])
                                               ELSE ZeroId

(* Process bookkeeping. *)

Starts(p, c) ==
  /\ proc[p].pc = "idle"
  /\ c \in Commands
  /\ started < MaxCommands
  /\ started' = started + 1

Goto(p, l) == proc' = [proc EXCEPT ![p].pc = l]
Finish(p) == proc' = [proc EXCEPT ![p] = IdleProc]

storeVars == <<file, hasLog, log, obj, parents>>

\* The end of updateReflog: File.Append adds an entry to a log that exists.
Append2Log(n, o, c) ==
  log' = [log EXCEPT ![n] =
            Append(@, [old |-> IF o = Nil THEN ZeroId ELSE o, new |-> c])]

-----------------------------------------------------------------------------
(* Commit: read HEAD, write the commit object, move the ref.               *)

StartCommit(p, c) ==
  /\ Starts(p, c)
  /\ proc' = [proc EXCEPT ![p] = [IdleProc EXCEPT !.pc = "gethead", !.cmd = c]]
  /\ UNCHANGED <<storeVars, crashes, made>>

GetHeadCommit(p) ==
  /\ proc[p].pc = "gethead"
  /\ \/ /\ proc[p].cmd = "amend" => HeadCommit # ZeroId
        /\ proc' = [proc EXCEPT ![p].pc = "object", ![p].old = HeadCommit]
     \/ /\ proc[p].cmd = "amend" <=> HeadCommit = ZeroId
        /\ Finish(p)        \* no commit to amend, or no change to commit
  /\ UNCHANGED <<storeVars, started, crashes, made>>

\* Bug: the old head is appended to the parents of an amended commit too.
NewParents_AmendAppends(p) ==
  (IF proc[p].cmd = "amend" THEN parents[proc[p].old] ELSE {})
    \cup ({proc[p].old} \ {ZeroId})

NewParents(p) ==
  IF proc[p].cmd = "amend" THEN parents[proc[p].old]
  ELSE IF proc[p].old = ZeroId THEN {} ELSE {proc[p].old}

\* Bug: the ref is moved although the object was not stored.
CommitTree_NotStored(p) ==
  /\ proc[p].pc = "object"
  /\ \E c \in Commit \ obj :
       proc' = [proc EXCEPT ![p].pc = "deref", ![p].val = c,
                            ![p].kind = "ref", ![p].mklog = TRUE]
  /\ UNCHANGED <<storeVars, started, crashes, made>>

\* CommitTree writes a new object and hands its id to UpdateRef("HEAD").
CommitTree(p) ==
  /\ proc[p].pc = "object"
  /\ \E c \in Commit \ obj :
       /\ obj' = obj \cup {c}
       /\ parents' = [parents EXCEPT ![c] = NewParents(p)]
       /\ proc' = [proc EXCEPT ![p].pc = "deref", ![p].val = c,
                               ![p].kind = "ref", ![p].mklog = TRUE]
  /\ UNCHANGED <<file, hasLog, log, started, crashes, made>>

-----------------------------------------------------------------------------
(* UpdateRef and UpdateRefSpec.                                            *)

\* update-ref, and the calls of reset, merge and fetch: c exists, o is the
\* expected old value if one is given.
StartUpdateRef(p, n, k, o, c) ==
  /\ Starts(p, k)
  /\ proc' = [proc EXCEPT ![p] =
                [IdleProc EXCEPT
                   !.pc = IF n \in Branch THEN "checkspec"
                          ELSE IF k = "update-ref" THEN "deref" ELSE "log",
                   !.cmd = k, !.kind = "ref", !.tgt = n, !.val = c, !.old = o]]
  /\ UNCHANGED <<storeVars, crashes, made>>

\* A HEAD that does not begin with "ref: " counts as detached.
Deref(p) ==
  /\ proc[p].pc = "deref"
  /\ IF file[HEAD] \in Branch
       THEN proc' = [proc EXCEPT
                       ![p].tgt = file[HEAD],
                       ![p].pc = IF proc[p].old = Nil THEN "loghead"
                                                      ELSE "checkhead"]
       ELSE proc' = [proc EXCEPT ![p].tgt = HEAD, ![p].pc = "log"]
  /\ UNCHANGED <<storeVars, started, crashes, made>>

CheckHead(p) ==
  /\ proc[p].pc = "checkhead"
  /\ IF SymbolicHeadCommit = proc[p].old THEN Goto(p, "loghead") ELSE Finish(p)
  /\ UNCHANGED <<storeVars, started, crashes, made>>

\* Bug: only the branch's own reflog is written.
LogHead_Skipped(p) ==
  /\ proc[p].pc = "loghead"
  /\ Goto(p, "checkspec")
  /\ UNCHANGED <<storeVars, started, crashes, made>>

\* updateReflog of HEAD: a log that is not there is created first.
LogHead(p) ==
  /\ proc[p].pc = "loghead"
  /\ \/ /\ HEAD \in hasLog
        /\ Append2Log(HEAD, proc[p].old, proc[p].val)
        /\ Goto(p, "checkspec")
     \/ /\ HEAD \notin hasLog
        /\ Goto(p, "newhead")
        /\ UNCHANGED log
  /\ UNCHANGED <<file, hasLog, obj, parents, started, crashes, made>>

\* The reflog a process has found missing and is about to create.
Creates(p, n) ==
  \/ proc[p].pc = "newhead" /\ n = HEAD
  \/ proc[p].pc = "newlog" /\ n = proc[p].tgt

\* os.Create: if another process has made the log meanwhile, its entries are
\* gone.  The append, which finds the log, is the step that follows.
CreateLog(p) ==
  \E n \in Name :
    /\ Creates(p, n)
    /\ hasLog' = hasLog \cup {n}
    /\ log' = [log EXCEPT ![n] = <<>>]
    /\ Goto(p, IF proc[p].pc = "newhead" THEN "loghead" ELSE "log")
    /\ UNCHANGED <<file, obj, parents, started, crashes, made>>

OldValueMatches(p) == proc[p].old \in {Nil, RefCommit(proc[p].tgt)}

CheckSpec(p) ==
  /\ proc[p].pc = "checkspec"
  /\ IF OldValueMatches(p) THEN Goto(p, "log") ELSE Finish(p)
  /\ UNCHANGED <<storeVars, started, crashes, made>>

\* Bug: the log is created without a look whether it is there.
LogTarget_Creates(p) ==
  /\ proc[p].pc = "log"
  /\ Goto(p, IF proc[p].tgt = HEAD \/ proc[p].mklog THEN "newlog" ELSE "create")
  /\ UNCHANGED <<storeVars, started, crashes, made>>

\* The reflog of the file about to be written; HEAD's is always created, a
\* branch's only when the caller asks for it.
MustLog(p) == proc[p].tgt = HEAD \/ proc[p].mklog

LogTarget(p) ==
  /\ proc[p].pc = "log"
  /\ \/ /\ proc[p].tgt \in hasLog
        /\ Append2Log(proc[p].tgt, proc[p].old, proc[p].val)
        /\ Goto(p, "create")
     \/ /\ proc[p].tgt \notin hasLog
        /\ Goto(p, IF MustLog(p) THEN "newlog" ELSE "create")
        /\ UNCHANGED log
  /\ UNCHANGED <<file, hasLog, obj, parents, started, crashes, made>>

\* GitDir.Create, in every writer of a ref: the old contents are gone.
Create(p) ==
  /\ proc[p].pc = "create"
  /\ file' = [file EXCEPT ![proc[p].tgt] = Empty]
  /\ Goto(p, "write")
  /\ UNCHANGED <<hasLog, log, obj, parents, started, crashes, made>>

WriteRef(p) ==
  /\ proc[p].pc = "write" /\ proc[p].kind = "ref"
  /\ file' = [file EXCEPT ![proc[p].tgt] = proc[p].val]
  /\ made' = IF proc[p].cmd \in {"commit", "amend"}
               THEN made \cup {proc[p].val} ELSE made
  /\ Finish(p)
  /\ UNCHANGED <<hasLog, log, obj, parents, started, crashes>>

-----------------------------------------------------------------------------
(* Branches: CreateBranch, DeleteBranch, branch -m.                        *)

\* c is the resolved start point; checkout -b refuses an existing branch,
\* branch and checkout -B do not.
StartBranch(p, b, c) ==
  \E k \in {"branch", "checkout -b"} :
    /\ Starts(p, k)
    /\ k = "checkout -b" => file[b] = Absent /\ HeadCommit # ZeroId
    /\ proc' = [proc EXCEPT ![p] =
                  [IdleProc EXCEPT !.pc = "create", !.cmd = k,
                     !.kind = "branch", !.tgt = b, !.val = c]]
    /\ UNCHANGED <<storeVars, crashes, made>>

\* branch -m b: rename the branch HEAD names.
StartRename(p, b) ==
  /\ Starts(p, "branch -m")
  /\ SymbolicHeadCommit # ZeroId
  /\ proc' = [proc EXCEPT ![p] =
                [IdleProc EXCEPT !.pc = "create", !.cmd = "branch -m",
                   !.kind = "branch", !.tgt = b, !.val = SymbolicHeadCommit,
                   !.src = file[HEAD]]]
  /\ UNCHANGED <<storeVars, crashes, made>>

\* Bug: the file is created and never filled.
WriteBranch_Unfilled(p) ==
  /\ proc[p].pc = "write" /\ proc[p].kind = "branch"
  /\ IF proc[p].cmd = "branch"
       THEN Finish(p)
       ELSE proc' = [proc EXCEPT ![p].pc = "symlog", ![p].kind = "sym",
                                 ![p].tgt = HEAD, ![p].val = proc[p].tgt]
  /\ UNCHANGED <<storeVars, started, crashes, made>>

\* Bug: branch -m removes the old branch before HEAD is switched.
WriteBranch_RemovesOld(p) ==
  /\ proc[p].pc = "write" /\ proc[p].kind = "branch"
  /\ file' = [n \in Name |->
                IF n = proc[p].tgt THEN proc[p].val
                ELSE IF n = proc[p].src THEN Absent ELSE file[n]]
  /\ IF proc[p].cmd = "branch"
       THEN Finish(p)
       ELSE proc' = [proc EXCEPT ![p].pc = "symlog", ![p].kind = "sym",
                                 ![p].tgt = HEAD, ![p].val = proc[p].tgt]
  /\ UNCHANGED <<hasLog, log, obj, parents, started, crashes, made>>

WriteBranch(p) ==
  /\ proc[p].pc = "write" /\ proc[p].kind = "branch"
  /\ file' = [file EXCEPT ![proc[p].tgt] = proc[p].val]
  /\ IF proc[p].cmd = "branch"
       THEN Finish(p)
       ELSE proc' = [proc EXCEPT ![p].pc = "symlog", ![p].kind = "sym",
                                 ![p].tgt = HEAD, ![p].val = proc[p].tgt]
  /\ UNCHANGED <<hasLog, log, obj, parents, started, crashes, made>>

\* update-ref -d and branch -d: o is the value the caller expects.
StartDelete(p, b, o) ==
  /\ Starts(p, "update-ref -d")
  /\ proc' = [proc EXCEPT ![p] =
                [IdleProc EXCEPT !.pc = "remove", !.cmd = "update-ref -d",
                                 !.src = b, !.old = o]]
  /\ UNCHANGED <<storeVars, crashes, made>>

Remove(p) ==
  /\ proc[p].pc = "remove"
  /\ file' = [file EXCEPT ![proc[p].src] = Absent]
  /\ Finish(p)
  /\ UNCHANGED <<hasLog, log, obj, parents, started, crashes, made>>

-----------------------------------------------------------------------------
(* SymbolicRefUpdate: symbolic-ref HEAD b, and checkout of a branch.       *)

StartSymbolicRef(p, b) ==
  \/ /\ Starts(p, "symbolic-ref")           \* no reason given: no reflog
     /\ proc' = [proc EXCEPT ![p] =
                   [IdleProc EXCEPT !.pc = "create", !.cmd = "symbolic-ref",
                      !.kind = "sym", !.tgt = HEAD, !.val = b]]
     /\ UNCHANGED <<storeVars, crashes, made>>
  \/ /\ Starts(p, "checkout")
     /\ RefCommit(b) # ZeroId /\ HeadCommit # ZeroId
     /\ proc' = [proc EXCEPT ![p] =
                   [IdleProc EXCEPT !.pc = "symlog", !.cmd = "checkout",
                      !.kind = "sym", !.tgt = HEAD, !.val = b]]
     /\ UNCHANGED <<storeVars, crashes, made>>

\* Only an existing reflog is written; then an unborn branch on either side is
\* an error, and a detached HEAD is logged as the zero id.  branch -m looks
\* the new branch up first.
SymbolicRefFails(p) ==
  \/ proc[p].cmd = "branch -m" /\ file[proc[p].val] = Absent
  \/ HEAD \in hasLog /\ \/ file[HEAD] \in Branch /\ SymbolicHeadCommit = ZeroId
                        \/ RefCommit(proc[p].val) = ZeroId

SymbolicRefLog(p) ==
  /\ proc[p].pc = "symlog"
  /\ IF SymbolicRefFails(p) THEN Finish(p) ELSE Goto(p, "create")
  /\ IF HEAD \in hasLog /\ ~SymbolicRefFails(p)
       THEN Append2Log(HEAD, SymbolicHeadCommit, RefCommit(proc[p].val))
       ELSE UNCHANGED log
  /\ UNCHANGED <<file, hasLog, obj, parents, started, crashes, made>>

WriteSymbolicRef(p) ==
  /\ proc[p].pc = "write" /\ proc[p].kind = "sym"
  /\ file' = [file EXCEPT ![HEAD] = proc[p].val]
  /\ IF proc[p].cmd = "branch -m" THEN Goto(p, "remove") ELSE Finish(p)
  /\ UNCHANGED <<hasLog, log, obj, parents, started, crashes, made>>

-----------------------------------------------------------------------------

\* The process is killed between two file operations.
Crash(p) ==
  /\ proc[p].pc # "idle"
  /\ crashes < MaxCrashes
  /\ crashes' = crashes + 1
  /\ Finish(p)
  /\ UNCHANGED <<storeVars, started, made>>

Start(p) ==
  \/ \E c \in {"commit", "amend"} : StartCommit(p, c)
  \/ \E n \in Name, k \in UpdateRefCommands,
        o \in Commit \cup {Nil, ZeroId}, c \in obj : StartUpdateRef(p, n, k, o, c)
  \/ \E b \in Branch, c \in obj : StartBranch(p, b, c)
  \/ \E b \in Branch : StartRename(p, b)
  \/ \E b \in Branch, o \in obj \cup {Nil} : StartDelete(p, b, o)
  \/ \E b \in Branch : StartSymbolicRef(p, b)

Advance(p) ==
  \/ GetHeadCommit(p) \/ CommitTree(p)
  \/ Deref(p) \/ CheckHead(p) \/ LogHead(p) \/ CheckSpec(p) \/ LogTarget(p)
  \/ CreateLog(p)
  \/ Create(p) \/ WriteRef(p) \/ WriteBranch(p) \/ Remove(p)
  \/ SymbolicRefLog(p) \/ WriteSymbolicRef(p)

Next == \E p \in Process : Start(p) \/ Advance(p) \/ Crash(p)

Spec == Init /\ [][Next]_vars

-----------------------------------------------------------------------------
(* Properties.                                                             *)

Label == {"idle", "gethead", "object", "deref", "checkhead", "loghead",
          "checkspec", "log", "newhead", "newlog", "create", "write", "symlog", "remove"}

ProcType ==
  [pc: Label,
   cmd: AllCommands \cup {"none"},
   kind: {"none", "ref", "branch", "sym"},
   tgt: Name \cup {Nil},
   val: Commit \cup Branch \cup {Nil},
   old: Commit \cup {ZeroId, Nil},
   mklog: BOOLEAN,
   src: Branch \cup {Nil}]

\* The state has the shape the files, the object store and the command line
\* give it; HEAD is never missing, and only HEAD holds a branch name.
TypeOK ==
  /\ file \in [Name -> Commit \cup Branch \cup {Empty, Absent}]
  /\ file[HEAD] # Absent /\ \A b \in Branch : file[b] \notin Branch
  /\ hasLog \in SUBSET Name
  /\ log \in [Name -> Seq(Entry)]
  /\ obj \in SUBSET Commit
  /\ parents \in [Commit -> SUBSET Commit]
  /\ proc \in [Process -> ProcType]
  /\ started \in 0..MaxCommands
  /\ crashes \in 0..MaxCrashes
  /\ made \in SUBSET Commit

\* Objects before names: whatever the interleaving and wherever a process is
\* killed, a ref, a reflog entry or a parent line never names a commit that
\* is not in the object store (CommitTree writes it before UpdateRef runs).
HistoryClosed ==
  /\ \A n \in Name : file[n] \in Commit => file[n] \in obj
  /\ \A n \in Name : \A i \in DOMAIN log[n] : log[n][i].new \in obj
  /\ \A c \in obj : parents[c] \subseteq obj

Logged(n, c) == \E i \in DOMAIN log[n] : log[n][i].new = c

\* No process creates the reflog of n under another's entries: the log exists
\* from the start, or there is no other process.
Safe(n) == n \in FirstLogs \/ \A p, q \in Process : p = q

\* The reflog entry is on disk before the ref is touched: an UpdateRef of HEAD,
\* or one that creates reflogs, that has truncated or is about to truncate
\* the file has already recorded the value it will write, and no other process
\* has taken the entry away.
LoggedBeforeWritten ==
  \A p \in Process :
    (/\ proc[p].pc \in {"create", "write"} /\ proc[p].kind = "ref"
     /\ MustLog(p) /\ Safe(proc[p].tgt))
    => Logged(proc[p].tgt, proc[p].val)

\* Every commit that reported success is in HEAD's reflog.
CommitsLogged == \A c \in made : Logged(HEAD, c)

\* Safety net: once HEAD has a reflog, a commit that reported success can be
\* found in it, even when another process then overwrote the branch or a crash
\* emptied it.  While two processes make the first reflog one of the entries may
\* be lost (updateref.go:22-32): LogsSettle says for how long.
CommitRecoverable == Safe(HEAD) => CommitsLogged

\* The log exists, and nobody who found it missing has yet to create it.
Settled(n) == n \in hasLog /\ \A p \in Process : ~Creates(p, n)

\* The first reflog of a name may be truncated while it is being made, but no
\* longer than that: once it is there and those that found it missing are done
\* or killed, no step of any process takes an entry away or is about to
\* (updateref.go:22-64).
LogsSettle ==
  [][\A n \in Name : Settled(n) =>
       Settled(n)' /\ \A c \in Commit : Logged(n, c) => Logged(n, c)']_vars

\* A file is only empty while a process is between truncating and filling it;
\* each crash tears at most one file for good.
Writers(n) == {p \in Process : proc[p].pc = "write" /\ proc[p].tgt = n}
TornFilesBounded ==
  Cardinality({n \in Name : file[n] = Empty /\ Writers(n) = {}}) <= crashes

Truncates(p) == proc[p].pc = "create" /\ proc'[p].pc = "write"

\* Compare and swap: when an update that was given an old value truncates a
\* branch, the branch still holds that value (UpdateRefSpec's promise).
OldValueRespected ==
  [][\A p \in Process :
       /\ Truncates(p) /\ proc[p].kind = "ref" /\ proc[p].tgt \in Branch
       /\ proc[p].old # Nil
       => RefCommit(proc[p].tgt) = proc[p].old]_vars

=============================================================================
