------------------------------ MODULE WorkTree ------------------------------
(***************************************************************************)
(* The commands that move the index and the work tree: read-tree with one, *)
(* two and three trees (src/git/readtree.go), and checkout, reset, merge,  *)
(* checkout-index, add, rm and commit, which are made of it.               *)
(*                                                                         *)
(* A command decides what to do from the index, the trees and the work     *)
(* tree as it finds them, and then works through its plan, one file        *)
(* operation a step.  It may be killed between any two of them.            *)
(***************************************************************************)
EXTENDS ReadTree, Sequences

CONSTANTS
  Before,      \* the order of paths in an index: <<p, q>> when p comes first
  Conflict,    \* the content of a file that merge-file wrote
  Torn,        \* an index file that is not whole
  Trees,       \* the trees of the commits of this instance
  Starts,      \* the index, work tree and HEAD a command may find
  Ops,         \* the commands of this instance
  Recovery     \* those that may follow one that was killed

OpNames == {"read-tree", "checkout", "checkout-paths", "reset-soft", "reset-mixed", "reset-hard",
            "unstage", "merge-ff", "merge", "checkout-index", "add", "rm", "clean", "commit", "commit-file"}

ASSUME WorkTreeAssumption ==
  /\ Before \subseteq Path \X Path
  /\ \A P \in (SUBSET Path) \ {{}} : \E p \in P : \A q \in P \ {p} : <<p, q>> \in Before
  /\ Conflict \in Content
  /\ Torn \notin IndexType
  /\ Trees \subseteq TreeType
  /\ Starts \subseteq IndexType \X WorkTreeType \X TreeType
  /\ \A s \in Starts : Legal(s[1]) /\ Shaped(s[2])
  /\ \A t \in Trees : Legal(FromTree(t))
  /\ \A s \in Starts : Legal(FromTree(s[3]))
  /\ Ops \subseteq OpNames
  /\ Recovery \subseteq {"reset-soft", "reset-mixed", "reset-hard"}

VARIABLES
  index,  \* .git/index
  wt,     \* the work tree
  head,   \* the tree of the commit HEAD is on
  run,    \* the command that runs
  was     \* what it found

vars == <<index, wt, head, run, was>>

Phases == {"kill", "write", "writeAll", "prune", "drop", "open", "save", "put", "mergeFile",
           "move", "unlink", "clean", "fail"}

NoTree == [p \in Path |-> None]

Idle == [op |-> "none", opt |-> Plain, plan |-> <<>>, todo |-> {}, new |-> FromTree(NoTree),
         files |-> {}, staged |-> NoTree, target |-> NoTree, base |-> NoTree, outcome |-> "none"]

RunType ==
  [op : OpNames \cup {"none"}, opt : Options, plan : Seq(Phases), todo : SUBSET Path,
   new : IndexType, files : SUBSET Path, staged : TreeType, target : TreeType, base : TreeType,
   outcome : {"none", "running", "ok", "failed", "panic", "killed"}]

\* The variables have their types.
TypeOK ==
  /\ index \in IndexType \cup {Torn}
  /\ wt \in WorkTreeType
  /\ head \in TreeType
  /\ run \in RunType
  /\ was \in [index : IndexType \cup {Torn}, wt : WorkTreeType, head : TreeType]

Init ==
  /\ \E s \in Starts : index = s[1] /\ wt = s[2] /\ head = s[3]
  /\ run = Idle
  /\ was = [index |-> index, wt |-> wt, head |-> head]

-----------------------------------------------------------------------------
(* The plan of a command.                                                  *)

\* The paths a phase goes through, taken when it begins.
Work(phase, r, i, w) ==
  CASE phase = "kill" -> Killed(i, w)
    [] phase \in {"write", "clean"} -> r.files
    [] phase = "writeAll" -> {p \in Path : r.new[p][0] # None}
    [] phase = "prune" -> {p \in Path : Has(i, p) /\ ~Has(r.new, p) /\ w[p] = Last(i, p)}
    [] phase = "drop" -> Conflicted(i)
    [] phase = "put" -> {p \in Path : r.staged[p] # None}
    [] phase = "mergeFile" -> Conflicted(r.new)
    [] OTHER -> {}

Loops == {"kill", "write", "writeAll", "prune", "drop", "put", "mergeFile", "clean"}

\* The command goes on with a plan, or ends.
Onward(r, plan, i, w) ==
  [r EXCEPT !.plan = plan,
            !.todo = IF plan = <<>> THEN {} ELSE Work(Head(plan), r, i, w),
            !.outcome = IF plan = <<>> THEN "ok" ELSE "running"]

-----------------------------------------------------------------------------
(* The start of a command.                                                 *)

\* What follows the decision: with -u or --reset the work tree is moved before
\* the index is written.
ReadTreePlan(opt) ==
  (IF opt.update \/ opt.reset THEN <<"kill", "write", "prune">> ELSE <<>>)
  \o (IF opt.reset THEN <<"drop">> ELSE <<>>)
  \o <<"open", "save">>

\* read-tree -m refuses to start on conflicts, and any of them on what Blocked
\* finds; first and last are the phases of the command around it.
Refused(opt, i, n, w) ==
  \/ opt.merge /\ Conflicted(i) # {}
  \/ Acts(opt) /\ Blocked(opt, i, n, w)

PlanOf(opt, n, first, rest) ==
  first \o (IF Refused(opt, index, n, wt) THEN <<"fail">> ELSE ReadTreePlan(opt) \o rest)

\* No command starts while another one runs.  Most stop at an index that they
\* cannot read.
Ready(op) ==
  /\ run.op = "none" /\ op \in Ops
  /\ run.outcome = "killed" => op \in Recovery
  /\ index = Torn => op \in {"read-tree", "reset-soft", "reset-mixed", "reset-hard"}

Command(op) == [Idle EXCEPT !.op = op, !.outcome = "running"]
Start(r) ==
  /\ run' = Onward(r, r.plan, index, wt)
  /\ was' = [index |-> index, wt |-> wt, head |-> head]
  /\ UNCHANGED <<index, wt, head>>

Begin(op, opt, n, target, base, staged, plan) ==
  /\ Ready(op)
  /\ Start([Command(op) EXCEPT !.opt = opt, !.new = n, !.target = target, !.base = base,
               !.staged = staged, !.plan = plan,
               !.files = IF Acts(opt) THEN ToCheckOut(opt, index, n, wt) ELSE {}])

Starting(op, opt, t, first, rest) ==
  Begin(op, opt, FromTree(t), t, NoTree, NoTree, PlanOf(opt, FromTree(t), first, rest))

\* ReadTree.  Prereqs: -u needs -m or --reset, which exclude each other.
OneTree(opt, t) ==
  /\ ~(opt.merge /\ opt.reset)
  /\ opt.update => opt.merge \/ opt.reset
  /\ IF index = Torn
     THEN Begin("read-tree", Plain, FromTree(t), t, NoTree, NoTree,
                IF opt.update \/ opt.reset THEN <<"fail">> ELSE <<"open", "save">>)
     ELSE Starting("read-tree", opt, t, <<>>, <<>>)

\* ReadTreeFastForward.  An index without entries may be one that does not exist.
FastForward(op, opt, h, m, rest) == Ready(op) /\
  \E fresh \in {FALSE} \cup {\A p \in Path : ~Has(index, p)} :
    LET n == FFIndex(index, h, m, fresh)
    IN Begin(op, opt, n, m, h, NoTree,
             IF FFBlocked(index, h, m, wt, fresh) THEN <<"fail">>
             ELSE PlanOf(opt, n, <<>>, rest))

ThreeWay(op, opt, o, a, b, rest) ==
  LET n == ThreeIndex(opt, o, a, b)
  IN Begin(op, opt, n, b, o, NoTree,
           IF ThreeBlocked(index, o, a, b, wt) THEN <<"fail">>
           ELSE PlanOf(opt, n, <<>>, rest))

-----------------------------------------------------------------------------
(* The commands made of them.                                              *)

\* DiffIndex of HEAD: what is staged and as it is in the work tree.
StagedChanges ==
  [p \in Path |-> IF \E s \in Stage : index[p][s] # None /\ index[p][s] = wt[p] /\ wt[p] # head[p]
                  THEN wt[p] ELSE None]

\* Bug: HEAD is moved before the trees are read.
CheckoutCommit_HeadFirst(t, force) ==
  LET opt == IF force THEN ResetUpdate ELSE MergeUpdate
  IN /\ Ready("checkout")
     /\ force \/ \A p \in Path : t[p] # None => Others(index, wt, p) = {}
     /\ Begin("checkout", opt, FromTree(t), t, NoTree, StagedChanges,
              PlanOf(opt, FromTree(t), <<"move">>, <<"put", "open", "save">>))

\* Bug: what was staged is forgotten.
CheckoutCommit_Forgets(t, force) ==
  LET opt == IF force THEN ResetUpdate ELSE MergeUpdate
  IN /\ Ready("checkout")
     /\ force \/ \A p \in Path : t[p] # None => Others(index, wt, p) = {}
     /\ Begin("checkout", opt, FromTree(t), t, NoTree, StagedChanges,
              PlanOf(opt, FromTree(t), <<>>, <<"open", "save", "move">>))

\* CheckoutCommit refuses when an untracked file is in the way, reads the tree,
\* puts staged changes back and moves HEAD.
CheckoutCommit(t, force) ==
  LET opt == IF force THEN ResetUpdate ELSE MergeUpdate
  IN /\ Ready("checkout")
     /\ force \/ \A p \in Path : t[p] # None => Others(index, wt, p) = {}
     /\ Begin("checkout", opt, FromTree(t), t, NoTree, StagedChanges,
              PlanOf(opt, FromTree(t), <<>>, <<"put", "open", "save", "move">>))

Selected(F) == {p \in Path : \E f \in F : p = f \/ p \in Under(f)}

\* CheckoutFiles writes the named files of a tree, and that tree's index.
CheckoutFiles(t, F) ==
  /\ Ready("checkout-paths")
  /\ Start([Command("checkout-paths") EXCEPT !.new = FromTree(t), !.target = t,
               !.files = {p \in Selected(F) : t[p] # None},
               !.plan = <<"kill", "write", "open", "save">>])

\* Bug: --hard relies on read-tree.
ResetMode_Once(mode, t) ==
  IF mode = "reset-soft"
  THEN Begin(mode, Plain, FromTree(t), t, NoTree, NoTree, <<"move">>)
  ELSE IF index = Torn
  THEN Begin(mode, Plain, FromTree(t), t, NoTree, NoTree, <<"move", "fail">>)
  ELSE Starting(mode, ResetUpdate, t, <<"move">>, <<>>)

\* ResetMode moves HEAD first; --mixed and --hard read the tree with --reset -u,
\* and --hard then checks every file out.  ls-files cannot read a torn index.
ResetMode(mode, t) ==
  IF mode = "reset-soft"
  THEN Begin(mode, Plain, FromTree(t), t, NoTree, NoTree, <<"move">>)
  ELSE IF index = Torn
  THEN Begin(mode, Plain, FromTree(t), t, NoTree, NoTree, <<"move", "fail">>)
  ELSE Starting(mode, ResetUpdate, t, <<"move">>,
                IF mode = "reset-hard" THEN <<"kill", "writeAll", "open", "save">> ELSE <<>>)

\* Merge when HEAD is the base, and otherwise.
MergeForward(t) == FastForward("merge-ff", MergeUpdate, head, t, <<"move">>)
MergeTrees(base, t) == ThreeWay("merge", MergeUpdate, base, head, t, <<"mergeFile">>)

\* CheckoutIndex of every path: without -f nothing may be in the way, and what
\* exists is left as it is.
CheckoutIndex(force) ==
  LET differ == {p \in Path : \E s \in Stage : index[p][s] # None /\ (force \/ index[p][s] # wt[p])}
  IN /\ Ready("checkout-index")
     /\ Start([Command("checkout-index") EXCEPT !.new = index,
                 !.files = {p \in differ : Unmerged(index, p) \/ force \/ ~Exists(wt, p)},
                 !.plan = IF force THEN <<"kill", "write">>
                          ELSE IF Killed(index, wt) # {} THEN <<"fail">> ELSE <<"write">>])

-----------------------------------------------------------------------------
(* add, rm, reset of paths, commit.                                        *)

\* What ls-files lists of them: entries that differ from their file, and files
\* that have no entry.
Listed(F, others) ==
  {p \in Selected(F) : \/ \E s \in Stage : index[p][s] # None /\ wt[p] # index[p][s]
                       \/ others /\ IsFile(wt, p) /\ ~Has(index, p)}

\* Bug: a directory is added as if it were a file.
Updated_Dirs(F, others) ==
  [p \in Path |-> IF p \in Listed(F, others) THEN AtStage(0, wt[p]) ELSE index[p]]

\* Bug: what is above or below the file stays.
Updated_Beside(F, others) ==
  LET L == Listed(F, others)
      added == {p \in L : IsFile(wt, p)}
  IN [p \in Path |-> IF p \in added THEN AtStage(0, wt[p])
                     ELSE IF p \in L /\ ~Exists(wt, p) THEN NoStages
                     ELSE index[p]]

\* UpdateIndex with --add --remove --replace of the listed paths, each listed
\* once for each of its entries.
Updated(F, others) ==
  LET L == Listed(F, others)
      added == {p \in L : IsFile(wt, p)}
      gone == (L \ added) \cup {q \in Path : \E p \in L : IsDir(wt, p) /\ q \in Under(p)}
  IN [p \in Path |-> IF p \in added THEN AtStage(0, wt[p])
                     ELSE IF p \in gone \/ \E q \in added : p \in Above(q) \cup Under(q)
                     THEN NoStages
                     ELSE index[p]]

Add(F) == Begin("add", Plain, Updated(F, TRUE), NoTree, NoTree, NoTree, <<"open", "save">>)

\* Rm stops after the first file; with --cached nothing is written.
Rm(F, force, cached) ==
  LET tracked == {p \in Selected(F) : Has(index, p)}
      first == CHOOSE p \in tracked : \A q \in tracked \ {p} : <<p, q>> \in Before
  IN /\ Ready("rm")
     /\ \A f \in F : \E p \in Selected({f}) : Has(index, p)
     /\ force \/ Listed(F, FALSE) = {}
     /\ Start([Command("rm") EXCEPT !.new = RemoveFile(index, first), !.files = {first},
                 !.plan = IF cached THEN <<>> ELSE <<"unlink", "open", "save">>])

\* Bug: a directory is taken for untracked when it has no entry itself.
Cleaned_Dirs(F, dirs) ==
  LET whole == {d \in Path : dirs /\ IsDir(wt, d) /\ ~Has(index, d)}
      found == whole \cup {p \in Path : IsFile(wt, p) /\ ~Has(index, p)}
  IN {p \in found \cap Selected(F) : Above(p) \cap whole = {}}

\* Files without an entry; with -d, a directory in which nothing has one is
\* named and not looked into.
Cleaned(F, dirs) ==
  LET whole == {d \in Path : dirs /\ IsDir(wt, d) /\ \A q \in {d} \cup Under(d) : ~Has(index, q)}
      found == whole \cup {p \in Path : IsFile(wt, p) /\ ~Has(index, p)}
  IN {p \in found \cap Selected(F) : Above(p) \cap whole = {}}

Clean(F, dirs) ==
  /\ Ready("clean")
  /\ Start([Command("clean") EXCEPT !.files = Cleaned(F, dirs), !.plan = <<"clean">>])

\* ResetUnstage: the stat of any path that differs from HEAD must succeed, and
\* no entry above or below a restored one be left.
Unstage(F) ==
  LET named(p) == IF p \in Selected(F) THEN head[p] ELSE None
      differs == {p \in Path : \E s \in Stage : index[p][s] # None /\ index[p][s] # named(p)}
      put == {p \in differs : named(p) # None}
      gone == {p \in differs \cap F : named(p) = None}
      clash == \E p \in put : \E q \in (Above(p) \ gone) \cup Under(p) : Has(index, q)
      new == [p \in Path |-> IF p \in put THEN AtStage(0, head[p])
                             ELSE IF p \in gone THEN NoStages ELSE index[p]]
  IN Ready("unstage") /\
     IF clash \/ \E p \in differs : ~Exists(wt, p)
     THEN Begin("unstage", Plain, index, NoTree, NoTree, NoTree, <<"fail">>)
     ELSE Begin("unstage", Plain, new, NoTree, NoTree, NoTree, <<"open", "save">>)

TreeOf(i) == [p \in Path |-> i[p][0]]

\* Commit of the index, of the index after add -u, or of HEAD and the named
\* files, which leaves the index as it is.
Commit(all) ==
  LET n == IF all THEN Updated(Path, FALSE) ELSE index
  IN Begin("commit", Plain, n, TreeOf(n), NoTree, NoTree,
           (IF all THEN <<"open", "save">> ELSE <<>>)
           \o (IF Conflicted(n) # {} \/ TreeOf(n) = head THEN <<"fail">> ELSE <<"move">>))

CommitFile(f) ==
  LET gone == {p \in Selected({f}) : IF IsDir(wt, f) THEN Has(index, p) ELSE p = f}
      n == [p \in Path |-> IF IsFile(wt, f) /\ p = f THEN wt[f]
                           ELSE IF ~IsFile(wt, f) /\ p \in gone THEN None ELSE head[p]]
      clash == IsFile(wt, f) /\ \E q \in Above(f) \cup Under(f) : head[q] # None
  IN Ready("commit-file") /\
     IF clash \/ n = head
     THEN Begin("commit-file", Plain, index, NoTree, NoTree, NoTree, <<"fail">>)
     ELSE Begin("commit-file", Plain, index, n, NoTree, NoTree, <<"move">>)

-----------------------------------------------------------------------------
(* The steps.                                                              *)

At(phase) == run.plan # <<>> /\ Head(run.plan) = phase

\* Maps are gone through in any order, an index in that of its paths.
Turn(p) ==
  /\ p \in run.todo
  /\ \/ At("prune") \/ At("mergeFile") \/ run.op = "merge-ff"
     \/ \A q \in run.todo \ {p} : <<p, q>> \in Before

Stop(o) ==
  /\ run' = [run EXCEPT !.outcome = o, !.plan = <<>>, !.todo = {}]
  /\ UNCHANGED <<index, wt, head, was>>

Passed(i, w) == Onward(run, Tail(run.plan), i, w)

\* The file operation on p is done.
Done(r, p, w) ==
  /\ wt' = w
  /\ run' = [r EXCEPT !.todo = @ \ {p}]
  /\ UNCHANGED <<index, head, was>>

\* Nothing is left to do of a phase.
Pass ==
  /\ run.plan # <<>> /\ Head(run.plan) \in Loops /\ run.todo = {}
  /\ run' = Passed(index, wt)
  /\ UNCHANGED <<index, wt, head, was>>

Kill(p) == At("kill") /\ Turn(p) /\ Done(run, p, RemoveAll(wt, p))

Write(p) ==
  /\ At("write") /\ Turn(p)
  /\ IF Unmerged(run.new, p) THEN Stop("failed")
     ELSE Done(run, p, CheckoutFile(wt, p, run.new[p][0]))

WriteAll(p) == At("writeAll") /\ Turn(p) /\ Done(run, p, CheckoutFile(wt, p, run.new[p][0]))

\* A file that is in the way of nothing and as the old index had it goes.
Prune(p) == At("prune") /\ Turn(p) /\ Done(run, p, RemoveFileClean(wt, p))

CleanUp(p) == At("clean") /\ Turn(p) /\ Done(run, p, RemoveAll(wt, p))

Empty(p) == \A q \in Under(p) : ~Exists(wt, q)

\* What was in conflict goes, whatever it is now.
Drop(p) ==
  /\ At("drop") /\ Turn(p)
  /\ IF IsDir(wt, p) /\ ~Empty(p) THEN Stop("failed") ELSE Done(run, p, RemoveAll(wt, p))

\* Create truncates the index that WriteIndex then writes.
Open ==
  /\ At("open")
  /\ index' = Torn
  /\ run' = Passed(Torn, wt)
  /\ UNCHANGED <<wt, head, was>>

Save ==
  /\ At("save")
  /\ index' = run.new
  /\ run' = Passed(run.new, wt)
  /\ UNCHANGED <<wt, head, was>>

\* A file can be created where there is one, or nothing in a directory.
CanCreate(p) == ~IsDir(wt, p) /\ \A d \in Above(p) : IsDir(wt, d)

\* A staged change is put back where the new index has the path.
Put(p) ==
  /\ At("put") /\ Turn(p)
  /\ IF CanAdd(run.new, p, 0, FALSE, FALSE) /\ CanCreate(p)
     THEN Done([run EXCEPT !.new = Added(run.new, p, run.staged[p])], p,
               Made(wt, p, run.staged[p]))
     ELSE Stop("failed")

\* The three sides of a file are merged; a side that is missing is a nil entry.
MergeFile(p) ==
  /\ At("mergeFile") /\ Turn(p)
  /\ IF \E s \in 1..3 : run.new[p][s] = None THEN Stop("panic")
     ELSE IF CanCreate(p) THEN Done(run, p, Made(wt, p, Conflict))
     ELSE Stop("failed")

\* rm of a file.
Unlink ==
  /\ At("unlink")
  /\ \E p \in run.files :
       IF Exists(wt, p) /\ (IsDir(wt, p) => Empty(p))
       THEN /\ wt' = RemoveAll(wt, p)
            /\ run' = Passed(index, wt')
            /\ UNCHANGED <<index, head, was>>
       ELSE Stop("failed")

\* UpdateRef of HEAD.
Move ==
  /\ At("move")
  /\ head' = run.target
  /\ run' = Passed(index, wt)
  /\ UNCHANGED <<index, wt, was>>

Fail == At("fail") /\ Stop("failed")

\* The process is killed; what it had in memory is gone, and what it found is
\* forgotten.
Crash ==
  /\ run.outcome = "running" /\ Recovery # {}
  /\ run' = [Idle EXCEPT !.outcome = "killed"]
  /\ was' = [index |-> index, wt |-> wt, head |-> head]
  /\ UNCHANGED <<index, wt, head>>

Commands ==
  \/ \E opt \in Options, t \in Trees : OneTree(opt, t)
  \/ \E t \in Trees, force \in BOOLEAN : CheckoutCommit(t, force)
  \/ \E t \in Trees, f \in Path : CheckoutFiles(t, {f})
  \/ \E mode \in {"reset-soft", "reset-mixed", "reset-hard"}, t \in Trees : ResetMode(mode, t)
  \/ \E t \in Trees : MergeForward(t)
  \/ \E base, t \in Trees : MergeTrees(base, t)
  \/ \E force \in BOOLEAN : CheckoutIndex(force)
  \/ \E F \in (SUBSET Path) \ {{}} : Add(F)
  \/ \E F \in (SUBSET Path) \ {{}}, force, cached \in BOOLEAN : Rm(F, force, cached)
  \/ \E F \in (SUBSET Path) \ {{}} : Unstage(F)
  \/ \E F \in (SUBSET Path) \ {{}}, dirs \in BOOLEAN : Clean(F, dirs)
  \/ \E all \in BOOLEAN : Commit(all)
  \/ \E f \in Path : CommitFile(f)

FileSteps == \E p \in run.todo :
  Kill(p) \/ Write(p) \/ WriteAll(p) \/ Prune(p) \/ Drop(p) \/ Put(p) \/ MergeFile(p) \/ CleanUp(p)

Next == Commands \/ FileSteps \/ Pass \/ Open \/ Save \/ Unlink \/ Move \/ Fail \/ Crash

Spec == Init /\ [][Next]_vars

-----------------------------------------------------------------------------
(* Properties.                                                             *)

Ended(op) == run.op = op /\ run.outcome = "ok"

\* A file that is untracked, or not as the index has it.
Local(p) == IsFile(was.wt, p) /\ was.wt[p] # Last(was.index, p)

\* A path of the new or the old index needs a directory where p is, or is
\* where p needs one.
InTheWay(p) == \E q \in Above(p) \cup Under(p) : Has(run.new, q) \/ Has(was.index, q)

\* The commands that move the work tree and are not told to overwrite it.
Careful == run.op \in {"read-tree", "checkout", "merge-ff", "merge"} /\ ~run.opt.reset

\* A path of the new index that a file kept from being written, which is further
\* up than the directory of the path: checkoutFile removes that one only.
Barred(p) == \E d \in Above(p) \ Parent(p) : IsFile(was.wt, d)

\* An index that is written never has a file that is a directory or a conflict
\* as well (index.go:364).  ReadTreeFastForward does not check it: a staged file
\* may be kept where the new tree has a directory.
IndexLegal ==
  [][index' \notin {index, Torn} /\ run.op # "merge-ff" => Legal(index')]_vars

\* After reset --hard, also of what a killed command left, index and HEAD are
\* the tree's; its files are as it has them, files of the old index that were
\* clean are gone, and files that neither has are as they were (reset.go:103).
\* A file of the tree is missing only where a local file is left further up than
\* its directory: ls-files is to "go through each parent" and finds the last one
\* only (lsfiles.go:188-215).
HardResetRestores == Ended("reset-hard") =>
  /\ index = FromTree(run.target) /\ head = run.target
  /\ \A p \in Path :
       /\ run.target[p] # None =>
            \/ wt[p] = run.target[p]
            \/ \E d \in Above(p) \ Parent(p) : Local(d) /\ wt[d] = was.wt[d]
       /\ run.target[p] = None /\ IsFile(wt, p) => (Local(p) /\ wt[p] = was.wt[p])
       /\ Local(p) /\ ~Has(was.index, p) /\ ~InTheWay(p) => wt[p] \in {was.wt[p], run.target[p]} \ {None}

\* Without -f or --reset what was changed or not tracked is in the work tree
\* after every step, as long as no directory of a path the command knows has its
\* name (readtree.go:653).
LocalKept == Careful => \A p \in Path : Local(p) /\ ~InTheWay(p) =>
  \/ wt[p] = was.wt[p]
  \/ wt[p] = Conflict /\ Unmerged(run.new, p) /\ ~Has(was.index, p)

\* A checkout that succeeds keeps what was staged (checkout.go:205).
StagedKept == Ended("checkout") /\ ~run.opt.reset =>
  \A p \in Path :
    LET staged == was.index[p][0]
    IN staged \notin {None, was.head[p]} /\ was.wt[p] = staged => index[p][0] = staged /\ wt[p] = staged

\* What a merge of three trees leaves without conflict is what both sides have, or
\* what the one side has that changed it; and no path goes from the index that one
\* of the three trees has: a removal is left as a conflict (readtree.go:257).
ThreeWayRight == Ended("merge") =>
  \A p \in Path :
    LET o == run.base[p]
        a == was.head[p]
        b == run.target[p]
    IN IF Has(index, p)
       THEN index[p][0] # None =>
              /\ index[p][0] = (IF a = b \/ o = b THEN a ELSE b)
              /\ a = b \/ o \in {a, b}
              /\ \/ wt[p] = index[p][0]
                 \/ Local(p) /\ wt[p] = was.wt[p]
                 \/ Barred(p)
       ELSE {o, a, b} = {None}

\* A fast-forward keeps an entry that was not HEAD's, a removal too, and gives
\* all others as the new tree has them; an index without entries is an index
\* file that is not there (readtree.go:363).
ForwardKeepsStaged == Ended("merge-ff") =>
  \/ \A p \in Path : ~Has(was.index, p)
  \/ \A p \in Path : Last(index, p) = IF Last(was.index, p) = was.head[p] THEN run.target[p]
                                       ELSE Last(was.index, p)

\* A merge of either kind makes of a path what was done to it.
MergeRight == ThreeWayRight /\ ForwardKeepsStaged

\* HEAD moves last: when a checkout or a fast-forward has moved it, the index is
\* written, and the work tree agrees but for changes that were there
\* (checkout.go:258, merge.go:136).  IndexLegal says when the index
\* is not one that a work tree can agree with.
HeadMovedLast ==
  (run.op \in {"checkout", "merge-ff"} /\ ~run.opt.reset /\ Legal(run.new) /\ head # was.head) =>
    /\ index = run.new /\ head = run.target
    /\ \A p \in Path : wt[p] # Last(index, p) =>
         \/ wt[p] = was.wt[p] /\ wt[p] # Last(was.index, p)
         \/ IsDir(wt, p)
         \/ Barred(p)

\* clean takes away only what has no entry, and a directory only when nothing in
\* it has one, though it tells them apart by names (lsfiles.go:52).
CleanSpares == run.op = "clean" =>
  \A p \in Path : wt[p] # was.wt[p] =>
    /\ wt[p] = None /\ ~Has(was.index, p)
    /\ IsDir(was.wt, p) => \A q \in Under(p) : ~Has(was.index, q)

\* The comment at readtree.go:653, of a file of the index: "Check if the merge
\* would overwrite any modified files and return an error if so".
ModifiedKept == Careful =>
  \A p \in Path : Has(was.index, p) /\ Local(p) => wt[p] = was.wt[p]

=============================================================================
