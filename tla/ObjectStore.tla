---------------------------- MODULE ObjectStore ----------------------------
(***************************************************************************)
(* The object database under .git/objects: loose objects, packs with their *)
(* indexes, the location cache of each process, and the processes that     *)
(* look objects up, write them and fetch packs (src/git/client.go,         *)
(* objects.go, indexpack.go, unpackobjects.go, the want/have half of       *)
(* fetchpack.go).                                                          *)
(*                                                                         *)
(* A loose object is created under its final name and filled afterwards; a *)
(* pack is renamed into place and its index then created, truncated, and   *)
(* written piece by piece.  Nothing is locked and nothing is ever deleted. *)
(* Moving a ref to an object (publishing it) is one step here; Refs models *)
(* the steps it is made of.                                                *)
(***************************************************************************)
EXTENDS Naturals, FiniteSets

CONSTANTS
  Process,        \* dgit processes
  Object,         \* object ids
  Root,           \* objects that refs may name: commits
  Closure,        \* Closure[o]: o and every object reachable from it
  Pack,           \* pack names
  Commands,       \* the commands the processes of this instance may start
  SamePackTwice,  \* whether fetches may receive a pack that has a name already
  MaxCommands,    \* bound: commands started in a behaviour
  MaxCrashes      \* bound: processes killed in a behaviour

ASSUME ClosureAssumption ==
  /\ Root \subseteq Object
  /\ Closure \in [Object -> SUBSET Object]
  /\ \A o \in Object : o \in Closure[o]
  /\ \A o \in Object : \A d \in Closure[o] : Closure[d] \subseteq Closure[o]

ASSUME BoundsAssumption ==
  /\ Commands \subseteq {"write", "unpack", "fetch"}
  /\ SamePackTwice \in BOOLEAN
  /\ MaxCommands \in Nat /\ MaxCrashes \in Nat

VARIABLES
  loose,    \* every loose object file: absent, partial or whole
  idx,      \* every pack index: none, torn (not all of it written) or whole
  packed,   \* the objects of every pack
  refs,     \* the roots refs name
  proc,     \* the command each process is in
  started,  \* commands started so far
  crashes   \* processes killed so far

vars == <<loose, idx, packed, refs, proc, started, crashes>>
storeVars == <<loose, idx, packed>>

\* roots: what the command publishes when it ends; todo: the objects it has
\* still to see stored, or those of the pack it fetches; obj: the object it is
\* writing, or the tips it has; cache: the ids in its objectCache.
NoCommand == [pc |-> "idle", cmd |-> "none", roots |-> {}, todo |-> {},
              obj |-> {}, pack |-> {}, cache |-> {}]

Init ==
  /\ loose = [o \in Object |-> "absent"]
  /\ idx = [k \in Pack |-> "none"]
  /\ packed = [k \in Pack |-> {}]
  /\ refs = {}
  /\ proc = [p \in Process |-> NoCommand]
  /\ started = 0
  /\ crashes = 0

-----------------------------------------------------------------------------
(* HaveObject and GetObject.                                               *)

Indexed(k) == IF idx[k] = "whole" THEN packed[k] ELSE {}

\* A loose file counts whatever it holds, a pack once its index is written.
Present(o) == loose[o] # "absent" \/ \E k \in Pack : o \in Indexed(k)
Stored == {o \in Object : Present(o)}

\* getObject of a new process: a loose file shadows the packs.
Readable(o) == IF loose[o] = "absent" THEN Present(o) ELSE loose[o] = "whole"

\* HaveObject finds o and caches C: o itself, or what the indexes list that it
\* read up to the first one that has o.
Found(p, o, C) ==
  \/ o \in proc[p].cache /\ C = {}
  \/ loose[o] # "absent" /\ C = {o}
  \/ \E K \in SUBSET Pack :
       /\ loose[o] = "absent"
       /\ \E k \in K : {j \in K : o \in Indexed(j)} = {k}
       /\ C = UNION {Indexed(k) : k \in K}

\* An index whose tables are shorter than its fanout says, or that lists
\* nothing: HasObject reads the first entry of an empty table.
BadIndex ==
  \E k \in Pack : idx[k] = "torn" \/ (idx[k] = "whole" /\ packed[k] = {})

\* The lookup reads every index, caches what they list and finds nothing.
Missing(p, o, C) ==
  /\ o \notin proc[p].cache /\ ~Present(o) /\ ~BadIndex
  /\ C = UNION {Indexed(k) : k \in Pack}

\* It meets a bad index.
Panics(p, o) == o \notin proc[p].cache /\ loose[o] = "absent" /\ BadIndex

-----------------------------------------------------------------------------

Start(p, c, R, S) ==
  /\ proc[p].pc = "idle"
  /\ c \in Commands
  /\ started < MaxCommands
  /\ started' = started + 1
  /\ proc' = [proc EXCEPT ![p] = [NoCommand EXCEPT !.pc = "look", !.cmd = c,
                                    !.roots = R, !.todo = S]]
  /\ UNCHANGED <<storeVars, refs, crashes>>

Reach(R) == UNION {Closure[r] : r \in R}

\* Bug: the ref is moved to what the commit holds, not to the commit.
StartWrite_MovesToTree(p, r) ==
  /\ (Root \cap Closure[r]) \ {r} \subseteq refs
  /\ Start(p, "write", Closure[r] \ {r}, Closure[r] \ Reach(refs))

\* add, write-tree and commit: the objects of a commit whose parents are
\* published.
StartWrite(p, r) ==
  /\ (Root \cap Closure[r]) \ {r} \subseteq refs
  /\ Start(p, "write", {r}, Closure[r] \ Reach(refs))

\* unpack-objects: every object of a pack, in the order of the pack.
StartUnpack(p, r) == Start(p, "unpack", {}, Closure[r])

\* fetch from a remote with the refs R.
StartFetch(p, R) == R # {} /\ Start(p, "fetch", R, R)

\* Bug: a tree is written before the objects it names.
Eligible_Any(p, o) == o \in proc[p].todo

\* Trees follow their entries and commits their trees; a pack has any order.
Eligible(p, o) ==
  /\ o \in proc[p].todo
  /\ proc[p].cmd = "unpack" \/ Closure[o] \cap proc[p].todo = {o}

\* WriteObject looks first.  An object that is found is not written.
LookBeforeWrite(p) ==
  /\ proc[p].pc = "look" /\ proc[p].cmd # "fetch"
  /\ \E o \in Object, C \in SUBSET Object :
       /\ Eligible(p, o)
       /\ \/ /\ Found(p, o, C)
             /\ proc' = [proc EXCEPT ![p].todo = @ \ {o}, ![p].cache = @ \cup C]
          \/ /\ Missing(p, o, C)
             /\ proc' = [proc EXCEPT ![p].pc = "create", ![p].obj = {o},
                                     ![p].cache = @ \cup C]
          \/ /\ Panics(p, o)
             /\ proc' = [proc EXCEPT ![p].pc = "panicked"]
  /\ UNCHANGED <<storeVars, refs, started, crashes>>

\* File.Create: the object has its name, and is empty.
CreateObject(p) ==
  /\ proc[p].pc = "create"
  /\ loose' = [o \in Object |-> IF o \in proc[p].obj THEN "partial" ELSE loose[o]]
  /\ proc' = [proc EXCEPT ![p].pc = "fill"]
  /\ UNCHANGED <<idx, packed, refs, started, crashes>>

\* Bug: the compressor is never closed, so nothing reaches the file.
FillObject_NotFlushed(p) ==
  /\ proc[p].pc = "fill"
  /\ proc' = [proc EXCEPT ![p].pc = "look", ![p].obj = {},
                          ![p].todo = @ \ proc[p].obj]
  /\ UNCHANGED <<storeVars, refs, started, crashes>>

FillObject(p) ==
  /\ proc[p].pc = "fill"
  /\ loose' = [o \in Object |-> IF o \in proc[p].obj THEN "whole" ELSE loose[o]]
  /\ proc' = [proc EXCEPT ![p].pc = "look", ![p].obj = {},
                          ![p].todo = @ \ proc[p].obj]
  /\ UNCHANGED <<idx, packed, refs, started, crashes>>

\* The last object is stored.
FinishWrite(p) ==
  /\ proc[p].pc = "look" /\ proc[p].cmd # "fetch" /\ proc[p].todo = {}
  /\ proc' = [proc EXCEPT ![p].pc = "publish"]
  /\ UNCHANGED <<storeVars, refs, started, crashes>>

\* commit moves one ref, a fetch one after the other.  unpack-objects has none.
Publish(p) ==
  /\ proc[p].pc = "publish"
  /\ \E r \in proc[p].roots :
       /\ refs' = refs \cup {r}
       /\ proc' = [proc EXCEPT ![p].roots = @ \ {r}]
  /\ UNCHANGED <<storeVars, started, crashes>>

Exit(p) ==
  /\ proc[p].pc = "publish" /\ proc[p].roots = {}
  /\ proc' = [proc EXCEPT ![p] = NoCommand]
  /\ UNCHANGED <<storeVars, refs, started, crashes>>

-----------------------------------------------------------------------------
(* Fetch.                                                                  *)

\* Every tip of the remote is looked up: had if it is found, else wanted.
WantOrHave(p) ==
  /\ proc[p].pc = "look" /\ proc[p].cmd = "fetch"
  /\ \E o \in proc[p].todo, C \in SUBSET Object :
       \/ /\ Found(p, o, C)
          /\ proc' = [proc EXCEPT ![p].todo = @ \ {o}, ![p].obj = @ \cup {o},
                                  ![p].cache = @ \cup C]
       \/ /\ Missing(p, o, C)
          /\ proc' = [proc EXCEPT ![p].todo = @ \ {o}, ![p].cache = @ \cup C]
       \/ Panics(p, o) /\ proc' = [proc EXCEPT ![p].pc = "panicked"]
  /\ UNCHANGED <<storeVars, refs, started, crashes>>

\* The remote's answer: what is wanted without what is reached from a have.
PackContents(p) == Reach(proc[p].roots) \ Reach(proc[p].obj)

\* Nothing is wanted.
UpToDate(p) ==
  /\ proc[p].pc = "look" /\ proc[p].cmd = "fetch"
  /\ proc[p].todo = {} /\ proc[p].obj = proc[p].roots
  /\ proc' = [proc EXCEPT ![p].pc = "publish"]
  /\ UNCHANGED <<storeVars, refs, started, crashes>>

\* The pack arrives in a temporary file.
ReceivePack(p) ==
  /\ proc[p].pc = "look" /\ proc[p].cmd = "fetch"
  /\ proc[p].todo = {} /\ proc[p].obj # proc[p].roots
  /\ proc' = [proc EXCEPT ![p].pc = "rename", ![p].todo = PackContents(p)]
  /\ UNCHANGED <<storeVars, refs, started, crashes>>

\* The names a pack of the objects S may get.  The name is a hash of the index.
Free(k) ==
  idx[k] = "none" /\ packed[k] = {} /\ \A q \in Process : k \notin proc[q].pack
Names(S) ==
  LET same == {k \in Pack : SamePackTwice /\ packed[k] = S}
  IN  IF same = {} THEN {k \in Pack : Free(k)} ELSE same

\* The temporary pack gets its name.
RenamePack(p) ==
  /\ proc[p].pc = "rename"
  /\ \E k \in Names(proc[p].todo) :
       /\ packed' = [packed EXCEPT ![k] = proc[p].todo]
       /\ proc' = [proc EXCEPT ![p].pc = "index", ![p].pack = {k}, ![p].todo = {}]
  /\ UNCHANGED <<loose, idx, refs, started, crashes>>

SetIndex(p, from, to, s) ==
  /\ proc[p].pc = from
  /\ idx' = [k \in Pack |-> IF k \in proc[p].pack THEN s ELSE idx[k]]
  /\ proc' = [proc EXCEPT ![p].pc = to]
  /\ UNCHANGED <<loose, packed, refs, started, crashes>>

\* os.Create of the index, which is then written piece by piece.
CreateIndex(p) == SetIndex(p, "index", "tables", "torn")

\* Bug: the refs are moved before the index is written.
WriteIndex_Skipped(p) == SetIndex(p, "tables", "publish", "torn")

WriteIndex(p) == SetIndex(p, "tables", "publish", "whole")

-----------------------------------------------------------------------------

Crash(p) ==
  /\ proc[p].pc \notin {"idle", "panicked"}
  /\ crashes < MaxCrashes
  /\ crashes' = crashes + 1
  /\ proc' = [proc EXCEPT ![p] = NoCommand]
  /\ UNCHANGED <<storeVars, refs, started>>

Begin(p) ==
  \/ \E r \in Root : StartWrite(p, r) \/ StartUnpack(p, r)
  \/ \E R \in SUBSET Root : StartFetch(p, R)

Advance(p) ==
  \/ LookBeforeWrite(p) \/ CreateObject(p) \/ FillObject(p) \/ FinishWrite(p)
  \/ WantOrHave(p) \/ UpToDate(p) \/ ReceivePack(p) \/ RenamePack(p)
  \/ CreateIndex(p) \/ WriteIndex(p)
  \/ Publish(p) \/ Exit(p)

Next == \E p \in Process : Begin(p) \/ Advance(p) \/ Crash(p)

Spec == Init /\ [][Next]_vars

\* The operating system runs every process that has work left.
FairSpec == Spec /\ \A p \in Process : WF_vars(Advance(p))

-----------------------------------------------------------------------------
(* Properties.                                                             *)

ProcType ==
  [pc: {"idle", "look", "create", "fill", "publish", "rename", "index",
        "tables", "panicked"},
   cmd: {"none", "write", "unpack", "fetch"},
   roots: SUBSET Root, todo: SUBSET Object, obj: SUBSET Object,
   pack: SUBSET Pack, cache: SUBSET Object]

\* Files, refs and processes have the values the actions give them.
TypeOK ==
  /\ loose \in [Object -> {"absent", "partial", "whole"}]
  /\ idx \in [Pack -> {"none", "torn", "whole"}]
  /\ packed \in [Pack -> SUBSET Object]
  /\ refs \in SUBSET Root
  /\ proc \in [Process -> ProcType]
  /\ started \in 0..MaxCommands
  /\ crashes \in 0..MaxCrashes

\* No ref names a history with a hole: every object reachable from a published
\* root has a file or an indexed place, even when writers share objects, skip
\* what another has begun and are killed anywhere.
PublishedPresent == \A r \in refs : Closure[r] \subseteq Stored

\* Each kill leaves at most one object file torn for good.
Fillers(o) == {p \in Process : proc[p].pc = "fill" /\ o \in proc[p].obj}
TornObjectsBounded ==
  Cardinality({o \in Object : loose[o] = "partial" /\ Fillers(o) = {}}) <= crashes

\* Unless a process was killed or panicked, every published object can be read
\* in the end, although a process may publish an object that another is still
\* writing, and two may write the same object or index the same pack.
PublishedBecomesReadable ==
  \A o \in Object :
    o \in Reach(refs)
    ~> \/ [](Readable(o))
       \/ crashes > 0 \/ \E p \in Process : proc[p].pc = "panicked"

Closed == INSTANCE ClosedStore WITH stored <- Stored

\* Objects are added after what they refer to, and none disappears.
ImplementsClosedStore == Closed!Spec

=============================================================================
