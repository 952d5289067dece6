-------------------------- MODULE ObjectStoreProofs --------------------------
(***************************************************************************)
(* Safety of the object store, for any number of processes, packs, kills   *)
(* and any object graph.                                                   *)
(*                                                                         *)
(* PublishedPresent is not inductive: a ref is moved because of what an    *)
(* earlier step of the same command saw stored, so the invariant adds      *)
(* Good, what the record of a process owes to the store at each program    *)
(* counter.  For a fetch that is only true of a store that is closed under *)
(* reachability, because the remote leaves out the history of what is had; *)
(* unpack-objects does not keep the store closed, and a repeated pack      *)
(* truncates an index, so the theorems assume those away.                  *)
(***************************************************************************)
EXTENDS ObjectStore, LibraryLemmas, TLAPS

\* Everything the objects of O reach is in S.
Covers(S, O) == \A o \in O : Closure[o] \subseteq S

Stage == [index |-> "none", tables |-> "torn"]
Indexing == {"index", "tables"}

\* What the record c of a process says of a store with the objects S, the
\* indexes ix and the packs pk.
Good(c, S, ix, pk) ==
  /\ c.cache \subseteq S
  /\ c.cmd \in Commands \cup {"none"}
  /\ c.cmd = "none" <=> c.pc = "idle"
  /\ c.cmd = "unpack" => c.roots = {}
  /\ c.pc \in {"create", "fill"} => c.cmd \in {"write", "unpack"}
  /\ c.pc \in Indexing \cup {"rename"} => c.cmd = "fetch"
  /\ c.pc \in {"idle", "look", "create", "fill", "rename"} => c.pack = {}
  /\ c.pc \in {"look", "create", "fill"} /\ c.cmd = "write"
       => Covers(S \cup c.todo, c.roots \cup c.todo)
  /\ c.pc = "create"
       => \E o \in Object : /\ c.obj = {o}
                            /\ c.cmd = "write" => Closure[o] \subseteq S \cup {o}
  /\ c.pc = "fill" \/ (c.pc = "look" /\ c.cmd = "fetch") => c.obj \subseteq S
  /\ c.pc = "rename" => Covers(S \cup c.todo, c.roots \cup c.todo)
  /\ c.pc \in Indexing
       => \E k \in Pack : /\ c.pack = {k} /\ ix[k] = Stage[c.pc]
                          /\ Covers(S \cup pk[k], c.roots \cup pk[k])
  /\ c.pc = "publish" => Covers(S, c.roots)

AllGood == \A p \in Process : Good(proc[p], Stored, idx, packed)

OwnPacks == \A p, q \in Process : p # q => proc[p].pack \cap proc[q].pack = {}

StoreClosed == "unpack" \notin Commands => Covers(Stored, Stored)

IInv == TypeOK /\ AllGood /\ OwnPacks /\ StoreClosed /\ PublishedPresent

-----------------------------------------------------------------------------

LEMMA InitInv == Init => IInv
<1> SUFFICES ASSUME Init PROVE IInv
  OBVIOUS
<1>1. TypeOK
  BY BoundsAssumption DEF Init, TypeOK, NoCommand, ProcType
<1>2. Stored = {}
  BY DEF Init, Stored, Present, Indexed
<1>3. AllGood
  BY DEF Init, AllGood, Good, NoCommand, Indexing
<1>4. OwnPacks
  BY DEF Init, OwnPacks, NoCommand
<1>5. StoreClosed /\ PublishedPresent
  BY <1>2 DEF Init, StoreClosed, Covers, PublishedPresent
<1> QED BY <1>1, <1>3, <1>4, <1>5 DEF IInv

\* The types are inductive by themselves.
LEMMA TypeStep == TypeOK /\ [Next]_vars => TypeOK'
<1> SUFFICES ASSUME TypeOK, [Next]_vars PROVE TypeOK'
  OBVIOUS
<1> USE DEF TypeOK, storeVars, ProcType
<1>1. CASE UNCHANGED vars
  BY <1>1 DEF vars
<1>2. ASSUME NEW p \in Process, NEW c, NEW R \in SUBSET Root,
             NEW S \in SUBSET Object, Start(p, c, R, S)
      PROVE  TypeOK'
  <2>1. c \in {"none", "write", "unpack", "fetch"}
    BY <1>2, BoundsAssumption DEF Start
  <2>2. [NoCommand EXCEPT !.pc = "look", !.cmd = c, !.roots = R, !.todo = S]
          \in ProcType
    BY <2>1 DEF NoCommand, ProcType
  <2> QED BY <1>2, <2>2, BoundsAssumption DEF Start
<1>3. ASSUME NEW p \in Process, Begin(p) PROVE TypeOK'
  <2>1. \A R \in SUBSET Root : R \subseteq Object /\ Reach(R) \subseteq Object
    BY ClosureAssumption DEF Reach
  <2>2. \A r \in Root : Closure[r] \subseteq Object
    BY ClosureAssumption
  <2>3. ASSUME NEW r \in Root, StartWrite(p, r) PROVE TypeOK'
    <3>1. {r} \in SUBSET Root /\ Closure[r] \ Reach(refs) \in SUBSET Object
      BY <2>2
    <3> QED BY <1>2, <2>3, <3>1 DEF StartWrite
  <2>4. ASSUME NEW r \in Root, StartUnpack(p, r) PROVE TypeOK'
    <3>1. {} \in SUBSET Root /\ Closure[r] \in SUBSET Object
      BY <2>2
    <3> QED BY <1>2, <2>4, <3>1 DEF StartUnpack
  <2>5. ASSUME NEW R \in SUBSET Root, StartFetch(p, R) PROVE TypeOK'
    <3>1. R \in SUBSET Object
      BY <2>1
    <3> QED BY <1>2, <2>5, <3>1 DEF StartFetch
  <2> QED BY <1>3, <2>3, <2>4, <2>5 DEF Begin
<1>4. ASSUME NEW p \in Process, LookBeforeWrite(p) PROVE TypeOK'
  BY <1>4 DEF LookBeforeWrite
<1>5. ASSUME NEW p \in Process, CreateObject(p) \/ FillObject(p) PROVE TypeOK'
  BY <1>5 DEF CreateObject, FillObject
<1>6. ASSUME NEW p \in Process, WantOrHave(p) PROVE TypeOK'
  <2>1. PICK o \in Object, C \in SUBSET Object :
          proc' \in {[proc EXCEPT ![p].todo = @ \ {o}, ![p].obj = @ \cup {o},
                                 ![p].cache = @ \cup C],
                    [proc EXCEPT ![p].todo = @ \ {o}, ![p].cache = @ \cup C],
                    [proc EXCEPT ![p].pc = "panicked"]}
    <3>1. proc[p].todo \subseteq Object
      OBVIOUS
    <3> QED BY <1>6, <3>1 DEF WantOrHave
  <2> QED BY <1>6, <2>1 DEF WantOrHave
<1>7. ASSUME NEW p \in Process, ReceivePack(p) PROVE TypeOK'
  <2>1. PackContents(p) \in SUBSET Object
    <3>1. proc[p].roots \subseteq Object
      BY ClosureAssumption
    <3>2. Reach(proc[p].roots) \subseteq Object
      BY <3>1, ClosureAssumption DEF Reach
    <3> QED BY <3>2 DEF PackContents
  <2>2. [proc[p] EXCEPT !.pc = "rename", !.todo = PackContents(p)] \in ProcType
    BY <2>1
  <2>3. proc' = [proc EXCEPT ![p] =
                   [proc[p] EXCEPT !.pc = "rename", !.todo = PackContents(p)]]
    BY <1>7 DEF ReceivePack
  <2>4. proc' \in [Process -> ProcType]
    BY <2>2, <2>3 DEF TypeOK
  <2> QED BY <1>7, <2>4 DEF ReceivePack
<1>8. ASSUME NEW p \in Process, RenamePack(p) PROVE TypeOK'
  <2>1. PICK k \in Pack :
          /\ packed' = [packed EXCEPT ![k] = proc[p].todo]
          /\ proc' = [proc EXCEPT ![p].pc = "index", ![p].pack = {k}, ![p].todo = {}]
    <3>1. Names(proc[p].todo) \subseteq Pack
      BY DEF Names
    <3> QED BY <1>8, <3>1 DEF RenamePack
  <2>2. [proc[p] EXCEPT !.pc = "index", !.pack = {k}, !.todo = {}] \in ProcType
    OBVIOUS
  <2>3. proc' \in [Process -> ProcType]
    BY <2>1, <2>2
  <2>4. packed' \in [Pack -> SUBSET Object]
    <3>1. proc[p].todo \in SUBSET Object
      OBVIOUS
    <3> QED BY <2>1, <3>1
  <2> QED BY <1>8, <2>3, <2>4 DEF RenamePack
<1>9. ASSUME NEW p \in Process,
             CreateIndex(p) \/ WriteIndex(p)
      PROVE  TypeOK'
  BY <1>9 DEF CreateIndex, WriteIndex, SetIndex
<1>10. ASSUME NEW p \in Process, FinishWrite(p) \/ UpToDate(p) PROVE TypeOK'
  BY SMTT(40), <1>10 DEF FinishWrite, UpToDate
<1>11. ASSUME NEW p \in Process, Publish(p) PROVE TypeOK'
  BY SMTT(40), <1>11 DEF Publish
<1>12. ASSUME NEW p \in Process, Exit(p) \/ Crash(p) PROVE TypeOK'
  BY <1>12, BoundsAssumption DEF Exit, Crash, NoCommand
<1> QED BY <1>1, <1>3, <1>4, <1>5, <1>6, <1>7, <1>8, <1>9, <1>10, <1>11, <1>12
     DEF Next, Advance

\* Every step keeps the types.
THEOREM TypeCorrect == Spec => []TypeOK
<1>1. Init => TypeOK
  BY InitInv DEF IInv
<1> QED BY <1>1, TypeStep, PTL DEF Spec

-----------------------------------------------------------------------------

\* What a record says survives when the store grows and its pack is left alone.
LEMMA GoodStable ==
  ASSUME NEW c, NEW S, NEW T, NEW ix, NEW jx, NEW pk, NEW qk,
         S \subseteq T, Good(c, S, ix, pk),
         \A k \in c.pack : jx[k] = ix[k] /\ qk[k] = pk[k]
  PROVE  Good(c, T, jx, qk)
<1>1. ASSUME NEW U, NEW O, Covers(S \cup U, O) PROVE Covers(T \cup U, O)
  BY <1>1 DEF Covers
<1>2. Covers(S, c.roots) => Covers(T, c.roots)
  BY DEF Covers
<1>3. c.pc \in Indexing
      => \E k \in Pack : /\ c.pack = {k} /\ jx[k] = Stage[c.pc]
                         /\ Covers(T \cup qk[k], c.roots \cup qk[k])
  <2> SUFFICES ASSUME c.pc \in Indexing
               PROVE  \E k \in Pack : /\ c.pack = {k} /\ jx[k] = Stage[c.pc]
                                      /\ Covers(T \cup qk[k], c.roots \cup qk[k])
    OBVIOUS
  <2>1. PICK k \in Pack : /\ c.pack = {k} /\ ix[k] = Stage[c.pc]
                          /\ Covers(S \cup pk[k], c.roots \cup pk[k])
    BY DEF Good
  <2>2. jx[k] = ix[k] /\ qk[k] = pk[k]
    BY <2>1
  <2>3. Covers(T \cup qk[k], c.roots \cup qk[k])
    BY <1>1, <2>1, <2>2
  <2> QED BY <2>1, <2>2, <2>3
<1>4. c.pc = "create"
      => \E o \in Object : /\ c.obj = {o}
                           /\ c.cmd = "write" => Closure[o] \subseteq T \cup {o}
  BY DEF Good
<1> QED BY <1>1, <1>2, <1>3, <1>4 DEF Good

\* A step of p keeps the invariant when it adds to the store and leaves the
\* packs of the others alone.
LEMMA StepOfOne ==
  ASSUME IInv, TypeOK', NEW p \in Process,
         \A q \in Process : q # p => proc'[q] = proc[q],
         Stored \subseteq Stored',
         \A q \in Process : q # p =>
           \A k \in proc[q].pack : idx'[k] = idx[k] /\ packed'[k] = packed[k],
         Good(proc'[p], Stored', idx', packed'),
         \A q \in Process : q # p => proc'[p].pack \cap proc[q].pack = {},
         StoreClosed', PublishedPresent'
  PROVE  IInv'
<1>1. ASSUME NEW q \in Process PROVE Good(proc'[q], Stored', idx', packed')
  <2>1. CASE q # p
    <3>1. Good(proc[q], Stored, idx, packed)
      BY DEF IInv, AllGood
    <3> HIDE DEF Stored
    <3>2. Good(proc[q], Stored', idx', packed')
      BY <2>1, <3>1, GoodStable
    <3> QED BY <2>1, <3>2
  <2> QED BY <2>1
<1>2. AllGood'
  BY <1>1 DEF AllGood
<1>3. OwnPacks'
  BY DEF IInv, OwnPacks
<1> QED BY <1>2, <1>3 DEF IInv

\* A step of p that leaves the store and the refs alone.
LEMMA QuietStep ==
  ASSUME IInv, TypeOK', NEW p \in Process,
         \A q \in Process : q # p => proc'[q] = proc[q],
         UNCHANGED <<loose, idx, packed, refs>>,
         Good(proc'[p], Stored, idx, packed),
         proc'[p].pack \subseteq proc[p].pack
  PROVE  IInv'
<1>1. Stored' = Stored
  BY DEF Stored, Present, Indexed
<1>2. StoreClosed' /\ PublishedPresent'
  BY <1>1 DEF IInv, StoreClosed, PublishedPresent, Covers
<1>3. \A q \in Process : q # p => proc'[p].pack \cap proc[q].pack = {}
  BY DEF IInv, OwnPacks
<1>4. Good(proc'[p], Stored', idx', packed')
  BY <1>1
<1> QED BY <1>1, <1>2, <1>3, <1>4, StepOfOne

\* What is found is stored.
LEMMA FoundStored ==
  ASSUME IInv, NEW p \in Process, NEW o \in Object, NEW C, Found(p, o, C)
  PROVE  o \in Stored /\ C \subseteq Stored
<1>1. \A k \in Pack : Indexed(k) \subseteq Stored
  BY DEF IInv, TypeOK, Indexed, Stored, Present
<1>2. proc[p].cache \subseteq Stored
  BY DEF IInv, AllGood, Good
<1>3. CASE o \in proc[p].cache /\ C = {}
  BY <1>2, <1>3
<1>4. CASE loose[o] # "absent" /\ C = {o}
  BY <1>4 DEF Stored, Present
<1>5. ASSUME NEW K \in SUBSET Pack, \E k \in K : {j \in K : o \in Indexed(j)} = {k},
             C = UNION {Indexed(k) : k \in K}
      PROVE  o \in Stored /\ C \subseteq Stored
  BY <1>1, <1>5
<1> QED BY <1>3, <1>4, <1>5 DEF Found

LEMMA MissingCaches ==
  ASSUME IInv, NEW p \in Process, NEW o \in Object, NEW C, Missing(p, o, C)
  PROVE  C \subseteq Stored
<1>1. \A k \in Pack : Indexed(k) \subseteq Stored
  BY DEF IInv, TypeOK, Indexed, Stored, Present
<1> QED BY <1>1 DEF Missing

-----------------------------------------------------------------------------
(* The steps that only change the record of their process.                 *)

\* The instances the theorems are about.
Separate ==
  ~SamePackTwice /\ ("unpack" \notin Commands \/ "fetch" \notin Commands)

LEMMA ReachIn == ASSUME NEW O \in SUBSET Object
                 PROVE  Reach(O) \subseteq Object /\ Covers(Reach(O), Reach(O))
BY ClosureAssumption DEF Reach, Covers

LEMMA BeginStep == ASSUME IInv, TypeOK', NEW p \in Process, Begin(p) PROVE IInv'
<1>1. ASSUME NEW c, NEW R, NEW S, c \in Commands, c \in {"unpack", "fetch"},
             c = "unpack" => R = {}, Start(p, c, R, S)
      PROVE  IInv'
  <2>1. proc'[p] = [NoCommand EXCEPT !.pc = "look", !.cmd = c,
                                     !.roots = R, !.todo = S]
    BY <1>1 DEF Start, IInv, TypeOK
  <2>2. Good(proc'[p], Stored, idx, packed)
    BY <1>1, <2>1 DEF Good, NoCommand, Indexing
  <2> QED BY <1>1, <2>1, <2>2, QuietStep
          DEF Start, IInv, TypeOK, NoCommand, storeVars
<1>2. ASSUME NEW r \in Root, StartWrite(p, r) PROVE IInv'
  <2> DEFINE S == Closure[r] \ Reach(refs)
  <2>1. proc'[p] = [NoCommand EXCEPT !.pc = "look", !.cmd = "write",
                                     !.roots = {r}, !.todo = S]
    BY <1>2 DEF StartWrite, Start, IInv, TypeOK
  <2>2. Reach(refs) \subseteq Stored
    BY DEF Reach, IInv, PublishedPresent
  <2>3. Covers(Stored \cup S, {r} \cup S)
    <3>1. \A o \in {r} \cup S : Closure[o] \subseteq Closure[r]
      BY ClosureAssumption
    <3> QED BY <2>2, <3>1 DEF Covers
  <2>4. "write" \in Commands
    BY <1>2 DEF StartWrite, Start
  <2>5. Good(proc'[p], Stored, idx, packed)
    <3> HIDE DEF S
    <3> QED BY <2>1, <2>3, <2>4 DEF Good, NoCommand, Indexing
  <2> QED BY <1>2, <2>1, <2>5, QuietStep
          DEF StartWrite, Start, IInv, TypeOK, NoCommand, storeVars
<1>3. ASSUME NEW r \in Root, StartUnpack(p, r) PROVE IInv'
  BY <1>1, <1>3 DEF StartUnpack, Start
<1>4. ASSUME NEW R \in SUBSET Root, StartFetch(p, R) PROVE IInv'
  BY <1>1, <1>4 DEF StartFetch, Start
<1> QED BY <1>2, <1>3, <1>4 DEF Begin

LEMMA LookBeforeWriteStep ==
  ASSUME IInv, TypeOK', NEW p \in Process, LookBeforeWrite(p) PROVE IInv'
<1>1. PICK o \in Object, C \in SUBSET Object :
        /\ Eligible(p, o)
        /\ \/ /\ Found(p, o, C)
              /\ proc' = [proc EXCEPT ![p].todo = @ \ {o}, ![p].cache = @ \cup C]
           \/ /\ Missing(p, o, C)
              /\ proc' = [proc EXCEPT ![p].pc = "create", ![p].obj = {o},
                                      ![p].cache = @ \cup C]
           \/ proc' = [proc EXCEPT ![p].pc = "panicked"]
  BY DEF LookBeforeWrite
<1>2. proc[p] \in ProcType /\ Good(proc[p], Stored, idx, packed)
  BY DEF IInv, TypeOK, AllGood
<1>3. proc[p].pc = "look" /\ proc[p].cmd \in {"write", "unpack"}
  BY <1>2 DEF LookBeforeWrite, Good, ProcType
<1>4. Good(proc'[p], Stored, idx, packed)
  <2>1. CASE Found(p, o, C) /\
             proc' = [proc EXCEPT ![p].todo = @ \ {o}, ![p].cache = @ \cup C]
    <3>1. o \in Stored /\ C \subseteq Stored
      BY <2>1, FoundStored
    <3>2. proc'[p] = [proc[p] EXCEPT !.todo = @ \ {o}, !.cache = @ \cup C]
      BY <2>1 DEF IInv, TypeOK
    <3>3. Stored \cup (proc[p].todo \ {o}) = Stored \cup proc[p].todo
      BY <3>1
    <3> HIDE DEF Stored
    <3> QED BY <1>2, <1>3, <3>1, <3>2, <3>3 DEF Good, ProcType, Covers, Indexing
  <2>2. CASE Missing(p, o, C) /\
             proc' = [proc EXCEPT ![p].pc = "create", ![p].obj = {o},
                                  ![p].cache = @ \cup C]
    <3>1. C \subseteq Stored
      BY <2>2, MissingCaches
    <3>2. proc'[p] = [proc[p] EXCEPT !.pc = "create", !.obj = {o}, !.cache = @ \cup C]
      BY <2>2 DEF IInv, TypeOK
    <3>3. proc[p].cmd = "write" => Closure[o] \subseteq Stored \cup {o}
      BY <1>1, <1>2, <1>3 DEF Eligible, Good, Covers
    <3> HIDE DEF Stored
    <3> QED BY <1>2, <1>3, <3>1, <3>2, <3>3 DEF Good, ProcType, Indexing
  <2>3. CASE proc' = [proc EXCEPT ![p].pc = "panicked"]
    <3>1. proc'[p] = [proc[p] EXCEPT !.pc = "panicked"]
      BY <2>3 DEF IInv, TypeOK
    <3> QED BY <1>2, <1>3, <3>1 DEF Good, ProcType, Indexing
  <2> QED BY <1>1, <2>1, <2>2, <2>3
<1>5. proc'[p].pack = proc[p].pack
  BY <1>1, <1>2 DEF IInv, TypeOK, ProcType
<1>6. \A q \in Process : q # p => proc'[q] = proc[q]
  BY <1>1 DEF IInv, TypeOK
<1> QED BY <1>4, <1>5, <1>6, QuietStep DEF LookBeforeWrite, storeVars

\* Where a fetch runs, nothing is unpacked and the store is closed.
LEMMA FetchClosed ==
  ASSUME IInv, Separate, NEW p \in Process, proc[p].cmd = "fetch"
  PROVE  Covers(Stored, Stored)
<1>1. "fetch" \in Commands
  BY DEF IInv, AllGood, Good
<1> QED BY <1>1 DEF Separate, IInv, StoreClosed

LEMMA WantOrHaveStep ==
  ASSUME IInv, TypeOK', NEW p \in Process, WantOrHave(p) PROVE IInv'
<1>1. proc[p] \in ProcType /\ Good(proc[p], Stored, idx, packed)
  BY DEF IInv, TypeOK, AllGood
<1>2. proc[p].pc = "look" /\ proc[p].cmd = "fetch" /\ proc[p].todo \subseteq Object
  BY <1>1 DEF WantOrHave, ProcType
<1>3. PICK o \in Object, C \in SUBSET Object :
        \/ /\ Found(p, o, C)
           /\ proc' = [proc EXCEPT ![p].todo = @ \ {o}, ![p].obj = @ \cup {o},
                                   ![p].cache = @ \cup C]
        \/ /\ Missing(p, o, C)
           /\ proc' = [proc EXCEPT ![p].todo = @ \ {o}, ![p].cache = @ \cup C]
        \/ proc' = [proc EXCEPT ![p].pc = "panicked"]
  BY <1>2 DEF WantOrHave
<1>4. Good(proc'[p], Stored, idx, packed)
  <2>1. CASE /\ Found(p, o, C)
             /\ proc' = [proc EXCEPT ![p].todo = @ \ {o}, ![p].obj = @ \cup {o},
                                     ![p].cache = @ \cup C]
    <3>1. o \in Stored /\ C \subseteq Stored
      BY <2>1, FoundStored
    <3>2. proc'[p] = [proc[p] EXCEPT !.todo = @ \ {o}, !.obj = @ \cup {o},
                                     !.cache = @ \cup C]
      BY <2>1 DEF IInv, TypeOK
    <3> HIDE DEF Stored
    <3> QED BY <1>1, <1>2, <3>1, <3>2 DEF Good, ProcType, Indexing
  <2>2. CASE /\ Missing(p, o, C)
             /\ proc' = [proc EXCEPT ![p].todo = @ \ {o}, ![p].cache = @ \cup C]
    <3>1. C \subseteq Stored
      BY <2>2, MissingCaches
    <3>2. proc'[p] = [proc[p] EXCEPT !.todo = @ \ {o}, !.cache = @ \cup C]
      BY <2>2 DEF IInv, TypeOK
    <3> HIDE DEF Stored
    <3> QED BY <1>1, <1>2, <3>1, <3>2 DEF Good, ProcType, Indexing
  <2>3. CASE proc' = [proc EXCEPT ![p].pc = "panicked"]
    <3>1. proc'[p] = [proc[p] EXCEPT !.pc = "panicked"]
      BY <2>3 DEF IInv, TypeOK
    <3> QED BY <1>1, <1>2, <3>1 DEF Good, ProcType, Indexing
  <2> QED BY <1>3, <2>1, <2>2, <2>3
<1>5. proc'[p].pack = proc[p].pack
  BY <1>3, <1>1 DEF IInv, TypeOK, ProcType
<1>6. \A q \in Process : q # p => proc'[q] = proc[q]
  BY <1>3 DEF IInv, TypeOK
<1> QED BY <1>4, <1>5, <1>6, QuietStep DEF WantOrHave, storeVars

\* A command that has all it needs may publish.
LEMMA ToPublish ==
  ASSUME NEW c \in ProcType, NEW S, NEW ix, NEW pk, Good(c, S, ix, pk),
         c.pc = "look", Covers(S, c.roots)
  PROVE  Good([c EXCEPT !.pc = "publish"], S, ix, pk)
<1> DEFINE d == [c EXCEPT !.pc = "publish"]
<1>1. /\ d.pc = "publish" /\ d.cmd = c.cmd /\ d.roots = c.roots
      /\ d.cache = c.cache /\ d.pack = c.pack
  BY DEF ProcType
<1> HIDE DEF d
<1>2. Good(d, S, ix, pk)
  BY <1>1 DEF Good, Indexing
<1> QED BY <1>2 DEF d

LEMMA UpToDateStep ==
  ASSUME IInv, TypeOK', Separate, NEW p \in Process, UpToDate(p) PROVE IInv'
<1>1. proc[p] \in ProcType /\ Good(proc[p], Stored, idx, packed)
  BY DEF IInv, TypeOK, AllGood
<1>2. Covers(Stored, Stored)
  BY FetchClosed DEF UpToDate
<1>3. proc'[p] = [proc[p] EXCEPT !.pc = "publish"]
  BY DEF UpToDate, IInv, TypeOK
<1>4. Covers(Stored, proc[p].roots)
  BY <1>1, <1>2 DEF UpToDate, Good, Covers
<1>5. Good(proc'[p], Stored, idx, packed)
  <2>1. proc[p].pc = "look"
    BY DEF UpToDate
  <2> HIDE DEF Stored
  <2>2. Good([proc[p] EXCEPT !.pc = "publish"], Stored, idx, packed)
    BY <1>1, <1>4, <2>1, ToPublish
  <2> QED BY <1>3, <2>2
<1> QED BY <1>1, <1>3, <1>5, QuietStep
        DEF UpToDate, IInv, TypeOK, ProcType, storeVars

LEMMA ReceivePackStep ==
  ASSUME IInv, TypeOK', Separate, NEW p \in Process, ReceivePack(p) PROVE IInv'
<1> DEFINE S == PackContents(p)
<1>1. proc[p] \in ProcType /\ Good(proc[p], Stored, idx, packed)
  BY DEF IInv, TypeOK, AllGood
<1>2. Covers(Stored, Stored)
  BY FetchClosed DEF ReceivePack
<1>3. Reach(proc[p].obj) \subseteq Stored
  BY <1>1, <1>2 DEF ReceivePack, Good, Covers, Reach
<1>4. Covers(Stored \cup S, proc[p].roots \cup S)
  <2>1. proc[p].roots \in SUBSET Object
    BY <1>1, ClosureAssumption DEF ProcType
  <2>2. Covers(Reach(proc[p].roots), proc[p].roots \cup Reach(proc[p].roots))
    BY <2>1, ReachIn DEF Reach, Covers
  <2> QED BY <1>3, <2>2 DEF Covers, PackContents
<1>5. proc'[p] = [proc[p] EXCEPT !.pc = "rename", !.todo = S]
  BY DEF ReceivePack, IInv, TypeOK
<1>6. Good(proc'[p], Stored, idx, packed)
  <2>1. proc[p].pc = "look" /\ proc[p].cmd = "fetch"
    BY DEF ReceivePack
  <2>2. PICK T : T = S
    OBVIOUS
  <2>3. /\ Covers(Stored \cup T, proc[p].roots \cup T)
        /\ proc'[p] = [proc[p] EXCEPT !.pc = "rename", !.todo = T]
    BY <1>4, <1>5, <2>2
  <2>4. /\ proc'[p].pc = "rename" /\ proc'[p].cmd = "fetch"
        /\ proc'[p].todo = T /\ proc'[p].roots = proc[p].roots
        /\ proc'[p].cache = proc[p].cache /\ proc'[p].pack = proc[p].pack
    BY <1>1, <2>1, <2>3 DEF ProcType
  <2>5. Covers(Stored \cup proc'[p].todo, proc'[p].roots \cup proc'[p].todo)
    BY <2>3, <2>4
  <2> HIDE DEF S, Stored
  <2>6. proc'[p].cache \subseteq Stored /\ "fetch" \in Commands \cup {"none"}
        /\ proc'[p].pack = {}
    BY <1>1, <2>1, <2>4 DEF Good
  <2> QED BY <2>4, <2>5, <2>6 DEF Good, Indexing
<1> QED BY <1>1, <1>5, <1>6, QuietStep
        DEF ReceivePack, IInv, TypeOK, ProcType, storeVars

LEMMA FinishWriteStep ==
  ASSUME IInv, TypeOK', NEW p \in Process, FinishWrite(p) PROVE IInv'
<1>1. proc[p] \in ProcType /\ Good(proc[p], Stored, idx, packed)
  BY DEF IInv, TypeOK, AllGood
<1>2. proc'[p] = [proc[p] EXCEPT !.pc = "publish"]
  BY DEF FinishWrite, IInv, TypeOK
<1>3. Covers(Stored, proc[p].roots)
  BY <1>1 DEF FinishWrite, Good, ProcType, Covers
<1>4. Good(proc'[p], Stored, idx, packed)
  <2>1. proc[p].pc = "look"
    BY DEF FinishWrite
  <2> HIDE DEF Stored
  <2>2. Good([proc[p] EXCEPT !.pc = "publish"], Stored, idx, packed)
    BY <1>1, <1>3, <2>1, ToPublish
  <2> QED BY <1>2, <2>2
<1> QED BY SMTT(30), <1>1, <1>2, <1>4, QuietStep
        DEF FinishWrite, IInv, TypeOK, ProcType, storeVars

LEMMA EndStep ==
  ASSUME IInv, TypeOK', NEW p \in Process, Exit(p) \/ Crash(p) PROVE IInv'
<1>1. proc' = [proc EXCEPT ![p] = NoCommand] /\ UNCHANGED <<loose, idx, packed, refs>>
  BY DEF Exit, Crash, storeVars
<1>2. proc'[p] = NoCommand
  BY <1>1 DEF IInv, TypeOK
<1>3. Good(proc'[p], Stored, idx, packed)
  BY <1>2 DEF Good, NoCommand, Indexing
<1> QED BY <1>1, <1>2, <1>3, QuietStep DEF IInv, TypeOK, NoCommand

-----------------------------------------------------------------------------
(* The steps that change the store or the refs.                            *)

LEMMA PublishStep == ASSUME IInv, TypeOK', NEW p \in Process, Publish(p) PROVE IInv'
<1>1. proc[p] \in ProcType /\ Good(proc[p], Stored, idx, packed)
  BY DEF IInv, TypeOK, AllGood
<1>2. PICK r \in proc[p].roots :
        /\ refs' = refs \cup {r}
        /\ proc'[p] = [proc[p] EXCEPT !.roots = @ \ {r}]
  BY DEF Publish, IInv, TypeOK
<1>3. Stored' = Stored /\ idx' = idx /\ packed' = packed
  BY DEF Publish, storeVars, Stored, Present, Indexed
<1>4. Good(proc'[p], Stored, idx, packed)
  BY <1>1, <1>2 DEF Publish, Good, ProcType, Indexing, Covers
<1>5. PublishedPresent'
  <2>1. Closure[r] \subseteq Stored
    BY <1>1, <1>2 DEF Publish, Good, Covers
  <2> QED BY <1>2, <1>3, <2>1 DEF IInv, PublishedPresent
<1>6. StoreClosed'
  BY <1>3 DEF IInv, StoreClosed
<1>7. \A q \in Process : q # p => proc'[q] = proc[q]
  BY DEF Publish, IInv, TypeOK
<1>8. \A q \in Process : q # p => proc'[p].pack \cap proc[q].pack = {}
  BY <1>1, <1>2 DEF IInv, OwnPacks, ProcType
<1>9. Good(proc'[p], Stored', idx', packed')
  BY <1>3, <1>4
<1> QED BY <1>3, <1>5, <1>6, <1>7, <1>8, <1>9, StepOfOne

\* A loose file that gets a value other than absent adds its object.
LEMMA LooseGrows ==
  ASSUME TypeOK, NEW O \in SUBSET Object, NEW s, s # "absent",
         loose' = [o \in Object |-> IF o \in O THEN s ELSE loose[o]],
         UNCHANGED <<idx, packed>>
  PROVE  Stored' = Stored \cup O
BY DEF TypeOK, Stored, Present, Indexed

LEMMA CreateObjectStep ==
  ASSUME IInv, TypeOK', NEW p \in Process, CreateObject(p) PROVE IInv'
<1>1. proc[p] \in ProcType /\ Good(proc[p], Stored, idx, packed)
  BY DEF IInv, TypeOK, AllGood
<1>2. PICK o \in Object :
        /\ proc[p].obj = {o}
        /\ proc[p].cmd = "write" => Closure[o] \subseteq Stored \cup {o}
  BY <1>1 DEF CreateObject, Good
<1>3. proc[p].pc = "create" /\ proc[p].cmd \in {"write", "unpack"} /\ proc[p].cmd \in Commands
  BY <1>1 DEF CreateObject, Good
<1>4. Stored' = Stored \cup {o} /\ UNCHANGED <<idx, packed, refs>>
  BY <1>2, LooseGrows DEF CreateObject, IInv
<1>5. proc'[p] = [proc[p] EXCEPT !.pc = "fill"]
  BY DEF CreateObject, IInv, TypeOK
<1>6. Good(proc'[p], Stored', idx', packed')
  <2>1. Good(proc[p], Stored \cup {o}, idx, packed)
    <3> HIDE DEF Stored
    <3> QED BY <1>1, GoodStable
  <2>2. Good(proc'[p], Stored \cup {o}, idx, packed)
    <3> HIDE DEF Stored
    <3> QED BY <1>1, <1>2, <1>3, <1>5, <2>1 DEF Good, ProcType, Indexing
  <2> QED BY <1>4, <2>2
<1>7. StoreClosed'
  BY <1>2, <1>3, <1>4 DEF IInv, StoreClosed, Covers
<1>8. PublishedPresent'
  BY <1>4 DEF IInv, PublishedPresent
<1>9. \A q \in Process : q # p => proc'[q] = proc[q]
  BY DEF CreateObject, IInv, TypeOK
<1>10. \A q \in Process : q # p => proc'[p].pack \cap proc[q].pack = {}
  BY <1>1, <1>5 DEF IInv, OwnPacks, ProcType
<1> QED BY <1>4, <1>6, <1>7, <1>8, <1>9, <1>10, StepOfOne

LEMMA FillObjectStep ==
  ASSUME IInv, TypeOK', NEW p \in Process, FillObject(p) PROVE IInv'
<1>1. proc[p] \in ProcType /\ Good(proc[p], Stored, idx, packed)
  BY DEF IInv, TypeOK, AllGood
<1>2. proc[p].pc = "fill" /\ proc[p].obj \subseteq Stored /\ proc[p].cmd # "fetch"
  BY <1>1 DEF FillObject, Good
<1>3. Stored' = Stored /\ UNCHANGED <<idx, packed, refs>>
  <2>1. proc[p].obj \in SUBSET Object
    BY <1>1 DEF ProcType
  <2> QED BY <1>2, <2>1, LooseGrows DEF FillObject, IInv
<1>4. proc'[p] = [proc[p] EXCEPT !.pc = "look", !.obj = {}, !.todo = @ \ proc[p].obj]
  BY DEF FillObject, IInv, TypeOK
<1>5. Stored \cup (proc[p].todo \ proc[p].obj) = Stored \cup proc[p].todo
  BY <1>2
<1>6. Good(proc'[p], Stored, idx, packed)
  <2> HIDE DEF Stored
  <2> QED BY <1>1, <1>2, <1>4, <1>5 DEF Good, ProcType, Indexing, Covers
<1>7. StoreClosed' /\ PublishedPresent'
  BY <1>3 DEF IInv, StoreClosed, PublishedPresent, Covers
<1>8. \A q \in Process : q # p => proc'[q] = proc[q]
  BY DEF FillObject, IInv, TypeOK
<1>9. \A q \in Process : q # p => proc'[p].pack \cap proc[q].pack = {}
  BY <1>1, <1>4 DEF IInv, OwnPacks, ProcType
<1>10. Good(proc'[p], Stored', idx', packed')
  BY <1>3, <1>6
<1> QED BY <1>3, <1>7, <1>8, <1>9, <1>10, StepOfOne

LEMMA RenamePackStep ==
  ASSUME IInv, TypeOK', Separate, NEW p \in Process, RenamePack(p) PROVE IInv'
<1>1. proc[p] \in ProcType /\ Good(proc[p], Stored, idx, packed)
  BY DEF IInv, TypeOK, AllGood
<1> DEFINE T == proc[p].todo
<1>2. Names(T) = {k \in Pack : Free(k)}
  BY DEF Names, Separate
<1>3. PICK k \in Pack :
        /\ Free(k)
        /\ packed' = [packed EXCEPT ![k] = T]
        /\ proc' = [proc EXCEPT ![p].pc = "index", ![p].pack = {k}, ![p].todo = {}]
  BY <1>2 DEF RenamePack
<1>4. idx[k] = "none" /\ \A q \in Process : k \notin proc[q].pack
  BY <1>3 DEF Free
<1>5. proc'[p] = [proc[p] EXCEPT !.pc = "index", !.pack = {k}, !.todo = {}]
  BY <1>3 DEF IInv, TypeOK
<1>6. packed' = [packed EXCEPT ![k] = T] /\ packed'[k] = T
  BY <1>3 DEF IInv, TypeOK
<1>7. UNCHANGED <<loose, idx, refs>>
  BY DEF RenamePack
<1>8. Stored' = Stored
  <2>1. \A j \in Pack : Indexed(j)' = Indexed(j)
    BY <1>4, <1>6, <1>7 DEF Indexed, IInv, TypeOK
  <2> QED BY <1>7, <2>1 DEF Stored, Present
<1>9. Good(proc'[p], Stored', idx', packed')
  <2>1. Covers(Stored \cup T, proc[p].roots \cup T)
    BY <1>1 DEF RenamePack, Good
  <2>2. Covers(Stored' \cup packed'[k], proc'[p].roots \cup packed'[k])
    BY <1>1, <1>5, <1>6, <1>8, <2>1 DEF ProcType
  <2>3. proc'[p].pc = "index" /\ proc'[p].pack = {k} /\ idx'[k] = Stage["index"]
    BY <1>1, <1>4, <1>5, <1>7 DEF ProcType, Stage
  <2>4. proc'[p].cmd = "fetch" /\ proc'[p].cmd \in Commands /\ proc'[p].cache \subseteq Stored'
    BY <1>1, <1>5, <1>8 DEF RenamePack, Good, ProcType, Indexing
  <2> HIDE DEF Stored
  <2> QED BY <2>2, <2>3, <2>4 DEF Good, Indexing
<1>10. StoreClosed' /\ PublishedPresent'
  BY <1>7, <1>8 DEF IInv, StoreClosed, PublishedPresent, Covers
<1>11. \A q \in Process : q # p =>
         /\ proc'[q] = proc[q]
         /\ proc'[p].pack \cap proc[q].pack = {}
         /\ \A j \in proc[q].pack : idx'[j] = idx[j] /\ packed'[j] = packed[j]
  BY <1>1, <1>3, <1>4, <1>5, <1>6, <1>7 DEF IInv, TypeOK, ProcType
<1> QED BY <1>8, <1>9, <1>10, <1>11, StepOfOne

\* What a step on the index of the pack k does to the store.
LEMMA IndexGrows ==
  ASSUME TypeOK, NEW k \in Pack, NEW s, idx[k] # "whole",
         idx' = [j \in Pack |-> IF j \in {k} THEN s ELSE idx[j]],
         UNCHANGED <<loose, packed>>
  PROVE  Stored' = IF s = "whole" THEN Stored \cup packed[k] ELSE Stored
<1>1. \A j \in Pack : j # k => Indexed(j)' = Indexed(j)
  BY DEF Indexed, TypeOK
<1>2. Indexed(k) = {} /\ Indexed(k)' = IF s = "whole" THEN packed[k] ELSE {}
  BY DEF Indexed, TypeOK
<1>3. packed[k] \subseteq Object
  BY DEF TypeOK
<1>4. \A o \in Object :
        Present(o)' <=> Present(o) \/ (s = "whole" /\ o \in packed[k])
  BY <1>1, <1>2 DEF Present
<1> QED BY <1>3, <1>4 DEF Stored

LEMMA SetIndexStep ==
  ASSUME IInv, TypeOK', NEW p \in Process, NEW from \in Indexing, NEW to, NEW s,
         SetIndex(p, from, to, s),
         \/ to \in Indexing /\ s = Stage[to]
         \/ to = "publish" /\ s = "whole"
  PROVE  IInv'
<1>1. proc[p] \in ProcType /\ Good(proc[p], Stored, idx, packed)
  BY DEF IInv, TypeOK, AllGood
<1>2. PICK k \in Pack :
        /\ proc[p].pack = {k} /\ idx[k] = Stage[from]
        /\ Covers(Stored \cup packed[k], proc[p].roots \cup packed[k])
  BY <1>1 DEF SetIndex, Good
<1>3. idx' = [j \in Pack |-> IF j \in {k} THEN s ELSE idx[j]]
  BY <1>2 DEF SetIndex
<1>4. proc'[p] = [proc[p] EXCEPT !.pc = to] /\ UNCHANGED <<loose, packed, refs>>
  BY DEF SetIndex, IInv, TypeOK
<1>5. idx[k] # "whole"
  BY <1>2 DEF Stage, Indexing
<1>6. Stored' = IF s = "whole" THEN Stored \cup packed[k] ELSE Stored
  BY <1>3, <1>4, <1>5, IndexGrows DEF IInv
<1>7. to \in Indexing => s # "whole"
  BY DEF Stage, Indexing
<1>8. idx'[k] = s
  BY <1>3
<1>9. /\ proc[p].cmd = "fetch" /\ proc[p].cmd \in Commands
      /\ proc[p].cache \subseteq Stored
  BY <1>1 DEF SetIndex, Good
<1>10. Good(proc'[p], Stored', idx', packed')
  <2>1. /\ proc'[p].pc = to /\ proc'[p].cmd = "fetch" /\ proc'[p].cmd \in Commands
        /\ proc'[p].cache \subseteq Stored' /\ proc'[p].pack = {k}
        /\ proc'[p].roots = proc[p].roots
    BY <1>1, <1>2, <1>4, <1>6, <1>9 DEF ProcType
  <2>2. CASE to \in Indexing /\ s = Stage[to]
    <3>1. Covers(Stored' \cup packed'[k], proc'[p].roots \cup packed'[k])
      BY <1>2, <1>4, <1>6, <1>7, <2>1, <2>2
    <3> HIDE DEF Stored
    <3> QED BY <1>8, <2>1, <2>2, <3>1 DEF Good, Indexing
  <2>3. CASE to = "publish" /\ s = "whole"
    <3>1. Covers(Stored', proc'[p].roots)
      BY <1>2, <1>6, <2>1, <2>3 DEF Covers
    <3> HIDE DEF Stored
    <3> QED BY <2>1, <2>3, <3>1 DEF Good, Indexing
  <2> QED BY <2>2, <2>3
<1>11. StoreClosed'
  BY <1>2, <1>6 DEF IInv, StoreClosed, Covers
<1>12. PublishedPresent'
  BY <1>4, <1>6 DEF IInv, PublishedPresent
<1>13. \A q \in Process : q # p =>
         /\ proc'[q] = proc[q]
         /\ proc'[p].pack \cap proc[q].pack = {}
         /\ \A j \in proc[q].pack : idx'[j] = idx[j] /\ packed'[j] = packed[j]
  <2>1. \A q \in Process : q # p => proc'[q] = proc[q] /\ k \notin proc[q].pack
    BY <1>2 DEF SetIndex, IInv, TypeOK, OwnPacks
  <2>2. proc'[p].pack = {k}
    BY <1>1, <1>2, <1>4 DEF ProcType
  <2>3. \A q \in Process : proc[q].pack \subseteq Pack
    BY DEF IInv, TypeOK, ProcType
  <2> QED BY <1>3, <1>4, <2>1, <2>2, <2>3
<1>14. Stored \subseteq Stored'
  BY <1>6
<1> QED BY <1>10, <1>11, <1>12, <1>13, <1>14, StepOfOne

-----------------------------------------------------------------------------

LEMMA InvStep == Separate /\ IInv /\ [Next]_vars => IInv'
<1> SUFFICES ASSUME Separate, IInv, [Next]_vars PROVE IInv'
  OBVIOUS
<1>1. TypeOK'
  BY TypeStep DEF IInv
<1>2. CASE UNCHANGED vars
  BY <1>2 DEF vars, IInv, TypeOK, AllGood, OwnPacks, StoreClosed, Covers,
              PublishedPresent, Stored, Present, Indexed
<1>3. ASSUME NEW p \in Process, CreateIndex(p) \/ WriteIndex(p)
      PROVE  IInv'
  <2>1. CASE CreateIndex(p)
    BY <1>1, <2>1, SetIndexStep DEF CreateIndex, Indexing, Stage
  <2>2. CASE WriteIndex(p)
    BY <1>1, <2>2, SetIndexStep DEF WriteIndex, Indexing
  <2> QED BY <1>3, <2>1, <2>2
<1>4. ASSUME NEW p \in Process, Advance(p) PROVE IInv'
  BY <1>1, <1>3, <1>4, LookBeforeWriteStep, CreateObjectStep, FillObjectStep,
     FinishWriteStep, WantOrHaveStep, UpToDateStep, ReceivePackStep,
     RenamePackStep, PublishStep, EndStep DEF Advance
<1> QED BY <1>1, <1>2, <1>4, BeginStep, EndStep DEF Next

\* No ref names a history with a missing object, however many processes write,
\* are killed and fetch, unless objects are unpacked where others fetch or a
\* pack arrives twice.
THEOREM NoHoles == ASSUME Separate PROVE Spec => []PublishedPresent
<1>1. Init => IInv
  BY InitInv
<1>2. IInv /\ [Next]_vars => IInv'
  BY InvStep
<1>3. IInv => PublishedPresent
  BY DEF IInv
<1> QED BY <1>1, <1>2, <1>3, PTL DEF Spec

-----------------------------------------------------------------------------

\* A step other than Publish leaves the refs alone and loses no object.
LEMMA StoreGrows ==
  ASSUME IInv, Separate, NEW p \in Process,
         Begin(p) \/ Advance(p) \/ Crash(p), ~Publish(p)
  PROVE  Stored \subseteq Stored' /\ refs' = refs
<1>1. proc[p] \in ProcType /\ Good(proc[p], Stored, idx, packed)
  BY DEF IInv, TypeOK, AllGood
<1>2. CASE UNCHANGED <<loose, idx, packed, refs>>
  BY <1>2 DEF Stored, Present, Indexed
<1>3. CASE CreateObject(p) \/ FillObject(p)
  <2>1. proc[p].obj \in SUBSET Object
    BY <1>1 DEF ProcType
  <2> QED BY <1>3, <2>1, LooseGrows DEF CreateObject, FillObject, IInv
<1>4. CASE RenamePack(p)
  <2>1. PICK k \in Pack : Free(k) /\ packed' = [packed EXCEPT ![k] = proc[p].todo]
    BY <1>4 DEF RenamePack, Names, Separate
  <2>2. \A j \in Pack : Indexed(j)' = Indexed(j)
    BY <1>4, <2>1 DEF RenamePack, Indexed, Free, IInv, TypeOK
  <2> QED BY <1>4, <2>2 DEF RenamePack, Stored, Present
<1>5. ASSUME NEW from \in Indexing, NEW to, NEW s, SetIndex(p, from, to, s)
      PROVE  Stored \subseteq Stored' /\ refs' = refs
  <2>1. PICK k \in Pack : proc[p].pack = {k} /\ idx[k] = Stage[from]
    BY <1>1, <1>5 DEF SetIndex, Good
  <2>2. idx[k] # "whole"
    BY <2>1 DEF Stage, Indexing
  <2>3. Stored' = IF s = "whole" THEN Stored \cup packed[k] ELSE Stored
    BY <1>5, <2>1, <2>2, IndexGrows DEF SetIndex, IInv
  <2> QED BY <1>5, <2>3 DEF SetIndex
<1>6. CASE CreateIndex(p) \/ WriteIndex(p)
  BY <1>5, <1>6 DEF CreateIndex, WriteIndex, Indexing
<1>7. CASE \/ LookBeforeWrite(p) \/ FinishWrite(p) \/ WantOrHave(p) \/ UpToDate(p)
           \/ ReceivePack(p) \/ Exit(p) \/ Crash(p)
  BY <1>2, <1>7 DEF LookBeforeWrite, FinishWrite, WantOrHave, UpToDate,
     ReceivePack, Exit, Crash, storeVars
<1>8. CASE Begin(p)
  BY <1>2, <1>8 DEF Begin, StartWrite, StartUnpack, StartFetch, Start, storeVars
<1> QED BY <1>3, <1>4, <1>6, <1>7, <1>8 DEF Advance

LEMMA ClosedInit == Init => Closed!Init
BY DEF Init, Closed!Init, Stored, Present, Indexed

LEMMA ClosedStep ==
  ASSUME "unpack" \notin Commands, Separate, IInv, IInv', [Next]_vars
  PROVE  [Closed!Next]_Closed!vars
<1>1. CASE UNCHANGED vars
  BY <1>1 DEF vars, Closed!vars, Stored, Present, Indexed
<1>2. ASSUME NEW p \in Process, Publish(p) PROVE Closed!Next
  <2>1. PICK r \in proc[p].roots : refs' = refs \cup {r}
    BY <1>2 DEF Publish
  <2>2. proc[p] \in ProcType /\ Good(proc[p], Stored, idx, packed)
    BY DEF IInv, TypeOK, AllGood
  <2>3. r \in Root /\ Closure[r] \subseteq Stored
    BY <1>2, <2>1, <2>2 DEF Publish, Good, Covers, ProcType
  <2>4. r \in Root \cap Stored
    BY <2>3, ClosureAssumption
  <2>5. Stored' = Stored
    BY <1>2 DEF Publish, storeVars, Stored, Present, Indexed
  <2> QED BY <2>1, <2>4, <2>5 DEF Closed!Next, Closed!Publish
<1>3. ASSUME NEW p \in Process, Begin(p) \/ Advance(p) \/ Crash(p), ~Publish(p)
      PROVE  Closed!Next
  <2>1. Stored \subseteq Stored' /\ refs' = refs
    BY <1>3, StoreGrows
  <2>2. Covers(Stored', Stored')
    BY DEF IInv, StoreClosed, Covers
  <2>3. Stored' \in SUBSET Object
    BY DEF Stored
  <2>4. PICK S \in SUBSET Object : S = Stored'
    BY <2>3
  <2>5. /\ \A o \in S : Closure[o] \subseteq Stored \cup S
        /\ Stored' = Stored \cup S
    BY <2>1, <2>2, <2>4 DEF Covers
  <2> HIDE DEF Stored
  <2> QED BY <2>1, <2>5 DEF Closed!Next, Closed!Put
<1> QED BY <1>1, <1>2, <1>3 DEF Next

\* Where nothing is unpacked and no pack arrives twice, objects are added after
\* what they refer to and refs are moved to what is stored.
THEOREM RefinesClosedStore ==
  ASSUME Separate, "unpack" \notin Commands
  PROVE  Spec => ImplementsClosedStore
<1>1. Init => Closed!Init
  BY ClosedInit
<1>2. Init => IInv
  BY InitInv
<1>3. IInv /\ [Next]_vars => IInv'
  BY InvStep
<1>4. IInv /\ IInv' /\ [Next]_vars => [Closed!Next]_Closed!vars
  BY ClosedStep
<1> QED BY <1>1, <1>2, <1>3, <1>4, PTL DEF Spec, ImplementsClosedStore, Closed!Spec

-----------------------------------------------------------------------------
(***************************************************************************)
(* Torn objects, without any of the assumptions above: a process writes    *)
(* one object at a time, and only a kill leaves it partly written.         *)
(***************************************************************************)

OneObject ==
  \A p \in Process :
    proc[p].pc \in {"create", "fill"} => \E o \in Object : proc[p].obj = {o}

Torn == {o \in Object : loose[o] = "partial" /\ Fillers(o) = {}}

TornInv ==
  TypeOK /\ OneObject /\ IsFiniteSet(Torn) /\ Cardinality(Torn) <= crashes

\* The record of one process changes: an object torn after the step was torn
\* before it, or the process was filling it.
LEMMA TornMove ==
  ASSUME TypeOK, NEW p \in Process, NEW r, proc' = [proc EXCEPT ![p] = r],
         \A o \in Object : loose'[o] = "partial"
           => loose[o] = "partial" \/ (r.pc = "fill" /\ o \in r.obj)
  PROVE  \A o \in Torn' : \/ o \in Torn
                          \/ /\ proc[p].pc = "fill" /\ o \in proc[p].obj
                             /\ loose'[o] = "partial"
<1> SUFFICES ASSUME NEW o \in Torn', o \notin Torn
             PROVE  /\ proc[p].pc = "fill" /\ o \in proc[p].obj
                    /\ loose'[o] = "partial"
  OBVIOUS
<1>1. o \in Object /\ loose'[o] = "partial" /\ Fillers(o)' = {}
  BY DEF Torn
<1>2. proc'[p] = r /\ \A q \in Process \ {p} : proc'[q] = proc[q]
  BY DEF TypeOK
<1>3. loose[o] = "partial"
  BY <1>1, <1>2 DEF Fillers
<1>4. PICK q \in Process : proc[q].pc = "fill" /\ o \in proc[q].obj
  BY <1>1, <1>3 DEF Torn, Fillers
<1>5. q = p
  BY <1>1, <1>2, <1>4 DEF Fillers
<1> QED BY <1>1, <1>4, <1>5

LEMMA TornFrame ==
  ASSUME TypeOK, NEW p \in Process, NEW r, proc' = [proc EXCEPT ![p] = r],
         UNCHANGED loose, proc[p].pc # "fill"
  PROVE  Torn' \subseteq Torn
BY TornMove

\* Which records the steps leave behind.
LEMMA OneObjectMove ==
  ASSUME TypeOK, OneObject, NEW p \in Process, NEW r,
         proc' = [proc EXCEPT ![p] = r],
         r.pc \in {"create", "fill"} => \E o \in Object : r.obj = {o}
  PROVE  OneObject'
<1>1. proc'[p] = r /\ \A q \in Process \ {p} : proc'[q] = proc[q]
  BY DEF TypeOK
<1> QED BY <1>1 DEF OneObject

\* A step that touches no loose file, of a process that fills none.
LEMMA QuietTorn ==
  ASSUME TypeOK, OneObject, NEW p \in Process, NEW r,
         proc' = [proc EXCEPT ![p] = r], UNCHANGED loose, proc[p].pc # "fill",
         r.pc \in {"create", "fill"} => \E o \in Object : r.obj = {o}
  PROVE  OneObject' /\ Torn' \subseteq Torn
BY TornFrame, OneObjectMove

LEMMA AdvanceTorn ==
  ASSUME TypeOK, OneObject, NEW p \in Process, Begin(p) \/ Advance(p)
  PROVE  OneObject' /\ Torn' \subseteq Torn /\ crashes' = crashes
<1>1. proc[p] \in ProcType
  BY DEF TypeOK
<1>2. CASE Begin(p)
  <2>1. PICK c, R, S : Start(p, c, R, S)
    BY <1>2 DEF Begin, StartWrite, StartUnpack, StartFetch
  <2> DEFINE r == [NoCommand EXCEPT !.pc = "look", !.cmd = c, !.roots = R,
                                    !.todo = S]
  <2>2. /\ proc[p].pc = "idle" /\ UNCHANGED <<loose, crashes>>
        /\ proc' = [proc EXCEPT ![p] = r]
    BY <2>1 DEF Start, storeVars
  <2>3. r.pc = "look"
    BY DEF NoCommand
  <2> HIDE DEF r
  <2> QED BY <2>2, <2>3, QuietTorn
<1>3. CASE LookBeforeWrite(p)
  <2>1. PICK o \in Object, C \in SUBSET Object :
          \/ proc' = [proc EXCEPT ![p].todo = @ \ {o}, ![p].cache = @ \cup C]
          \/ proc' = [proc EXCEPT ![p].pc = "create", ![p].obj = {o},
                                  ![p].cache = @ \cup C]
          \/ proc' = [proc EXCEPT ![p].pc = "panicked"]
    BY <1>3 DEF LookBeforeWrite
  <2>2. PICK r \in {[proc[p] EXCEPT !.todo = @ \ {o}, !.cache = @ \cup C],
                    [proc[p] EXCEPT !.pc = "create", !.obj = {o},
                                    !.cache = @ \cup C],
                    [proc[p] EXCEPT !.pc = "panicked"]} :
          proc' = [proc EXCEPT ![p] = r]
    BY <2>1
  <2>3. proc[p].pc = "look" /\ UNCHANGED <<loose, crashes>>
    BY <1>3 DEF LookBeforeWrite, storeVars
  <2>4. r.pc \in {"create", "fill"} => r.obj = {o}
    BY <1>1, <2>2, <2>3 DEF ProcType
  <2> QED BY <2>2, <2>3, <2>4, QuietTorn
<1>4. CASE CreateObject(p)
  <2> DEFINE r == [proc[p] EXCEPT !.pc = "fill"]
  <2>1. /\ proc[p].pc = "create" /\ crashes' = crashes
        /\ loose' = [o \in Object |->
                       IF o \in proc[p].obj THEN "partial" ELSE loose[o]]
        /\ proc' = [proc EXCEPT ![p] = r]
    BY <1>4 DEF CreateObject
  <2>2. r.pc = "fill" /\ r.obj = proc[p].obj
    BY <1>1 DEF ProcType
  <2>3. \A o \in Object : loose'[o] = "partial"
          => loose[o] = "partial" \/ (r.pc = "fill" /\ o \in r.obj)
    BY <2>1, <2>2
  <2>4. \E o \in Object : r.obj = {o}
    BY <2>1, <2>2 DEF OneObject
  <2> HIDE DEF r
  <2> QED BY <2>1, <2>3, <2>4, TornMove, OneObjectMove
<1>5. CASE FillObject(p)
  <2> DEFINE r == [proc[p] EXCEPT !.pc = "look", !.obj = {},
                                  !.todo = @ \ proc[p].obj]
  <2>1. /\ proc[p].pc = "fill" /\ crashes' = crashes
        /\ loose' = [o \in Object |->
                       IF o \in proc[p].obj THEN "whole" ELSE loose[o]]
        /\ proc' = [proc EXCEPT ![p] = r]
    BY <1>5 DEF FillObject
  <2>2. r.pc = "look"
    BY <1>1 DEF ProcType
  <2>3. \A o \in Object : loose'[o] = "partial"
          => loose[o] = "partial" /\ o \notin proc[p].obj
    BY <2>1
  <2> HIDE DEF r
  <2> QED BY <2>1, <2>2, <2>3, TornMove, OneObjectMove DEF Torn
<1>6. CASE \/ FinishWrite(p) \/ WantOrHave(p) \/ UpToDate(p) \/ ReceivePack(p)
           \/ RenamePack(p) \/ CreateIndex(p) \/ WriteIndex(p) \/ Publish(p)
           \/ Exit(p)
  <2>1. UNCHANGED <<loose, crashes>> /\ proc[p].pc \notin {"create", "fill"}
    BY <1>6 DEF FinishWrite, WantOrHave, UpToDate, ReceivePack, RenamePack,
       CreateIndex, WriteIndex, SetIndex, Publish, Exit, storeVars
  <2>2. ASSUME NEW r, proc' = [proc EXCEPT ![p] = r],
               r.pc \notin {"create", "fill"}
        PROVE  OneObject' /\ Torn' \subseteq Torn /\ crashes' = crashes
    BY <2>1, <2>2, QuietTorn
  <2>3. CASE WantOrHave(p)
    <3>1. PICK o, C :
            \/ proc' = [proc EXCEPT ![p].todo = @ \ {o}, ![p].obj = @ \cup {o},
                                    ![p].cache = @ \cup C]
            \/ proc' = [proc EXCEPT ![p].todo = @ \ {o}, ![p].cache = @ \cup C]
            \/ proc' = [proc EXCEPT ![p].pc = "panicked"]
      BY <2>3 DEF WantOrHave
    <3>2. PICK r \in {[proc[p] EXCEPT !.todo = @ \ {o}, !.obj = @ \cup {o},
                                      !.cache = @ \cup C],
                      [proc[p] EXCEPT !.todo = @ \ {o}, !.cache = @ \cup C],
                      [proc[p] EXCEPT !.pc = "panicked"]} :
            proc' = [proc EXCEPT ![p] = r]
      BY <3>1
    <3>3. r.pc \in {proc[p].pc, "panicked"}
      BY <1>1, <3>2 DEF ProcType
    <3> QED BY <2>1, <2>2, <3>2, <3>3
  <2>4. CASE FinishWrite(p) \/ UpToDate(p)
    <3> DEFINE r == [proc[p] EXCEPT !.pc = "publish"]
    <3>1. proc' = [proc EXCEPT ![p] = r] /\ r.pc = "publish"
      BY <1>1, <2>4 DEF FinishWrite, UpToDate, ProcType
    <3> HIDE DEF r
    <3> QED BY <2>2, <3>1
  <2>5. CASE ReceivePack(p)
    <3> DEFINE r == [proc[p] EXCEPT !.pc = "rename", !.todo = PackContents(p)]
    <3>1. proc' = [proc EXCEPT ![p] = r] /\ r.pc = "rename"
      BY <1>1, <2>5 DEF ReceivePack, ProcType
    <3> HIDE DEF r
    <3> QED BY <2>2, <3>1
  <2>6. CASE RenamePack(p)
    <3>1. PICK k : proc' = [proc EXCEPT ![p].pc = "index", ![p].pack = {k},
                                        ![p].todo = {}]
      BY <2>6 DEF RenamePack
    <3> DEFINE r == [proc[p] EXCEPT !.pc = "index", !.pack = {k}, !.todo = {}]
    <3>2. proc' = [proc EXCEPT ![p] = r] /\ r.pc = "index"
      BY <1>1, <3>1 DEF ProcType
    <3> HIDE DEF r
    <3> QED BY <2>2, <3>2
  <2>7. CASE CreateIndex(p) \/ WriteIndex(p)
    <3>1. PICK l \in {"tables", "publish"} : proc' = [proc EXCEPT ![p].pc = l]
      BY <2>7 DEF CreateIndex, WriteIndex, SetIndex
    <3> DEFINE r == [proc[p] EXCEPT !.pc = l]
    <3>2. proc' = [proc EXCEPT ![p] = r] /\ r.pc = l
      BY <1>1, <3>1 DEF ProcType
    <3> HIDE DEF r
    <3> QED BY <2>2, <3>1, <3>2
  <2>8. CASE Publish(p)
    <3>1. PICK x : proc' = [proc EXCEPT ![p].roots = @ \ {x}]
      BY <2>8 DEF Publish
    <3> DEFINE r == [proc[p] EXCEPT !.roots = @ \ {x}]
    <3>2. proc' = [proc EXCEPT ![p] = r] /\ r.pc = proc[p].pc
      BY <1>1, <3>1 DEF ProcType
    <3> HIDE DEF r
    <3> QED BY <2>1, <2>2, <3>2
  <2>9. CASE Exit(p)
    <3>1. proc' = [proc EXCEPT ![p] = NoCommand] /\ NoCommand.pc = "idle"
      BY <2>9 DEF Exit, NoCommand
    <3> QED BY <2>2, <3>1
  <2> QED BY <1>6, <2>3, <2>4, <2>5, <2>6, <2>7, <2>8, <2>9
<1> QED BY <1>2, <1>3, <1>4, <1>5, <1>6 DEF Advance

\* A process that is killed tears at most the object it was filling.
LEMMA CrashTorn ==
  ASSUME TypeOK, OneObject, NEW p \in Process, Crash(p)
  PROVE  /\ OneObject' /\ crashes' = crashes + 1
         /\ \E o : Torn' \subseteq Torn \cup {o}
<1>1. UNCHANGED loose /\ proc' = [proc EXCEPT ![p] = NoCommand]
  BY DEF Crash, storeVars
<1>2. OneObject'
  BY <1>1, OneObjectMove DEF NoCommand
<1>3. PICK o : proc[p].pc = "fill" => proc[p].obj = {o}
  BY DEF OneObject
<1>4. Torn' \subseteq Torn \cup {o}
  <2>1. \A x \in Torn' : x \in Torn \/ (proc[p].pc = "fill" /\ x \in proc[p].obj)
    BY <1>1, TornMove
  <2> QED BY <1>3, <2>1
<1> QED BY <1>2, <1>4 DEF Crash

LEMMA NextTorn == TornInv /\ [Next]_vars => TornInv'
<1> SUFFICES ASSUME TornInv, [Next]_vars PROVE TornInv'
  OBVIOUS
<1>1. TypeOK /\ OneObject /\ TypeOK' /\ crashes \in Nat
  BY TypeStep, BoundsAssumption DEF TornInv, TypeOK
<1>2. /\ OneObject'
      /\ \/ Torn' \subseteq Torn /\ crashes' = crashes
         \/ \E o : Torn' \subseteq Torn \cup {o} /\ crashes' = crashes + 1
  <2>1. CASE UNCHANGED vars
    BY <1>1, <2>1 DEF vars, Torn, Fillers, OneObject
  <2>2. CASE Next
    <3>1. PICK p \in Process : Begin(p) \/ Advance(p) \/ Crash(p)
      BY <2>2 DEF Next
    <3>2. CASE Crash(p)
      BY <1>1, <3>2, CrashTorn
    <3>3. CASE Begin(p) \/ Advance(p)
      BY <1>1, <3>3, AdvanceTorn
    <3> QED BY <3>1, <3>2, <3>3
  <2> QED BY <2>1, <2>2
<1>3. IsFiniteSet(Torn) /\ Cardinality(Torn) <= crashes
  BY DEF TornInv
<1>4. IsFiniteSet(Torn') /\ Cardinality(Torn') <= crashes'
  <2>1. CASE Torn' \subseteq Torn /\ crashes' = crashes
    BY <1>1, <1>3, <2>1, BoundStep
  <2>2. ASSUME NEW o, Torn' \subseteq Torn \cup {o}, crashes' = crashes + 1
        PROVE  IsFiniteSet(Torn') /\ Cardinality(Torn') <= crashes'
    <3> HIDE DEF Torn
    <3> QED BY <1>1, <1>3, <2>2, BoundStep
  <2> QED BY <1>2, <2>1, <2>2
<1> QED BY <1>1, <1>2, <1>4 DEF TornInv

LEMMA InitTorn == Init => TornInv
<1> SUFFICES ASSUME Init PROVE TornInv
  OBVIOUS
<1>1. Torn = {}
  BY DEF Init, Torn
<1>2. IsFiniteSet(Torn) /\ Cardinality(Torn) = 0
  BY <1>1, FS_EmptySet
<1>3. OneObject
  BY DEF Init, OneObject, NoCommand
<1> QED BY <1>2, <1>3, InitInv DEF Init, TornInv, IInv

\* A loose object is partly written only while a process is writing it: k kills
\* leave at most k object files torn, whatever runs beside them.
THEOREM KillsTearOneObject == Spec => []TornObjectsBounded
<1>1. TornInv => TornObjectsBounded
  BY DEF TornInv, TornObjectsBounded, Torn
<1>2. Spec => []TornInv
  BY InitTorn, NextTorn, PTL DEF Spec
<1> QED BY <1>1, <1>2, PTL

=============================================================================
