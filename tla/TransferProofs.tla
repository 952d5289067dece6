--------------------------- MODULE TransferProofs ---------------------------
(***************************************************************************)
(* Proofs about Transfer: refs never outrun the commits a repository has,  *)
(* the pack of a push completes what the remote has, and a push that was   *)
(* not forced moves branches forward; and every answer of a fetch is read, *)
(* but for those version 1 reads lines too many of.                        *)
(***************************************************************************)
EXTENDS Transfer, LibraryLemmas, TLAPS

CmdType ==
  [op : {"none", "push", "fetch", "clone"}, at : {"end", "sent", "asked", "config", "track"},
   said : {"nothing", "ok", "error", "garbled", "panic", "killed"},
   version : {1, 2}, http : BOOLEAN, force : BOOLEAN,
   lines : SUBSET [to : Ref, old : Commit \cup {None}, new : Commit \cup {None}],
   pack : SUBSET Commit, wants : SUBSET Commit, haves : SUBSET Commit, seen : Refs, left : SUBSET Ref]

ConfType == [linked : BOOLEAN, glob : BOOLEAN, up : SUBSET Ref]

-----------------------------------------------------------------------------
(* The inductive invariant.                                                *)

\* Commits with all that they descend from.
Shut(S) == S \subseteq Commit /\ \A k \in S : History[k] \subseteq S

\* Refs to commits of S.
In(refs, S) == refs \in [Ref -> S \cup {None}]

\* What a request may rely on until it is answered, with S what the client has.
AskedOK(C, S) ==
  C.at = "asked" => /\ C.haves \subseteq S
                    /\ \A r \in C.left : C.seen[r] \in S \cup C.wants

ArrivedOK(C, S) == C.at \in {"config", "track"} => \A r \in C.left : C.seen[r] \in S

Olds(C) == {l.old : l \in C.lines} \ {None}

SentOK(C) ==
  C.at = "sent" =>
    /\ \A l \in C.lines : l.new # None => History[l.new] \subseteq C.pack \cup Reach(Olds(C))
    /\ \A l, m \in C.lines : l.to = m.to => l = m
    /\ ~C.force => \A l \in C.lines : l.new # None /\ l.old # None => l.old \in History[l.new]

LeftOK(C) == \A r \in C.left : C.seen[r] # None

CommandOK(C, S) == C \in CmdType /\ LeftOK(C) /\ AskedOK(C, S) /\ ArrivedOK(C, S) /\ SentOK(C)

RemoteOK == Shut(robj) /\ In(rref, robj)

ClientOK(c) == Shut(obj[c]) /\ In(head[c], obj[c]) /\ In(track[c], obj[c])

LocalTypes ==
  /\ head \in [Client -> Refs] /\ track \in [Client -> Refs] /\ obj \in [Client -> SUBSET Commit]
  /\ conf \in [Client -> ConfType] /\ dir \in [Client -> BOOLEAN] /\ ran \in 0..MaxRuns

CommandsOK == cmd \in [Client -> CmdType] /\ \A c \in Client : CommandOK(cmd[c], obj[c])

IInv == RemoteOK /\ LocalTypes /\ (\A c \in Client : ClientOK(c)) /\ CommandsOK

-----------------------------------------------------------------------------
(* Histories.                                                              *)

LEMMA ReachShut ==
  ASSUME NEW S \in SUBSET Commit
  PROVE  Shut(Reach(S)) /\ S \subseteq Reach(S)
<1>1. Reach(S) \subseteq Commit
  BY TransferAssumption DEF Reach
<1>2. ASSUME NEW k \in Reach(S)
      PROVE  History[k] \subseteq Reach(S)
  <2>1. PICK s \in S : k \in History[s]
    BY DEF Reach
  <2>2. History[k] \subseteq History[s]
    BY <2>1, TransferAssumption
  <2> QED
    BY <2>2 DEF Reach
<1>3. S \subseteq Reach(S)
  BY TransferAssumption DEF Reach
<1> QED
  BY <1>1, <1>2, <1>3 DEF Shut

LEMMA ReachInside ==
  ASSUME NEW T, Shut(T), NEW S, S \subseteq T
  PROVE  Reach(S) \subseteq T
  BY DEF Shut, Reach

LEMMA NoneIsNoCommit == None \notin Commit
  BY TransferAssumption

LEMMA NamedIn ==
  ASSUME NEW S, NEW refs, In(refs, S)
  PROVE  Named(refs) \subseteq S
  BY DEF In, Named

LEMMA InGrows ==
  ASSUME NEW S, NEW T, S \subseteq T, NEW refs, In(refs, S)
  PROVE  In(refs, T)
  BY DEF In

LEMMA InSet ==
  ASSUME NEW S, NEW refs, In(refs, S), NEW r \in Ref, NEW k \in S \cup {None}
  PROVE  In([refs EXCEPT ![r] = k], S)
  BY DEF In

LEMMA NoRefsIn == \A S : In(NoRefs, S)
  BY DEF In, NoRefs

LEMMA InRefs ==
  ASSUME NEW S \in SUBSET Commit, NEW refs, In(refs, S)
  PROVE  refs \in Refs
  BY DEF In, Refs

-----------------------------------------------------------------------------
(* Command records.                                                        *)

LEMMA NoCommandType == NoCommand \in CmdType /\ NoRefs \in Refs
<1>1. NoRefs \in Refs
  BY DEF NoRefs, Refs
<1> QED
  BY <1>1 DEF NoCommand, CmdType

LEMMA EndedOK ==
  ASSUME NEW C \in CmdType, C.at = "end", C.left = {}, NEW S
  PROVE  CommandOK(C, S)
  BY DEF CommandOK, LeftOK, AskedOK, ArrivedOK, SentOK

LEMMA StoppedOK ==
  ASSUME NEW op \in {"none", "push", "fetch", "clone"},
         NEW how \in {"nothing", "ok", "error", "garbled", "panic", "killed"}, NEW S
  PROVE  CommandOK([NoCommand EXCEPT !.op = op, !.said = how], S)
<1> DEFINE C == [NoCommand EXCEPT !.op = op, !.said = how]
<1>1. C \in CmdType /\ C.at = "end" /\ C.left = {}
  BY NoCommandType DEF NoCommand, CmdType
<1> QED
  BY <1>1, EndedOK

LEMMA ClosedOK ==
  ASSUME NEW C \in CmdType,
         NEW how \in {"nothing", "ok", "error", "garbled", "panic", "killed"}, NEW S
  PROVE  CommandOK(Closed(C, how), S)
<1>1. Closed(C, how) \in CmdType /\ Closed(C, how).at = "end" /\ Closed(C, how).left = {}
  BY NoCommandType DEF Closed, NoCommand, CmdType
<1> QED
  BY <1>1, EndedOK

LEMMA CommandGrows ==
  ASSUME NEW C, NEW S, NEW T, S \subseteq T, CommandOK(C, S)
  PROVE  CommandOK(C, T)
  BY DEF CommandOK, AskedOK, ArrivedOK

-----------------------------------------------------------------------------
(* Steps of one client: it ends with the record X, and what clients have   *)
(* has grown.                                                              *)

LEMMA CommandStep ==
  ASSUME IInv, NEW c \in Client, NEW X, cmd' = [cmd EXCEPT ![c] = X],
         CommandOK(X, obj'[c]), \A d \in Client : obj[d] \subseteq obj'[d]
  PROVE  CommandsOK'
<1>1. cmd' \in [Client -> CmdType]
  BY DEF IInv, CommandsOK, CommandOK
<1>2. ASSUME NEW d \in Client
      PROVE  CommandOK(cmd'[d], obj'[d])
  <2>1. CASE d = c
    BY <2>1 DEF IInv, CommandsOK
  <2>2. CASE d # c
    BY <2>2, CommandGrows DEF IInv, CommandsOK
  <2> QED
    BY <2>1, <2>2
<1> QED
  BY <1>1, <1>2 DEF CommandsOK

LEMMA CommandsKept ==
  ASSUME IInv, cmd' = cmd, \A d \in Client : obj[d] \subseteq obj'[d]
  PROVE  CommandsOK'
<1>1. ASSUME NEW d \in Client
      PROVE  CommandOK(cmd'[d], obj'[d])
  BY CommandGrows DEF IInv, CommandsOK
<1> QED
  BY <1>1 DEF IInv, CommandsOK

LEMMA RemoteKept ==
  ASSUME IInv, UNCHANGED remote
  PROVE  RemoteOK'
  BY DEF IInv, RemoteOK, remote, Shut, In

LEMMA ClientsKept ==
  ASSUME IInv, UNCHANGED <<head, track, obj>>
  PROVE  \A c \in Client : ClientOK(c)'
  BY DEF IInv, ClientOK

LEMMA RunType ==
  ASSUME IInv, NEW c, Idle(c), Run
  PROVE  ran' \in 0..MaxRuns
  BY TransferAssumption DEF IInv, LocalTypes, Idle, Run

\* Only the record of c changes, and perhaps ran.
LEMMA OnlyCommand ==
  ASSUME IInv, NEW c \in Client, NEW X, cmd' = [cmd EXCEPT ![c] = X], CommandOK(X, obj[c]),
         UNCHANGED <<remote, local>>, ran' \in 0..MaxRuns
  PROVE  IInv'
<1>1. CommandsOK'
  BY CommandStep DEF local
<1>2. RemoteOK' /\ \A d \in Client : ClientOK(d)'
  BY RemoteKept, ClientsKept DEF local
<1>3. LocalTypes'
  BY DEF IInv, LocalTypes, local
<1> QED
  BY <1>1, <1>2, <1>3 DEF IInv

-----------------------------------------------------------------------------
(* A client alone.                                                         *)

LEMMA InitInv == Init => IInv
<1> SUFFICES ASSUME Init
             PROVE  IInv
  OBVIOUS
<1>1. PICK ready \in Ready :
        /\ head = [c \in Client |-> IF c \in ready THEN [NoRefs EXCEPT ![Master] = Tip[Master]] ELSE NoRefs]
        /\ track = [c \in Client |-> IF c \in ready THEN Tip ELSE NoRefs]
        /\ obj = [c \in Client |-> IF c \in ready THEN Reach(Named(Tip)) ELSE {}]
        /\ conf = [c \in Client |->
                     IF c \in ready THEN [linked |-> TRUE, glob |-> FALSE, up |-> {Master}] ELSE NoConf]
        /\ dir = [c \in Client |-> c \in ready]
  BY DEF Init
<1> DEFINE All == Reach(Named(Tip))
<1>2. Named(Tip) \in SUBSET Commit
  BY TransferAssumption DEF Named
<1>3. Shut(All) /\ Named(Tip) \subseteq All
  BY <1>2, ReachShut
<1>4. In(Tip, All)
  BY <1>3, TransferAssumption DEF In, Named
<1>5. In([NoRefs EXCEPT ![Master] = Tip[Master]], All)
  BY <1>4, NoRefsIn, InSet, TransferAssumption DEF In
<1>6. RemoteOK
  BY <1>3, <1>4 DEF RemoteOK, Init
<1>7. Shut({}) /\ {} \in SUBSET Commit /\ All \in SUBSET Commit
  BY <1>3 DEF Shut
<1>8. \A c \in Client : ClientOK(c)
  BY <1>1, <1>3, <1>4, <1>5, <1>7, NoRefsIn DEF ClientOK
<1>9. LocalTypes
  <2>1. head \in [Client -> Refs] /\ track \in [Client -> Refs] /\ obj \in [Client -> SUBSET Commit]
    BY <1>1, <1>4, <1>5, <1>7, NoRefsIn, InRefs
  <2>2. conf \in [Client -> ConfType] /\ dir \in [Client -> BOOLEAN]
    BY <1>1, TransferAssumption DEF ConfType, NoConf
  <2>3. ran = 0 /\ MaxRuns \in Nat
    BY TransferAssumption DEF Init
  <2>4. ran \in 0..MaxRuns
    BY <2>3
  <2> QED
    BY <2>1, <2>2, <2>4 DEF LocalTypes
<1>10. CommandsOK
  BY NoCommandType, EndedOK DEF CommandsOK, Init, NoCommand
<1> QED
  BY <1>6, <1>8, <1>9, <1>10 DEF IInv

LEMMA InitRepositoryInv ==
  ASSUME IInv, NEW c \in Client, InitRepository(c)
  PROVE  IInv'
<1>1. RemoteOK' /\ (\A d \in Client : ClientOK(d)') /\ CommandsOK'
  BY RemoteKept, ClientsKept, CommandsKept DEF InitRepository
<1>2. LocalTypes'
  BY RunType DEF IInv, LocalTypes, InitRepository
<1> QED
  BY <1>1, <1>2 DEF IInv

LEMMA RemoteAddInv ==
  ASSUME IInv, NEW c \in Client, RemoteAdd(c)
  PROVE  IInv'
<1>1. RemoteOK' /\ (\A d \in Client : ClientOK(d)') /\ CommandsOK'
  BY RemoteKept, ClientsKept, CommandsKept DEF RemoteAdd
<1>2. conf' \in [Client -> ConfType]
  BY DEF IInv, LocalTypes, RemoteAdd, ConfType
<1>3. LocalTypes'
  BY <1>2, RunType DEF IInv, LocalTypes, RemoteAdd
<1> QED
  BY <1>1, <1>3 DEF IInv

\* The new commit comes with its parents, and they with their histories.
LEMMA MoveBranchInv ==
  ASSUME IInv, NEW c \in Client, NEW r \in Ref, NEW k \in Commit, MoveBranch(c, r, k)
  PROVE  IInv'
<1>1. Shut(obj[c]) /\ In(head[c], obj[c]) /\ In(track[c], obj[c])
  BY DEF IInv, ClientOK
<1>2. obj' = [obj EXCEPT ![c] = obj[c] \cup {k}] /\ head' = [head EXCEPT ![c][r] = k] /\ track' = track
  BY DEF MoveBranch
<1>3. head \in [Client -> Refs] /\ track \in [Client -> Refs] /\ obj \in [Client -> SUBSET Commit]
  BY DEF IInv, LocalTypes
<1>4. Shut(obj[c] \cup {k})
  <2>1. CASE k \in obj[c]
    BY <1>1, <2>1 DEF Shut
  <2>2. CASE Parents[k] \subseteq obj[c]
    <3>1. UNION {History[p] : p \in Parents[k]} \subseteq obj[c]
      BY <1>1, <2>2 DEF Shut
    <3>2. History[k] \subseteq obj[c] \cup {k}
      BY <3>1, TransferAssumption
    <3> QED
      BY <1>1, <3>2 DEF Shut
  <2> QED
    BY <2>1, <2>2 DEF MoveBranch
<1>5. In([head[c] EXCEPT ![r] = k], obj[c] \cup {k}) /\ In(track[c], obj[c] \cup {k})
  BY <1>1, InGrows, InSet
<1>6. \A d \in Client : ClientOK(d)'
  <2>1. ClientOK(c)'
    BY <1>2, <1>3, <1>4, <1>5 DEF ClientOK
  <2>2. ASSUME NEW d \in Client, d # c
        PROVE  ClientOK(d)'
    BY <1>2, <1>3, <2>2 DEF ClientOK, IInv
  <2> QED
    BY <2>1, <2>2
<1>7. head' \in [Client -> Refs] /\ obj' \in [Client -> SUBSET Commit]
  BY <1>2, <1>3 DEF Refs
<1>8. LocalTypes'
  BY <1>7, RunType DEF IInv, LocalTypes, MoveBranch
<1>9. CommandsOK' /\ RemoteOK'
  BY <1>2, <1>3, CommandsKept, RemoteKept DEF MoveBranch
<1> QED
  BY <1>6, <1>8, <1>9 DEF IInv

-----------------------------------------------------------------------------
(* Push.                                                                   *)

LEMMA UpstreamType ==
  ASSUME IInv, NEW c \in Client, NEW P \in Pushes, NEW o \in PushOptions, Configured(c, P, o.setup)
  PROVE  conf' \in [Client -> ConfType]
<1>1. {i.to : i \in P} \subseteq Ref
  BY TransferAssumption
<1> QED
  BY <1>1 DEF IInv, LocalTypes, Configured, ConfType

\* A push changes the config, and its record.
LEMMA PushStep ==
  ASSUME IInv, NEW c \in Client, NEW P \in Pushes, NEW o \in PushOptions, StartPush(c, P, o),
         NEW X, cmd' = [cmd EXCEPT ![c] = X], CommandOK(X, obj[c])
  PROVE  IInv'
<1>1. RemoteOK' /\ \A d \in Client : ClientOK(d)'
  BY RemoteKept, ClientsKept DEF StartPush
<1>2. LocalTypes'
  BY UpstreamType, RunType DEF StartPush, IInv, LocalTypes
<1>3. CommandsOK'
  BY CommandStep DEF StartPush
<1> QED
  BY <1>1, <1>2, <1>3 DEF IInv

LEMMA PushRefusedInv ==
  ASSUME IInv, NEW c \in Client, NEW P \in Pushes, NEW o \in PushOptions, PushRefused(c, P, o)
  PROVE  IInv'
  BY StoppedOK, PushStep DEF PushRefused

\* What is seen of the remote, list whole or not, is refs.
LEMMA SeenIn ==
  ASSUME IInv, NEW R, NEW silent
  PROVE  Seen(R, silent) \subseteq Refs
<1>1. rref \in Refs
  BY InRefs DEF IInv, RemoteOK, Shut
<1>2. ASSUME NEW told
      PROVE  [r \in Ref |-> IF r \in told THEN rref[r] ELSE None] \in Refs
  BY <1>1 DEF Refs
<1>3. Advertised \cup {rref} \subseteq Refs
  BY <1>1, <1>2 DEF Advertised
<1>4. ASSUME NEW list \in Refs
      PROVE  [r \in Ref |-> IF r \in R THEN list[r] ELSE None] \in Refs
  BY DEF Refs
<1> QED
  BY <1>3, <1>4 DEF Seen

\* What the request says is what the pack was made for, and what was checked.
LEMMA PushSentInv ==
  ASSUME IInv, NEW c \in Client, NEW P \in Pushes, NEW o \in PushOptions, PushSent(c, P, o)
  PROVE  IInv'
<1>0. PICK seen \in Targets(P) :
        /\ MaySend(c, P, o, seen)
        /\ cmd' = [cmd EXCEPT ![c] =
             IF o.dry THEN [NoCommand EXCEPT !.op = "push", !.said = "ok"]
             ELSE [NoCommand EXCEPT !.op = "push", !.at = "sent", !.http = o.http, !.force = o.force,
                     !.lines = Lines(c, P, seen), !.pack = PackOf(c, P, seen)]]
  BY DEF PushSent
<1> DEFINE L == Lines(c, P, seen)
           pack == PackOf(c, P, seen)
           X == [NoCommand EXCEPT !.op = "push", !.at = "sent", !.http = o.http, !.force = o.force,
                   !.lines = L, !.pack = pack]
<1>1. seen \in Refs
  BY SeenIn DEF Targets
<1>2. Shut(obj[c]) /\ head[c] \in Refs /\ In(head[c], obj[c])
  BY DEF IInv, ClientOK, LocalTypes
<1>3. P \subseteq [from : Ref \cup {None}, to : Ref] /\ \A i, j \in P : i.to = j.to => i = j
  BY TransferAssumption
<1>4. \A i \in P : i.from # None => i.from \in Ref /\ head[c][i.from] \in obj[c]
  BY <1>0, <1>2, <1>3 DEF MaySend, Lacking, In
<1>5. L \in SUBSET [to : Ref, old : Commit \cup {None}, new : Commit \cup {None}]
  BY <1>1, <1>2, <1>3, <1>4 DEF Lines, Refs, Shut
<1> DEFINE tips == {head[c][i.from] : i \in {i \in P : i.from # None}}
           had == {seen[i.to] : i \in P} \cap obj[c]
<1>6. tips \in SUBSET Commit
  BY <1>2, <1>4 DEF Shut
<1>7. pack \in SUBSET Commit
  BY <1>6, ReachShut DEF PackOf, Shut
<1>8. X \in CmdType
  <2>1. o.http \in BOOLEAN /\ o.force \in BOOLEAN
    BY TransferAssumption
  <2> HIDE DEF L, pack
  <2> QED
    BY <1>5, <1>7, <2>1, NoCommandType DEF NoCommand, CmdType
<1>9. X.at = "sent" /\ X.lines = L /\ X.pack = pack /\ X.force = o.force /\ X.left = {}
  BY DEF NoCommand
<1>10. ASSUME NEW l \in L, l.new # None
       PROVE  History[l.new] \subseteq pack \cup Reach(Olds(X))
  <2>1. PICK i \in P : l = [to |-> i.to, old |-> seen[i.to], new |-> IF i.from = None THEN None ELSE head[c][i.from]]
    BY DEF Lines
  <2>2. i.from # None /\ l.new = head[c][i.from]
    BY <1>10, <2>1
  <2>3. History[l.new] \subseteq Reach(tips)
    BY <2>2 DEF Reach
  <2>4. had \subseteq Olds(X)
    <3>1. ASSUME NEW k \in had
          PROVE  k \in Olds(X)
      <4>1. PICK j \in P : k = seen[j.to]
        OBVIOUS
      <4>2. k # None
        BY <1>2, NoneIsNoCommit DEF Shut
      <4>3. [to |-> j.to, old |-> seen[j.to], new |-> IF j.from = None THEN None ELSE head[c][j.from]] \in L
        BY DEF Lines
      <4> QED
        BY <1>9, <4>1, <4>2, <4>3 DEF Olds
    <3> QED
      BY <3>1
  <2>5. Reach(had) \subseteq Reach(Olds(X))
    BY <2>4 DEF Reach
  <2> QED
    BY <2>3, <2>5 DEF PackOf
<1>11. ASSUME NEW l \in L, NEW m \in L, l.to = m.to
       PROVE  l = m
  BY <1>3, <1>11 DEF Lines
<1>12. ASSUME ~o.force, NEW l \in L, l.new # None, l.old # None
       PROVE  l.old \in History[l.new]
  <2>1. PICK i \in P : l = [to |-> i.to, old |-> seen[i.to], new |-> IF i.from = None THEN None ELSE head[c][i.from]]
    BY DEF Lines
  <2>2. FastForward(c, i, seen)
    BY <1>0, <1>12 DEF MaySend, Forwards
  <2> QED
    BY <1>12, <2>1, <2>2 DEF FastForward
<1>13. CommandOK(X, obj[c])
  <2> HIDE DEF X, L
  <2> QED
    BY <1>8, <1>9, <1>10, <1>11, <1>12 DEF CommandOK, LeftOK, AskedOK, ArrivedOK, SentOK
<1>14. CASE o.dry
  BY <1>0, <1>14, StoppedOK, PushStep DEF PushSent
<1>15. CASE ~o.dry
  BY <1>0, <1>13, <1>15, PushStep DEF PushSent
<1> QED
  BY <1>14, <1>15

\* The client goes on without its request: the record is one that ended.
LEMMA StopInv ==
  ASSUME IInv, NEW c \in Client,
         NEW how \in {"nothing", "ok", "error", "garbled", "panic", "killed"}, Stopped(c, how),
         UNCHANGED <<remote, local, ran>>
  PROVE  IInv'
<1>1. cmd[c].op \in {"none", "push", "fetch", "clone"} /\ ran' \in 0..MaxRuns
  BY DEF IInv, CommandsOK, CmdType, LocalTypes
<1> QED
  BY <1>1, StoppedOK, OnlyCommand DEF Stopped

\* What the remote takes it has, by the old values that it compares.
LEMMA PushAnsweredInv ==
  ASSUME IInv, NEW c \in Client, PushAnswered(c)
  PROVE  IInv'
<1> DEFINE C == cmd[c]
<1>1. C \in CmdType /\ SentOK(C) /\ C.at = "sent"
  BY DEF IInv, CommandsOK, CommandOK, PushAnswered
<1>2. PICK L \in SUBSET {l \in C.lines : Acceptable(l, C.pack)} :
        /\ rref' = [r \in Ref |-> IF \E l \in L : l.to = r THEN (CHOOSE l \in L : l.to = r).new ELSE rref[r]]
        /\ robj' = robj \cup Reach({l.new : l \in L} \ {None})
  BY DEF PushAnswered
<1>3. Shut(robj) /\ In(rref, robj)
  BY DEF IInv, RemoteOK
<1>4. ({l.new : l \in L} \ {None}) \in SUBSET Commit
  BY <1>1 DEF CmdType
<1>5. Shut(robj') /\ ({l.new : l \in L} \ {None}) \subseteq robj'
  BY <1>2, <1>3, <1>4, ReachShut DEF Shut
<1>6. In(rref', robj')
  <2>1. ASSUME NEW r \in Ref
        PROVE  rref'[r] \in robj' \cup {None}
    <3>1. CASE \E l \in L : l.to = r
      <4>1. (CHOOSE l \in L : l.to = r) \in L
        BY <3>1
      <4> QED
        BY <1>2, <1>5, <3>1, <4>1
    <3>2. CASE ~\E l \in L : l.to = r
      BY <1>2, <1>3, <3>2 DEF In
    <3> QED
      BY <3>1, <3>2
  <2> QED
    BY <1>2, <2>1 DEF In
<1>7. RemoteOK'
  BY <1>5, <1>6 DEF RemoteOK, Shut, In
<1>8. \E how \in {"ok", "error"} : Stopped(c, how)
  BY DEF PushAnswered
<1>9. CommandsOK'
  <2>1. PICK how \in {"ok", "error"} : cmd' = [cmd EXCEPT ![c] = [NoCommand EXCEPT !.op = cmd[c].op, !.said = how]]
    BY <1>8 DEF Stopped
  <2>2. CommandOK([NoCommand EXCEPT !.op = cmd[c].op, !.said = how], obj[c]) /\ obj' = obj
    BY <1>1, StoppedOK DEF PushAnswered, local, CmdType
  <2> QED
    BY <2>1, <2>2, CommandStep
<1>10. LocalTypes' /\ \A d \in Client : ClientOK(d)'
  BY ClientsKept DEF PushAnswered, local, IInv, LocalTypes
<1> QED
  BY <1>7, <1>9, <1>10 DEF IInv

LEMMA PushLostInv ==
  ASSUME IInv, NEW c \in Client, PushLost(c)
  PROVE  IInv'
  BY StopInv DEF PushLost

-----------------------------------------------------------------------------
(* Fetch and clone.                                                        *)

\* What is said to be had the client has; what it will write it has or wants.
LEMMA AskingOK ==
  ASSUME IInv, NEW c \in Client, NEW op \in {"fetch", "clone"}, NEW spec, NEW o \in FetchOptions,
         NEW seen \in Told(spec, o)
  PROVE  CommandOK(Asking(c, op, o, seen), obj[c])
<1> DEFINE wants == Named(seen) \ obj[c]
           haves == HavesOf(c, o.version, seen)
           left == Written(seen)
           C == [NoCommand EXCEPT !.op = op, !.version = o.version, !.http = o.http, !.seen = seen,
                   !.wants = wants, !.haves = haves, !.left = left]
<1>1. seen \in Refs
  BY SeenIn DEF Told
<1>2. Shut(obj[c]) /\ In(track[c], obj[c])
  BY DEF IInv, ClientOK
<1>3. Named(seen) \in SUBSET Commit
  BY <1>1 DEF Named, Refs
<1>4. haves \subseteq obj[c] /\ haves \subseteq Commit
  BY <1>2, NamedIn DEF HavesOf, LocalRefs, Shut
<1>5. left \in SUBSET Ref /\ \A r \in left : seen[r] # None
  BY DEF Written
<1>6. \A r \in left : seen[r] \in obj[c] \cup wants
  BY <1>5 DEF Named
<1>7. o.version \in {1, 2} /\ o.http \in BOOLEAN
  BY TransferAssumption DEF FetchOptions
<1>8. /\ C \in CmdType
      /\ C.seen = seen /\ C.wants = wants /\ C.haves = haves /\ C.left = left
  <2>1. wants \in SUBSET Commit /\ haves \in SUBSET Commit /\ left \in SUBSET Ref
    BY <1>3, <1>4, <1>5
  <2> HIDE DEF wants, haves, left
  <2> QED
    BY <1>1, <1>7, <2>1, NoCommandType DEF NoCommand, CmdType
<1> HIDE DEF C
<1>9. \A at \in {"asked", "config", "track"} :
        LET D == [C EXCEPT !.at = at]
        IN /\ D \in CmdType /\ D.at = at /\ D.left = left /\ D.seen = seen /\ D.wants = wants /\ D.haves = haves
  BY <1>8 DEF CmdType
<1>10. CommandOK([C EXCEPT !.at = "asked"], obj[c])
  BY <1>4, <1>5, <1>6, <1>9 DEF CommandOK, LeftOK, AskedOK, ArrivedOK, SentOK
<1>11. ASSUME wants = {}, NEW at \in {"config", "track"}
       PROVE  CommandOK([C EXCEPT !.at = at], obj[c])
  BY <1>5, <1>6, <1>9, <1>11 DEF CommandOK, LeftOK, AskedOK, ArrivedOK, SentOK
<1>12. \A how \in {"ok", "error"} : CommandOK(Closed(C, how), obj[c])
  BY <1>8, ClosedOK
<1>13. Asking(c, op, o, seen) =
         IF wants # {} THEN [C EXCEPT !.at = "asked"]
         ELSE IF op = "clone" THEN IF o.version = 2 THEN Closed(C, "error") ELSE [C EXCEPT !.at = "config"]
         ELSE IF o.version = 2 \/ seen = NoRefs THEN Closed(C, "ok")
         ELSE [C EXCEPT !.at = "track"]
  BY DEF Asking, C
<1> QED
  BY <1>10, <1>11, <1>12, <1>13

LEMMA FetchInv ==
  ASSUME IInv, NEW c \in Client, NEW spec, NEW o \in FetchOptions, Fetch(c, spec, o)
  PROVE  IInv'
<1>1. PICK seen \in Told(spec, o) : cmd' = [cmd EXCEPT ![c] = Asking(c, "fetch", o, seen)]
  BY DEF Fetch
<1>2. CommandOK(Asking(c, "fetch", o, seen), obj[c])
  BY AskingOK
<1> QED
  BY <1>1, <1>2, OnlyCommand, RunType DEF Fetch

\* A command that makes the directory or changes the config, and its record.
LEMMA BegunInv ==
  ASSUME IInv, NEW c \in Client, NEW X, cmd' = [cmd EXCEPT ![c] = X], CommandOK(X, obj[c]),
         UNCHANGED <<remote, head, track, obj>>,
         dir' \in [Client -> BOOLEAN], conf' \in [Client -> ConfType], ran' \in 0..MaxRuns
  PROVE  IInv'
<1>1. RemoteOK' /\ (\A d \in Client : ClientOK(d)') /\ CommandsOK'
  BY RemoteKept, ClientsKept, CommandStep
<1>2. LocalTypes'
  BY DEF IInv, LocalTypes
<1> QED
  BY <1>1, <1>2 DEF IInv

LEMMA CloneInv ==
  ASSUME IInv, NEW c \in Client, NEW o \in FetchOptions, Clone(c, o)
  PROVE  IInv'
<1>1. dir' \in [Client -> BOOLEAN] /\ conf' \in [Client -> ConfType] /\ ran' \in 0..MaxRuns
  BY RunType DEF Clone, IInv, LocalTypes
<1>2. PICK seen \in Told("all", o) : cmd' = [cmd EXCEPT ![c] = Asking(c, "clone", o, seen)]
  BY DEF Clone
<1>3. CommandOK(Asking(c, "clone", o, seen), obj[c])
  BY AskingOK
<1> QED
  BY <1>1, <1>2, <1>3, BegunInv DEF Clone

LEMMA CannotConnectInv ==
  ASSUME IInv, NEW c \in Client, CannotConnect(c)
  PROVE  IInv'
<1>1. PICK op \in {"push", "fetch", "clone"} :
        /\ IF op = "clone" THEN ~dir[c] /\ dir' = [dir EXCEPT ![c] = TRUE]
           ELSE conf[c].linked /\ UNCHANGED dir
        /\ IF op = "push" THEN \E P \in Pushes, o \in PushOptions : HasUpstream(c, P, o) /\ Configured(c, P, o.setup)
           ELSE UNCHANGED conf
        /\ cmd' = [cmd EXCEPT ![c] = [NoCommand EXCEPT !.op = op, !.said = "error"]]
  BY DEF CannotConnect
<1>2. dir' \in [Client -> BOOLEAN]
  BY <1>1 DEF IInv, LocalTypes
<1>3. conf' \in [Client -> ConfType]
  BY <1>1, UpstreamType DEF IInv, LocalTypes
<1>4. ran' \in 0..MaxRuns /\ UNCHANGED <<remote, head, track, obj>>
  BY RunType DEF CannotConnect
<1> QED
  BY <1>1, <1>2, <1>3, <1>4, StoppedOK, BegunInv

LEMMA FetchRefusedInv ==
  ASSUME IInv, NEW c \in Client, FetchRefused(c)
  PROVE  IInv'
  BY StopInv DEF FetchRefused

LEMMA FetchLostInv ==
  ASSUME IInv, NEW c \in Client, FetchLost(c)
  PROVE  IInv'
  BY StopInv DEF FetchLost

\* The remote leaves out what it thinks the client has, which it has; so the
\* client has all that what it wanted descends from.
LEMMA PackCompletes ==
  ASSUME NEW S, Shut(S), NEW W \in SUBSET Commit, NEW H, H \subseteq S
  PROVE  /\ Shut(S \cup (Reach(W) \ Reach(H \cap robj)))
         /\ W \subseteq S \cup (Reach(W) \ Reach(H \cap robj))
<1>1. Reach(H \cap robj) \subseteq S
  BY ReachInside
<1>2. S \cup (Reach(W) \ Reach(H \cap robj)) = S \cup Reach(W)
  BY <1>1
<1>3. Shut(Reach(W)) /\ W \subseteq Reach(W)
  BY ReachShut
<1> QED
  BY <1>2, <1>3 DEF Shut

\* One client has more than it had.
LEMMA ClientGrows ==
  ASSUME IInv, NEW c \in Client, NEW T, Shut(T), obj[c] \subseteq T,
         obj' = [obj EXCEPT ![c] = T], UNCHANGED <<head, track>>
  PROVE  (\A d \in Client : ClientOK(d)') /\ obj' \in [Client -> SUBSET Commit]
<1>1. obj \in [Client -> SUBSET Commit]
  BY DEF IInv, LocalTypes
<1>2. ASSUME NEW d \in Client
      PROVE  ClientOK(d)'
  <2>1. CASE d = c
    BY <1>1, <2>1, InGrows DEF IInv, ClientOK
  <2>2. CASE d # c
    BY <1>1, <2>2 DEF IInv, ClientOK
  <2> QED
    BY <2>1, <2>2
<1> QED
  BY <1>1, <1>2 DEF Shut

LEMMA FetchAnsweredInv ==
  ASSUME IInv, NEW c \in Client, FetchAnswered(c)
  PROVE  IInv'
<1> DEFINE C == cmd[c]
           T == obj[c] \cup (Reach(C.wants) \ Reach(C.haves \cap robj))
<1>1. CommandOK(C, obj[c]) /\ C \in CmdType /\ C.at = "asked" /\ Shut(obj[c])
  BY DEF IInv, CommandsOK, CommandOK, ClientOK, FetchAnswered
<1>2. UNCHANGED <<remote, head, track, conf, dir, ran>>
  BY DEF FetchAnswered
<1>3. \/ /\ obj' = [obj EXCEPT ![c] = T]
         /\ cmd' = [cmd EXCEPT ![c].at = IF C.op = "clone" THEN "config" ELSE "track"]
      \/ /\ cmd' = [cmd EXCEPT ![c] = Closed(C, "garbled")]
         /\ UNCHANGED obj
  BY DEF FetchAnswered
<1>4. CASE cmd' = [cmd EXCEPT ![c] = Closed(C, "garbled")] /\ UNCHANGED obj
  <2>1. CommandOK(Closed(C, "garbled"), obj[c]) /\ ran' \in 0..MaxRuns
    BY <1>1, <1>2, ClosedOK DEF IInv, LocalTypes
  <2> QED
    BY <1>2, <1>4, <2>1, OnlyCommand DEF local
<1>5. CASE /\ obj' = [obj EXCEPT ![c] = T]
           /\ cmd' = [cmd EXCEPT ![c].at = IF C.op = "clone" THEN "config" ELSE "track"]
  <2> DEFINE X == [C EXCEPT !.at = IF C.op = "clone" THEN "config" ELSE "track"]
  <2>1. C.wants \in SUBSET Commit /\ C.haves \subseteq obj[c] /\ \A r \in C.left : C.seen[r] \in obj[c] \cup C.wants
    BY <1>1 DEF CommandOK, AskedOK, CmdType
  <2>2. Shut(T) /\ C.wants \subseteq T /\ obj[c] \subseteq T
    <3>1. Shut(T) /\ C.wants \subseteq T
      <4>1. C.wants \in SUBSET Commit /\ C.haves \subseteq obj[c]
        BY <2>1
      <4>2. Shut(obj[c])
        BY <1>1
      <4> HIDE DEF C
      <4> QED
        BY <4>1, <4>2, PackCompletes
    <3> QED
      BY <3>1
  <2> HIDE DEF T
  <2>3. obj \in [Client -> SUBSET Commit] /\ cmd \in [Client -> CmdType]
    BY DEF IInv, LocalTypes, CommandsOK
  <2>4. (\A d \in Client : ClientOK(d)') /\ obj' \in [Client -> SUBSET Commit]
    BY <1>2, <1>5, <2>2, ClientGrows
  <2>5. /\ X \in CmdType /\ X.at \in {"config", "track"}
        /\ X.left = C.left /\ X.seen = C.seen
    <3>1. C \in CmdType
      BY <1>1
    <3> HIDE DEF C
    <3>2. CASE C.op = "clone"
      <4>1. [C EXCEPT !.at = "config"] \in CmdType
        BY <3>1 DEF CmdType
      <4> QED
        BY <3>1, <3>2, <4>1 DEF CmdType
    <3>3. CASE C.op # "clone"
      <4>1. [C EXCEPT !.at = "track"] \in CmdType
        BY <3>1 DEF CmdType
      <4> QED
        BY <3>1, <3>3, <4>1 DEF CmdType
    <3> QED
      BY <3>2, <3>3
  <2>6. cmd' = [cmd EXCEPT ![c] = X] /\ obj'[c] = T
    BY <1>5, <2>3
  <2> HIDE DEF X, C
  <2>7. \A r \in X.left : X.seen[r] \in T /\ X.seen[r] # None
    BY <1>1, <2>1, <2>2, <2>5 DEF CommandOK, LeftOK
  <2>8. CommandOK(X, obj'[c])
    BY <2>5, <2>6, <2>7 DEF CommandOK, LeftOK, AskedOK, ArrivedOK, SentOK
  <2>9. \A d \in Client : obj[d] \subseteq obj'[d]
    BY <1>5, <2>2, <2>3
  <2>10. CommandsOK'
    BY <2>6, <2>8, <2>9, CommandStep
  <2>11. LocalTypes'
    BY <1>2, <2>4 DEF IInv, LocalTypes
  <2> QED
    BY <1>2, <2>4, <2>10, <2>11, RemoteKept DEF IInv
<1> QED
  BY <1>3, <1>4, <1>5

\* A record that goes on to write refs, or has fewer to write.
LEMMA GoesOn ==
  ASSUME IInv, NEW c \in Client, cmd[c].at \in {"config", "track"},
         NEW R \in SUBSET cmd[c].left
  PROVE  CommandOK([cmd[c] EXCEPT !.at = "track", !.left = R], obj[c])
<1> DEFINE C == cmd[c]
           X == [C EXCEPT !.at = "track", !.left = R]
<1>1. CommandOK(C, obj[c]) /\ C \in CmdType
  BY DEF IInv, CommandsOK, CommandOK
<1>2. X \in CmdType /\ X.at = "track" /\ X.left = R /\ X.seen = C.seen
  BY <1>1 DEF CmdType
<1> HIDE DEF X
<1> QED
  BY <1>1, <1>2 DEF CommandOK, LeftOK, AskedOK, ArrivedOK, SentOK, X

LEMMA CloneConfigInv ==
  ASSUME IInv, NEW c \in Client, CloneConfig(c)
  PROVE  IInv'
<1>1. cmd' = [cmd EXCEPT ![c] = [cmd[c] EXCEPT !.at = "track", !.left = cmd[c].left]]
  BY DEF CloneConfig, IInv, CommandsOK, CmdType
<1>2. CommandOK([cmd[c] EXCEPT !.at = "track", !.left = cmd[c].left], obj[c])
  BY GoesOn DEF CloneConfig
<1>3. conf' \in [Client -> ConfType]
  <2>1. conf \in [Client -> ConfType] /\ Master \in Ref
    BY TransferAssumption DEF IInv, LocalTypes
  <2>2. [conf EXCEPT ![c].linked = TRUE] \in [Client -> ConfType]
    BY <2>1 DEF ConfType
  <2>3. conf' = [[conf EXCEPT ![c].linked = TRUE] EXCEPT ![c].up = conf[c].up \cup {Master}]
    BY <2>1 DEF CloneConfig
  <2>4. conf[c].up \cup {Master} \in SUBSET Ref
    BY <2>1 DEF ConfType
  <2> QED
    BY <2>2, <2>3, <2>4 DEF ConfType
<1>4. dir' \in [Client -> BOOLEAN] /\ ran' \in 0..MaxRuns /\ UNCHANGED <<remote, head, track, obj>>
  BY DEF CloneConfig, IInv, LocalTypes
<1> QED
  BY <1>1, <1>2, <1>3, <1>4, BegunInv

\* A ref of a client moves to a commit it has.
LEMMA RefMoves ==
  ASSUME IInv, NEW c \in Client, NEW X, cmd' = [cmd EXCEPT ![c] = X], CommandOK(X, obj[c]),
         \A d \in Client : In(head'[d], obj[d]) /\ In(track'[d], obj[d]),
         head' \in [Client -> Refs], track' \in [Client -> Refs],
         UNCHANGED <<remote, obj, conf, dir, ran>>
  PROVE  IInv'
<1>1. RemoteOK' /\ CommandsOK'
  BY RemoteKept, CommandStep
<1>2. LocalTypes' /\ \A d \in Client : ClientOK(d)'
  BY DEF IInv, LocalTypes, ClientOK
<1> QED
  BY <1>1, <1>2 DEF IInv

LEMMA UpdateTrackInv ==
  ASSUME IInv, NEW c \in Client, NEW r \in Ref, UpdateTrack(c, r)
  PROVE  IInv'
<1> DEFINE C == cmd[c]
           k == C.seen[r]
           R == C.left \ {r}
           X == IF C.left = {r} /\ C.op = "fetch" THEN Closed(C, "ok") ELSE [C EXCEPT !.left = R]
<1>1. C \in CmdType /\ CommandOK(C, obj[c]) /\ C.at = "track" /\ r \in C.left
  BY DEF IInv, CommandsOK, CommandOK, UpdateTrack
<1>2. k \in obj[c]
  BY <1>1 DEF CommandOK, ArrivedOK
<1>3. track' = [track EXCEPT ![c][r] = k] /\ cmd' = [cmd EXCEPT ![c] = X]
      /\ UNCHANGED <<remote, head, obj, conf, dir, ran>>
  BY DEF UpdateTrack
<1>4. CommandOK(X, obj[c])
  <2>1. CommandOK([C EXCEPT !.at = "track", !.left = R], obj[c])
    BY <1>1, GoesOn
  <2>2. [C EXCEPT !.at = "track", !.left = R] = [C EXCEPT !.left = R]
    BY <1>1 DEF CmdType
  <2>3. CommandOK(Closed(C, "ok"), obj[c])
    BY <1>1, ClosedOK
  <2> QED
    BY <2>1, <2>2, <2>3
<1> HIDE DEF X
<1>5. /\ track \in [Client -> Refs] /\ head \in [Client -> Refs]
      /\ \A d \in Client : In(head[d], obj[d]) /\ In(track[d], obj[d]) /\ obj[d] \subseteq Commit
  BY DEF IInv, LocalTypes, ClientOK, Shut
<1>6. In([track[c] EXCEPT ![r] = k], obj[c])
  BY <1>2, <1>5, InSet
<1>7. \A d \in Client : In(head'[d], obj[d]) /\ In(track'[d], obj[d])
  BY <1>3, <1>5, <1>6
<1>8. head' \in [Client -> Refs] /\ track' \in [Client -> Refs]
  BY <1>3, <1>5, <1>6, InRefs
<1> QED
  BY <1>3, <1>4, <1>7, <1>8, RefMoves

LEMMA CloneHeadInv ==
  ASSUME IInv, NEW c \in Client, CloneHead(c)
  PROVE  IInv'
<1>1. PICK how \in {"ok", "error"} :
        cmd' = [cmd EXCEPT ![c] = [NoCommand EXCEPT !.op = cmd[c].op, !.said = how]]
  BY DEF CloneHead, Stopped
<1>2. CommandOK([NoCommand EXCEPT !.op = cmd[c].op, !.said = how], obj[c])
  BY StoppedOK DEF IInv, CommandsOK, CmdType
<1>3. /\ track \in [Client -> Refs] /\ head \in [Client -> Refs]
      /\ \A d \in Client : In(head[d], obj[d]) /\ In(track[d], obj[d]) /\ obj[d] \subseteq Commit
  BY DEF IInv, LocalTypes, ClientOK, Shut
<1>4. In([head[c] EXCEPT ![Master] = track[c][Master]], obj[c])
  BY <1>3, InSet, TransferAssumption DEF In
<1>5. head' = [head EXCEPT ![c][Master] = track[c][Master]] /\ UNCHANGED <<remote, track, obj, conf, dir, ran>>
  BY DEF CloneHead
<1>6. \A d \in Client : In(head'[d], obj[d]) /\ In(track'[d], obj[d])
  BY <1>3, <1>4, <1>5
<1>7. head' \in [Client -> Refs] /\ track' \in [Client -> Refs]
  BY <1>3, <1>4, <1>5, InRefs
<1> QED
  BY <1>1, <1>2, <1>5, <1>6, <1>7, RefMoves

LEMMA KillInv ==
  ASSUME IInv, NEW c \in Client, Kill(c)
  PROVE  IInv'
  BY StopInv DEF Kill

LEMMA PruneInv ==
  ASSUME IInv, Prune
  PROVE  IInv'
<1>1. Shut(robj) /\ In(rref, robj)
  BY DEF IInv, RemoteOK
<1>2. Named(rref) \in SUBSET Commit
  BY <1>1, NamedIn DEF Shut
<1>3. Shut(robj') /\ Named(rref) \subseteq robj' /\ rref' = rref
  BY <1>2, ReachShut DEF Prune
<1>4. In(rref', robj')
  BY <1>1, <1>3 DEF In, Named
<1>5. RemoteOK'
  BY <1>3, <1>4 DEF RemoteOK, Shut, In
<1>6. CommandsOK' /\ LocalTypes' /\ \A d \in Client : ClientOK(d)'
  BY CommandsKept, ClientsKept DEF Prune, local, IInv, LocalTypes
<1> QED
  BY <1>5, <1>6 DEF IInv

-----------------------------------------------------------------------------
(* The theorems.                                                           *)

LEMMA NextInv == IInv /\ [Next]_vars => IInv'
<1> SUFFICES ASSUME IInv, [Next]_vars
             PROVE  IInv'
  OBVIOUS
<1>1. CASE UNCHANGED vars
  BY <1>1, RemoteKept, ClientsKept, CommandsKept DEF vars, local, IInv, LocalTypes
<1>2. ASSUME NEW c \in Client, InitRepository(c) \/ RemoteAdd(c) \/ CannotConnect(c)
      PROVE  IInv'
  BY <1>2, InitRepositoryInv, RemoteAddInv, CannotConnectInv
<1>3. ASSUME NEW c \in Client, NEW r \in Ref, NEW k \in Commit, MoveBranch(c, r, k)
      PROVE  IInv'
  BY <1>3, MoveBranchInv
<1>4. ASSUME NEW c \in Client, NEW P \in Pushes, NEW o \in PushOptions, PushRefused(c, P, o) \/ PushSent(c, P, o)
      PROVE  IInv'
  BY <1>4, PushRefusedInv, PushSentInv
<1>5. ASSUME NEW c \in Client, PushAnswered(c) \/ PushLost(c)
      PROVE  IInv'
  BY <1>5, PushAnsweredInv, PushLostInv
<1>6. ASSUME NEW c \in Client, NEW o \in FetchOptions, Clone(c, o) \/ \E spec \in {"all", "glob"} \cup Ref : Fetch(c, spec, o)
      PROVE  IInv'
  BY <1>6, CloneInv, FetchInv
<1>7. ASSUME NEW c \in Client, FetchAnswered(c) \/ FetchRefused(c) \/ FetchLost(c)
      PROVE  IInv'
  BY <1>7, FetchAnsweredInv, FetchRefusedInv, FetchLostInv
<1>8. ASSUME NEW c \in Client, CloneConfig(c) \/ CloneHead(c) \/ (\E r \in Ref : UpdateTrack(c, r)) \/ Kill(c)
      PROVE  IInv'
  BY <1>8, CloneConfigInv, CloneHeadInv, UpdateTrackInv, KillInv
<1>9. CASE Prune
  BY <1>9, PruneInv
<1> QED
  BY <1>1, <1>2, <1>3, <1>4, <1>5, <1>6, <1>7, <1>8, <1>9 DEF Next

LEMMA Invariant == Spec => []IInv
  BY InitInv, NextInv, PTL DEF Spec

\* The variables have their types in every state, for all clients, histories
\* and pushes; a ref that is still to be written is one the remote has.
THEOREM TypeCorrect == Spec => []TypeOK
<1>1. IInv => TypeOK
  <2> SUFFICES ASSUME IInv
               PROVE  TypeOK
    OBVIOUS
  <2>1. rref \in Refs /\ robj \subseteq Commit
    BY InRefs DEF IInv, RemoteOK, Shut
  <2>2. cmd \in [Client -> CmdType] /\ \A c \in Client : LeftOK(cmd[c])
    BY DEF IInv, CommandsOK, CommandOK
  <2> QED
    BY <2>1, <2>2 DEF IInv, LocalTypes, TypeOK, CmdType, ConfType, LeftOK
<1> QED
  BY <1>1, Invariant, PTL

\* No fetch or clone, lost, cut short, answered late or refused, leaves a client
\* with a branch or a remote branch whose history it does not have.
THEOREM ClientsAreWhole == Spec => []ClientWhole
<1>1. IInv => ClientWhole
  <2> SUFFICES ASSUME IInv, NEW c \in Client
               PROVE  Whole(head[c], obj[c]) /\ Whole(track[c], obj[c])
    BY DEF ClientWhole
  <2>1. Shut(obj[c]) /\ In(head[c], obj[c]) /\ In(track[c], obj[c])
    BY DEF IInv, ClientOK
  <2> QED
    BY <2>1, NamedIn, ReachInside DEF Whole
<1> QED
  BY <1>1, Invariant, PTL

\* The pack of a push and what the remote still has when the refs are as they
\* were advertised make every pushed history whole, after any pruning and the
\* pushes of any others.
THEOREM PacksSuffice == Spec => []PackSuffices
<1>1. IInv => PackSuffices
  <2> SUFFICES ASSUME IInv, NEW c \in Client, cmd[c].at = "sent",
                      \A l \in cmd[c].lines : rref[l.to] = l.old,
                      NEW l \in cmd[c].lines, l.new # None
               PROVE  History[l.new] \subseteq robj \cup cmd[c].pack
    BY DEF PackSuffices
  <2>1. cmd[c] \in CmdType /\ SentOK(cmd[c])
    BY DEF IInv, CommandsOK, CommandOK
  <2>2. Shut(robj) /\ In(rref, robj)
    BY DEF IInv, RemoteOK
  <2>3. Olds(cmd[c]) \subseteq robj
    BY <2>1, <2>2 DEF Olds, In, CmdType
  <2>4. Reach(Olds(cmd[c])) \subseteq robj
    BY <2>2, <2>3, ReachInside
  <2> QED
    BY <2>1, <2>4 DEF SentOK
<1> QED
  BY <1>1, Invariant, PTL

LEMMA OnlyAnswersMoveRefs ==
  ASSUME IInv, [Next]_vars, rref' # rref
  PROVE  \E c \in Client : PushAnswered(c)
<1>1. ASSUME NEW c \in Client, InitRepository(c) \/ RemoteAdd(c) \/ CannotConnect(c)
      PROVE  UNCHANGED rref
  BY <1>1 DEF InitRepository, RemoteAdd, CannotConnect, remote
<1>2. ASSUME NEW c \in Client, NEW r \in Ref, NEW k \in Commit, MoveBranch(c, r, k)
      PROVE  UNCHANGED rref
  BY <1>2 DEF MoveBranch, remote
<1>3. ASSUME NEW c \in Client, NEW P \in Pushes, NEW o \in PushOptions,
             PushRefused(c, P, o) \/ PushSent(c, P, o)
      PROVE  UNCHANGED rref
  BY <1>3 DEF PushRefused, PushSent, StartPush, remote
<1>4. ASSUME NEW c \in Client, NEW o \in FetchOptions,
             Clone(c, o) \/ \E spec \in {"all", "glob"} \cup Ref : Fetch(c, spec, o)
      PROVE  UNCHANGED rref
  BY <1>4 DEF Clone, Fetch, remote
<1>5. ASSUME NEW c \in Client, FetchAnswered(c) \/ FetchRefused(c) \/ FetchLost(c)
      PROVE  UNCHANGED rref
  BY <1>5 DEF FetchAnswered, FetchRefused, FetchLost, remote
<1>6. ASSUME NEW c \in Client,
             PushLost(c) \/ CloneConfig(c) \/ CloneHead(c) \/ Kill(c)
             \/ \E r \in Ref : UpdateTrack(c, r)
      PROVE  UNCHANGED rref
  BY <1>6 DEF PushLost, CloneConfig, CloneHead, Kill, UpdateTrack, remote
<1>7. (Prune \/ UNCHANGED vars) => UNCHANGED rref
  BY DEF Prune, vars, remote
<1> QED
  BY <1>1, <1>2, <1>3, <1>4, <1>5, <1>6, <1>7 DEF Next

\* A push that was not forced takes no commit off a branch of the remote, whoever
\* pushed between its look at the refs and its request.
THEOREM PushesForward == Spec => PushForwards
<1>1. ASSUME IInv, [Next]_vars, NEW c \in Client,
             cmd[c].at = "sent", cmd'[c].at # "sent", ~cmd[c].force,
             NEW l \in cmd[c].lines, rref'[l.to] # rref[l.to], l.new # None, rref[l.to] # None
      PROVE  rref[l.to] \in History[rref'[l.to]]
  <2>1. cmd \in [Client -> CmdType] /\ SentOK(cmd[c])
    BY <1>1 DEF IInv, CommandsOK, CommandOK
  <2>2. PICK d \in Client : PushAnswered(d)
    BY <1>1, OnlyAnswersMoveRefs
  <2>3. d = c
    BY <1>1, <2>1, <2>2 DEF PushAnswered, Stopped
  <2>4. PICK L \in SUBSET {m \in cmd[c].lines : Acceptable(m, cmd[c].pack)} :
          rref' = [r \in Ref |-> IF \E m \in L : m.to = r THEN (CHOOSE m \in L : m.to = r).new ELSE rref[r]]
    BY <2>2, <2>3 DEF PushAnswered
  <2>5. l.to \in Ref
    BY <1>1, <2>1 DEF CmdType
  <2>6. \E m \in L : m.to = l.to
    BY <1>1, <2>4, <2>5
  <2>7. (CHOOSE m \in L : m.to = l.to) \in L /\ (CHOOSE m \in L : m.to = l.to).to = l.to
    BY <2>6
  <2>8. (CHOOSE m \in L : m.to = l.to) = l /\ l \in L
    BY <1>1, <2>1, <2>7 DEF SentOK
  <2>9. rref'[l.to] = l.new /\ rref[l.to] = l.old
    BY <2>4, <2>5, <2>6, <2>8 DEF Acceptable
  <2> QED
    BY <1>1, <2>1, <2>9 DEF SentOK
<1>2. IInv /\ [Next]_vars =>
        [\A c \in Client : cmd[c].at = "sent" /\ cmd'[c].at # "sent" /\ ~cmd[c].force =>
           \A l \in cmd[c].lines :
             rref'[l.to] # rref[l.to] /\ l.new # None /\ rref[l.to] # None => rref[l.to] \in History[rref'[l.to]]]_vars
  BY <1>1
<1> QED
  BY <1>2, Invariant, PTL DEF Spec, PushForwards

\* A function that goes from one connection to the next is what PutAll computes.
LEMMA PutAllIs ==
  ASSUME NEW conn, NEW packets, Len(packets) \in Nat, NEW c,
         c = [k \in 0..Len(packets) |-> c[k]], c[0] = conn,
         \A k \in 1..Len(packets) : c[k] = Put(c[k - 1], packets[k])
  PROVE  PutAll(conn, packets) = c[Len(packets)]
<1> DEFINE n == Len(packets)
           P(f) == f = [k \in 0..n |-> IF k = 0 THEN conn ELSE Put(f[k - 1], packets[k])]
           f == CHOOSE g : P(g)
<1>1. PutAll(conn, packets) = f[n]
  BY DEF PutAll
<1>2. P(c)
  <2> DEFINE d == [k \in 0..n |-> IF k = 0 THEN conn ELSE Put(c[k - 1], packets[k])]
  <2>1. \A k \in 0..n : c[k] = IF k = 0 THEN conn ELSE Put(c[k - 1], packets[k])
    OBVIOUS
  <2>2. [k \in 0..n |-> c[k]] = d
    BY <2>1
  <2> QED
    BY <2>2
<1>3. P(f)
  <2> HIDE DEF P
  <2> QED BY <1>2
<1> HIDE DEF f
<1> DEFINE S == {k \in 0..n : f[k] = c[k]}
<1>4. 0 \in S
  BY <1>3
<1>5. ASSUME NEW k \in 1..n, k - 1 \in S PROVE k \in S
  <2>1. k \in 0..n /\ k # 0 /\ f[k - 1] = c[k - 1]
    BY <1>5
  <2>2. f[k] = Put(f[k - 1], packets[k])
    BY <1>3, <2>1
  <2>3. f[k] = c[k]
    BY <2>1, <2>2
  <2> QED
    BY <2>1, <2>3
<1>6. 0..n \subseteq S
  <2> HIDE DEF S
  <2> QED BY <1>4, <1>5, StepInduction
<1> QED
  BY <1>1, <1>6

\* The sequence of a finite set holds its elements.
LEMMA SetToSeqIs ==
  ASSUME NEW S, IsFiniteSet(S)
  PROVE  SetToSeq(S) \in Seq(S) /\ \A x : x \in S <=> \E k \in 1..Len(SetToSeq(S)) : SetToSeq(S)[k] = x
<1> DEFINE n == Cardinality(S)
           f == SetToSeq(S)
<1>1. n \in Nat /\ IsFiniteSet(1..n) /\ Cardinality(1..n) = n
  BY FS_CardinalityType, FS_Interval
<1>2. \E g \in [1..n -> S] : IsInjective(g)
  <2>1. ExistsBijection(1..n, S)
    BY <1>1, FS_SameCardinalityBij
  <2>2. PICK g : g \in Bijection(1..n, S)
    BY <2>1 DEF ExistsBijection
  <2> QED
    BY <2>2 DEF Bijection, Injection, IsInjective
<1>3. f \in [1..n -> S] /\ IsInjective(f)
  BY <1>2 DEF SetToSeq
<1> HIDE DEF f
<1>4. f \in Injection(1..n, S)
  BY <1>3 DEF Injection, IsInjective
<1>5. f \in Surjection(1..n, S)
  BY <1>1, <1>4, FS_Injection
<1>6. \A x \in S : \E k \in 1..n : f[k] = x
  BY <1>5 DEF Surjection
<1>7. f \in Seq(S) /\ Len(f) = n
  BY <1>1, <1>3
<1> QED
  BY <1>3, <1>6, <1>7 DEF f

\* One packet more.
LEMMA SliceAppend ==
  ASSUME NEW S, NEW s \in Seq(S), NEW k \in 1..Len(s)
  PROVE  /\ Slice(s, 0, k - 1) \in Seq(S) /\ s[k] \in S
         /\ Slice(s, 0, k) = Append(Slice(s, 0, k - 1), s[k])
<1>1. /\ SubSeq(s, 1, k) = SubSeq(s, 1, k - 1) \o <<s[k]>>
      /\ s[k] \in S
  <2>1. 1 \in 1..Len(s) /\ k \in 1..Len(s)
    OBVIOUS
  <2> QED
    BY <2>1, SubSeqRecursiveSecond
<1>2. Slice(s, 0, k - 1) \in Seq(S)
  <2>1. 0 \in Nat /\ k - 1 \in 0..Len(s)
    OBVIOUS
  <2> QED
    BY <2>1, SliceIs
<1>3. Slice(s, 0, k) = Slice(s, 0, k - 1) \o <<s[k]>>
  BY <1>1 DEF Slice
<1> QED
  BY <1>1, <1>2, <1>3, AppendIsConcat

\* A connection by its fields.  Yes and No are TRUE and FALSE.
Yes == TRUE
No == FALSE
Conn(h, v, b, p, a) == [http |-> h, version |-> v, buf |-> b, posts |-> p, almostdone |-> a]

\* What its fields are, and what it is with others.
LEMMA ConnIs ==
  ASSUME NEW h, NEW v, NEW b, NEW p, NEW a
  PROVE  /\ Conn(h, v, b, p, a).http = h /\ Conn(h, v, b, p, a).version = v /\ Conn(h, v, b, p, a).buf = b
         /\ Conn(h, v, b, p, a).almostdone = a /\ Conn(h, v, b, p, a).posts = p
BY DEF Conn

\* What it is with others.
WithBuf(c, x) == [c EXCEPT !.buf = x]
WithPosts(c, x) == [c EXCEPT !.posts = x]
WithAlmost(c, x) == [c EXCEPT !.almostdone = x]

LEMMA ConnWith ==
  ASSUME NEW h, NEW v, NEW b, NEW p, NEW a, NEW x
  PROVE  /\ WithBuf(Conn(h, v, b, p, a), x) = Conn(h, v, x, p, a)
         /\ WithPosts(Conn(h, v, b, p, a), x) = Conn(h, v, b, x, a)
         /\ WithAlmost(Conn(h, v, b, p, a), x) = Conn(h, v, b, p, x)
<1>1. WithBuf(Conn(h, v, b, p, a), x) = Conn(h, v, x, p, a)
  BY DEF Conn, WithBuf
<1>2. WithPosts(Conn(h, v, b, p, a), x) = Conn(h, v, b, x, a)
  BY DEF Conn, WithPosts
<1>3. WithAlmost(Conn(h, v, b, p, a), x) = Conn(h, v, b, p, x)
  BY DEF Conn, WithAlmost
<1> QED
  BY <1>1, <1>2, <1>3

\* What a request does to one.
LEMMA SendRequestIs ==
  ASSUME NEW h, NEW v, NEW b, NEW p, NEW a
  PROVE  SendRequest(Conn(h, v, b, p, a)) = Conn(h, v, b, Append(p, b), a)
<1> DEFINE c == Conn(h, v, b, p, a)
<1>1. c.posts = p /\ c.buf = b
  BY ConnIs
<1> HIDE DEF c
<1>2. SendRequest(c) = WithPosts(c, Append(c.posts, c.buf))
  BY DEF SendRequest, WithPosts
<1> QED
  BY <1>1, <1>2, ConnWith DEF c

\* What a packet does to a stream.
LEMMA PutStream ==
  ASSUME NEW v, NEW b, NEW p, NEW a, NEW x
  PROVE  Put(Conn(No, v, b, p, a), x) = Conn(No, v, Append(b, x), <<Append(b, x)>>, a)
<1> DEFINE c == Conn(No, v, b, p, a)
<1>1. c.http = No /\ c.buf = b
  BY ConnIs
<1> HIDE DEF c
<1>2. Put(c, x) = StreamWrite(c, x)
  BY <1>1 DEF Put, No
<1>3. StreamWrite(c, x) = WithBuf(WithPosts(c, <<Append(c.buf, x)>>), Append(c.buf, x))
  <2>1. WithPosts(c, <<Append(c.buf, x)>>).buf = c.buf
    BY DEF WithPosts
  <2> QED
    BY <2>1 DEF StreamWrite, WithBuf, WithPosts
<1> QED
  BY <1>1, <1>2, <1>3, ConnWith DEF c

\* What a packet does over http, if nothing is to be sent and if something is.
LEMMA PutHttp ==
  ASSUME NEW v, NEW b, NEW p, NEW a, NEW x
  PROVE  /\ (x = Flush /\ a /\ v = 1) \/ (x # Flush /\ (v = 2 \/ x # Done))
               => Put(Conn(Yes, v, b, p, a), x) = Conn(Yes, v, Append(b, x), p, a)
         /\ x = Flush /\ v # 1
               => Put(Conn(Yes, v, b, p, a), x) = Conn(Yes, v, Append(b, x), Append(p, Append(b, x)), a)
         /\ x # Flush /\ v # 2 /\ x = Done
               => Put(Conn(Yes, v, b, p, a), x) = Conn(Yes, v, Append(b, x), Append(p, Append(b, x)), No)
<1> DEFINE y == Append(b, x)
           c == Conn(Yes, v, b, p, a)
           w == Conn(Yes, v, y, p, a)
           s == Conn(Yes, v, y, Append(p, y), a)
           d == Conn(Yes, v, y, Append(p, y), No)
<1>1. c.http = Yes /\ c.buf = b /\ c.version = v /\ c.almostdone = a
  BY ConnIs
<1>2. WithBuf(c, y) = w /\ SendRequest(w) = s /\ WithAlmost(s, No) = d
  BY ConnWith, SendRequestIs
<1> HIDE DEF c, w, s, d
<1>3. [c EXCEPT !.buf = Append(@, x)] = w
  BY <1>1, <1>2 DEF WithBuf
<1>4. [SendRequest(w) EXCEPT !.almostdone = FALSE] = d
  BY <1>2 DEF WithAlmost, No
<1> HIDE DEF y
<1>5. Put(c, x) = IF x = Flush THEN HttpFlush(c) ELSE HttpWrite(c, x)
  BY <1>1 DEF Put, Yes
<1>6. x = Flush => HttpFlush(c) = IF a /\ v = 1 THEN w ELSE s
  <2>1. ASSUME x = Flush PROVE [c EXCEPT !.buf = Append(@, Flush)] = w
    BY <1>3, <2>1
  <2> QED
    BY <1>1, <1>2, <2>1 DEF HttpFlush
<1>7. HttpWrite(c, x) = IF v # 2 /\ x = Done THEN d ELSE w
  BY <1>1, <1>3, <1>4 DEF HttpWrite
<1>8. x = Flush /\ a /\ v = 1 => Put(c, x) = w
  BY <1>5, <1>6
<1>9. x # Flush /\ (v = 2 \/ x # Done) => Put(c, x) = w
  BY <1>5, <1>7
<1>10. x = Flush /\ v # 1 => Put(c, x) = s
  BY <1>5, <1>6
<1>11. x # Flush /\ v # 2 /\ x = Done => Put(c, x) = d
  BY <1>5, <1>7
<1> QED
  BY <1>8, <1>9, <1>10, <1>11 DEF c, w, s, d, y

\* What is written to a stream is sent.
LEMMA StreamSends ==
  ASSUME NEW P, NEW req \in Seq(P), req # <<>>,
         NEW v
  PROVE  PutAll(Connection(FALSE, v), req).posts = <<req>>
<1> DEFINE n == Len(req)
           B(k) == Slice(req, 0, k)
           C(k) == Conn(No, v, B(k), IF k = 0 THEN <<>> ELSE <<B(k)>>, No)
           c == [k \in 0..n |-> C(k)]
<1>1. n \in Nat \ {0} /\ 0 \in 0..n /\ n \in 0..n /\ 0 # n
  OBVIOUS
<1>2. B(0) = <<>> /\ B(n) = req
  BY <1>1, SliceIs, SliceAll
<1>3. ASSUME NEW k \in 1..n PROVE C(k) = Put(C(k - 1), req[k])
  <2>1. B(k) = Append(B(k - 1), req[k]) /\ k # 0 /\ k - 1 # n
    BY SliceAppend
  <2>2. k = n => B(k) = req
    BY <1>2
  <2> HIDE DEF B, n
  <2> QED
    BY <2>1, PutStream
<1>4. C(0) = Connection(FALSE, v)
  <2> HIDE DEF B, n
  <2> QED BY <1>1, <1>2 DEF Connection, Conn, No
<1>5. C(n).posts = <<req>>
  <2> HIDE DEF B, n
  <2> QED BY <1>1, <1>2, ConnIs
<1> HIDE DEF C
<1>6. c = [k \in 0..n |-> c[k]] /\ c[0] = C(0) /\ c[n] = C(n)
  BY <1>1
<1>7. \A k \in 1..n : c[k] = Put(c[k - 1], req[k])
  <2>1. ASSUME NEW k \in 1..n PROVE k \in 0..n /\ k - 1 \in 0..n
    BY <1>1
  <2> QED
    BY <1>3, <2>1
<1>8. PutAll(Connection(FALSE, v), req) = c[n]
  <2> HIDE DEF c
  <2> QED
    BY <1>1, <1>4, <1>6, <1>7, PutAllIs
<1> QED
  BY <1>5, <1>6, <1>8

\* Over http a request of version 2 is sent once, with its flush at the end.
LEMMA Http2Sends ==
  ASSUME NEW P, NEW req \in Seq(P), req # <<>>,
         \A k \in 1..Len(req) : req[k] = Flush <=> k = Len(req)
  PROVE  PutAll(Connection(TRUE, 2), req).posts = <<req>>
<1> DEFINE n == Len(req)
           B(k) == Slice(req, 0, k)
           C(k) == Conn(Yes, 2, B(k), IF k = n THEN <<req>> ELSE <<>>, No)
           c == [k \in 0..n |-> C(k)]
<1>1. n \in Nat \ {0} /\ 0 \in 0..n /\ n \in 0..n /\ 0 # n
  OBVIOUS
<1>2. B(0) = <<>> /\ B(n) = req
  BY <1>1, SliceIs, SliceAll
<1>3. ASSUME NEW k \in 1..n PROVE C(k) = Put(C(k - 1), req[k])
  <2>1. B(k) = Append(B(k - 1), req[k]) /\ k # 0 /\ k - 1 # n
    BY SliceAppend
  <2>2. k = n => B(k) = req
    BY <1>2
  <2>3. req[k] = Flush <=> k = n
    OBVIOUS
  <2> HIDE DEF B, n
  <2>4. C(k - 1) = Conn(Yes, 2, B(k - 1), <<>>, No)
    BY <2>1
  <2>0. (k = n => C(k) = Conn(Yes, 2, B(k), <<req>>, No)) /\ (k # n => C(k) = Conn(Yes, 2, B(k), <<>>, No))
    OBVIOUS
  <2> HIDE DEF C
  <2>5. CASE k = n
    <3> DEFINE e == <<>>
    <3>1. C(k - 1) = Conn(Yes, 2, B(k - 1), e, No)
      BY <2>4
    <3>2. Append(e, B(k)) = <<B(k)>>
      OBVIOUS
    <3> HIDE DEF e
    <3>3. Put(C(k - 1), req[k]) = Conn(Yes, 2, B(k), Append(e, B(k)), No)
      BY <2>1, <2>3, <2>5, <3>1, PutHttp
    <3> QED
      BY <2>0, <2>2, <2>5, <3>2, <3>3
  <2>6. CASE k # n
    <3>1. Put(C(k - 1), req[k]) = Conn(Yes, 2, B(k), <<>>, No)
      BY <2>1, <2>3, <2>4, <2>6, PutHttp
    <3> QED
      BY <2>6, <3>1, <2>0
  <2> QED
    BY <2>5, <2>6
<1>4. C(0) = Connection(TRUE, 2)
  <2> HIDE DEF B, n
  <2> QED BY <1>1, <1>2 DEF Connection, Conn, Yes, No
<1>5. C(n).posts = <<req>>
  <2> HIDE DEF B, n
  <2> QED BY <1>1, <1>2, ConnIs
<1> HIDE DEF C
<1>6. c = [k \in 0..n |-> c[k]] /\ c[0] = C(0) /\ c[n] = C(n)
  BY <1>1
<1>7. \A k \in 1..n : c[k] = Put(c[k - 1], req[k])
  <2>1. ASSUME NEW k \in 1..n PROVE k \in 0..n /\ k - 1 \in 0..n
    BY <1>1
  <2> QED
    BY <1>3, <2>1
<1>8. PutAll(Connection(TRUE, 2), req) = c[n]
  <2> HIDE DEF c
  <2> QED
    BY <1>1, <1>4, <1>6, <1>7, PutAllIs
<1> QED
  BY <1>5, <1>6, <1>8

\* One of version 1 with its done, not at the flush before.
LEMMA Http1Sends ==
  ASSUME NEW P, NEW req \in Seq(P), req # <<>>,
         \A k \in 1..Len(req) : req[k] = Done <=> k = Len(req),
         NEW start, start = [Connection(TRUE, 1) EXCEPT !.almostdone = TRUE]
  PROVE  PutAll(start, req).posts = <<req>>
<1> DEFINE n == Len(req)
           B(k) == Slice(req, 0, k)
           C(k) == Conn(Yes, 1, B(k), IF k = n THEN <<req>> ELSE <<>>, IF k = n THEN No ELSE Yes)
           c == [k \in 0..n |-> C(k)]
<1>1. n \in Nat \ {0} /\ 0 \in 0..n /\ n \in 0..n /\ 0 # n
  OBVIOUS
<1>2. B(0) = <<>> /\ B(n) = req
  BY <1>1, SliceIs, SliceAll
<1>3. ASSUME NEW k \in 1..n PROVE C(k) = Put(C(k - 1), req[k])
  <2>1. B(k) = Append(B(k - 1), req[k]) /\ k # 0 /\ k - 1 # n
    BY SliceAppend
  <2>2. k = n => B(k) = req
    BY <1>2
  <2>3. (req[k] = Done <=> k = n) /\ Flush # Done
    BY DEF Flush, Done, Line
  <2> HIDE DEF B, n
  <2>4. C(k - 1) = Conn(Yes, 1, B(k - 1), <<>>, Yes)
    BY <2>1
  <2>0. (k = n => C(k) = Conn(Yes, 1, B(k), <<req>>, No)) /\ (k # n => C(k) = Conn(Yes, 1, B(k), <<>>, Yes))
    OBVIOUS
  <2> HIDE DEF C
  <2>5. CASE k = n
    <3> DEFINE e == <<>>
    <3>1. C(k - 1) = Conn(Yes, 1, B(k - 1), e, Yes)
      BY <2>4
    <3>2. Append(e, B(k)) = <<B(k)>>
      OBVIOUS
    <3> HIDE DEF e
    <3>3. Put(C(k - 1), req[k]) = Conn(Yes, 1, B(k), Append(e, B(k)), No)
      BY <2>1, <2>3, <2>5, <3>1, PutHttp
    <3> QED
      BY <2>0, <2>2, <2>5, <3>2, <3>3
  <2>6. CASE k # n
    <3>1. (req[k] = Flush /\ Yes /\ 1 = 1) \/ (req[k] # Flush /\ req[k] # Done)
      BY <2>3, <2>6 DEF Yes
    <3>2. Put(C(k - 1), req[k]) = Conn(Yes, 1, B(k), <<>>, Yes)
      BY <2>1, <2>4, <3>1, PutHttp
    <3> QED
      BY <2>6, <3>2, <2>0
  <2> QED
    BY <2>5, <2>6
<1>4. C(0) = start
  <2> HIDE DEF B, n
  <2>1. C(0) = Conn(Yes, 1, <<>>, <<>>, Yes)
    BY <1>1, <1>2
  <2>2. Connection(TRUE, 1) = Conn(Yes, 1, <<>>, <<>>, No)
    BY DEF Connection, Conn, Yes, No
  <2>3. WithAlmost(Conn(Yes, 1, <<>>, <<>>, No), Yes) = Conn(Yes, 1, <<>>, <<>>, Yes)
    BY ConnWith
  <2>4. [Connection(TRUE, 1) EXCEPT !.almostdone = TRUE] = WithAlmost(Connection(TRUE, 1), Yes)
    BY DEF WithAlmost, Yes
  <2> HIDE DEF C
  <2> QED
    BY <2>1, <2>2, <2>3, <2>4
<1>5. C(n).posts = <<req>>
  <2> HIDE DEF B, n
  <2> QED BY <1>1, <1>2, ConnIs
<1> HIDE DEF C
<1>6. c = [k \in 0..n |-> c[k]] /\ c[0] = C(0) /\ c[n] = C(n)
  BY <1>1
<1>7. \A k \in 1..n : c[k] = Put(c[k - 1], req[k])
  <2>1. ASSUME NEW k \in 1..n PROVE k \in 0..n /\ k - 1 \in 0..n
    BY <1>1
  <2> QED
    BY <1>3, <2>1
<1>8. PutAll(start, req) = c[n]
  <2> HIDE DEF c
  <2> QED
    <3>1. c[0] = start
      BY <1>4, <1>6
    <3> HIDE DEF n, B
    <3>2. n = Len(req)
      BY DEF n
    <3> QED
      BY SMTT(30), <1>1, <1>6, <1>7, <3>1, <3>2, PutAllIs
<1> QED
  BY <1>5, <1>6, <1>8

\* The lines of a request that say what is wanted or had.
WantLines(W) == {Line(<<"want", w>>) : w \in W}
HaveLines(H) == {Line(<<"have", h>>) : h \in H}
Others == {Delim, Line(<<"fetch">>), Line(<<"ofs-delta">>)}

\* Lines are told from each other by what they hold.
LEMMA LinesDiffer ==
  ASSUME NEW w
  PROVE  /\ Line(<<"want", w>>) # Done /\ Line(<<"have", w>>) # Done /\ Flush # Done /\ Delim # Done
         /\ Line(<<"want", w>>) # Flush /\ Line(<<"have", w>>) # Flush /\ Flush # Delim
         /\ Line(<<"fetch">>) # Done /\ Line(<<"ofs-delta">>) # Done
         /\ Line(<<"fetch">>) # Flush /\ Line(<<"ofs-delta">>) # Flush
<1>1. <<"want", w>> # <<"done">> /\ <<"have", w>> # <<"done">>
  OBVIOUS
<1>2. <<"fetch">> # <<"done">> /\ <<"ofs-delta">> # <<"done">>
  OBVIOUS
<1> QED
  BY <1>1, <1>2 DEF Line, Done, Flush, Delim

\* The wants and haves of a request.
LEMMA WantsHaves ==
  ASSUME NEW S, IsFiniteSet(S)
  PROVE  /\ Wants(S) \in Seq(WantLines(S)) /\ Haves(S) \in Seq(HaveLines(S))
         /\ \A x \in WantLines(S) : \E k \in 1..Len(Wants(S)) : Wants(S)[k] = x
         /\ \A x \in HaveLines(S) : \E k \in 1..Len(Haves(S)) : Haves(S)[k] = x
<1> DEFINE s == SetToSeq(S)
           n == Len(s)
<1>1. s \in Seq(S) /\ n \in Nat /\ (\A k \in 1..n : s[k] \in S) /\ \A x \in S : \E k \in 1..n : s[k] = x
  <2>1. s \in Seq(S) /\ \A x : x \in S <=> \E k \in 1..n : s[k] = x
    BY SetToSeqIs
  <2> HIDE DEF s
  <2> QED
    BY <2>1
<1>2. Wants(S) = [k \in 1..n |-> Line(<<"want", s[k]>>)] /\ Haves(S) = [k \in 1..n |-> Line(<<"have", s[k]>>)]
  BY DEF Wants, Haves
<1> HIDE DEF s, n
<1>3. Wants(S) \in Seq(WantLines(S)) /\ Len(Wants(S)) = n
  <2>1. \A k \in 1..n : Line(<<"want", s[k]>>) \in WantLines(S)
    BY <1>1 DEF WantLines
  <2> QED
    BY <1>1, <1>2, <2>1
<1>4. Haves(S) \in Seq(HaveLines(S)) /\ Len(Haves(S)) = n
  <2>1. \A k \in 1..n : Line(<<"have", s[k]>>) \in HaveLines(S)
    BY <1>1 DEF HaveLines
  <2> QED
    BY <1>1, <1>2, <2>1
<1>5. ASSUME NEW x \in WantLines(S) PROVE \E k \in 1..Len(Wants(S)) : Wants(S)[k] = x
  <2>1. PICK w \in S : x = Line(<<"want", w>>)
    BY DEF WantLines
  <2>2. PICK k \in 1..n : s[k] = w
    BY <1>1
  <2> QED
    BY <1>2, <1>3, <2>1, <2>2
<1>6. ASSUME NEW x \in HaveLines(S) PROVE \E k \in 1..Len(Haves(S)) : Haves(S)[k] = x
  <2>1. PICK w \in S : x = Line(<<"have", w>>)
    BY DEF HaveLines
  <2>2. PICK k \in 1..n : s[k] = w
    BY <1>1
  <2> QED
    BY <1>2, <1>4, <2>1, <2>2
<1> QED
  BY <1>3, <1>4, <1>5, <1>6

\* What git reads in a request that has those lines.
LEMMA UnderstoodIs ==
  ASSUME NEW W, NEW H, NEW post,
         {post[k] : k \in 1..Len(post)} = WantLines(W) \cup HaveLines(H) \cup {Flush, Done} \cup {Flush}
         \/ {post[k] : k \in 1..Len(post)} = WantLines(W) \cup HaveLines(H) \cup {Flush, Done} \cup Others
  PROVE  Understood(post) = [wants |-> W, haves |-> H, done |-> TRUE]
<1> DEFINE P == {post[k] : k \in 1..Len(post)}
           lines == {post[k].of : k \in {k \in 1..Len(post) : post[k].type = "line"}}
           Ids(word) == {l[2] : l \in {l \in lines : l[1] = word}}
<1>1. lines = {p.of : p \in {p \in P : p.type = "line"}}
  OBVIOUS
<1> DEFINE Said == {<<"want", w>> : w \in W} \cup {<<"have", h>> : h \in H}
                   \cup {<<"done">>, <<"fetch">>, <<"ofs-delta">>}
<1>a. /\ WantLines(W) \subseteq P /\ HaveLines(H) \subseteq P /\ Done \in P
      /\ P \subseteq WantLines(W) \cup HaveLines(H) \cup Others \cup {Flush, Done}
  OBVIOUS
<1> HIDE DEF P
<1>b. ASSUME NEW p \in P, p.type = "line" PROVE p.of \in Said
  <2>1. Flush.type # "line" /\ Delim.type # "line"
    BY DEF Flush, Delim
  <2>2. \A d : Line(d).of = d
    BY DEF Line
  <2>3. CASE p \in WantLines(W) \cup HaveLines(H)
    BY ZenonT(30), <2>2, <2>3 DEF WantLines, HaveLines
  <2>4. CASE p \in Others \cup {Done}
    BY <1>b, <2>1, <2>2, <2>4 DEF Others, Done
  <2> QED
    BY <1>a, <1>b, <2>1, <2>3, <2>4
<1>2. /\ Done \in P
      /\ \A w \in W : Line(<<"want", w>>) \in P
      /\ \A h \in H : Line(<<"have", h>>) \in P
  BY <1>a DEF WantLines, HaveLines
<1>3. lines \subseteq Said
  BY <1>1, <1>b
<1>4. (\A w \in W : <<"want", w>> \in lines) /\ \A h \in H : <<"have", h>> \in lines
  <2>1. ASSUME NEW d, Line(d) \in P PROVE d \in lines
    <3>1. Line(d).type = "line" /\ Line(d).of = d
      BY DEF Line
    <3> QED
      BY <1>1, <2>1, <3>1
  <2> QED
    BY <1>2, <2>1
<1>5. Understood(post) = [wants |-> Ids("want"), haves |-> Ids("have"), done |-> Done \in P]
  BY DEF Understood, P
<1> HIDE DEF lines
<1>6. Ids("want") = W
  <2>1. \A x \in Ids("want") : x \in W
    BY <1>3
  <2>2. ASSUME NEW w \in W PROVE w \in Ids("want")
    <3>1. <<"want", w>> \in lines /\ <<"want", w>>[1] = "want" /\ <<"want", w>>[2] = w
      BY <1>4
    <3> QED
      BY <3>1
  <2> QED
    BY <2>1, <2>2
<1>7. Ids("have") = H
  <2>1. \A x \in Ids("have") : x \in H
    BY <1>3
  <2>2. ASSUME NEW h \in H PROVE h \in Ids("have")
    <3>1. <<"have", h>> \in lines /\ <<"have", h>>[1] = "have" /\ <<"have", h>>[2] = h
      BY <1>4
    <3> QED
      BY <3>1
  <2> QED
    BY <2>1, <2>2
<1>8. (Done \in P) = TRUE
  BY <1>2, Zenon
<1> HIDE DEF Ids
<1> QED
  BY <1>5, <1>6, <1>7, <1>8, Zenon

\* x is at the end of s and nowhere else.
EndsOnly(s, x) == s # <<>> /\ \A k \in 1..Len(s) : s[k] = x <=> k = Len(s)

\* What only ends a sequence.
LEMMA EndsWith ==
  ASSUME NEW Q, NEW v \in Seq(Q), NEW x, x \notin Q, NEW t, t = <<x>>
  PROVE  v \o t \in Seq(Q \cup {x}) /\ EndsOnly(v \o t, x)
<1> DEFINE S == Q \cup {x}
           s == v \o t
<1>1. v \in Seq(S) /\ t \in Seq(S) /\ Len(t) = 1 /\ t[1] = x /\ Len(v) \in Nat
      /\ \A k \in 1..Len(v) : v[k] # x
  OBVIOUS
<1> HIDE DEF S
<1>2. s \in Seq(S) /\ Len(s) = Len(v) + 1
  <2>1. s \in Seq(S) /\ Len(s) = Len(v) + Len(t)
    BY <1>1, ConcatProperties
  <2> QED
    BY <1>1, <2>1
<1>3. \A k \in 1..Len(v) + 1 : s[k] = IF k <= Len(v) THEN v[k] ELSE t[k - Len(v)]
  <2>1. \A k \in 1..Len(v) + Len(t) : s[k] = IF k <= Len(v) THEN v[k] ELSE t[k - Len(v)]
    BY <1>1, ConcatProperties
  <2> QED
    BY <1>1, <2>1
<1>4. ASSUME NEW k \in 1..Len(s) PROVE s[k] = x <=> k = Len(s)
  <2>1. CASE k <= Len(v)
    BY <1>1, <1>2, <1>3, <2>1
  <2>2. CASE k > Len(v)
    <3>1. k - Len(v) = 1 /\ k = Len(s)
      BY <1>1, <1>2, <2>2
    <3> QED
      BY <1>1, <1>2, <1>3, <2>2, <3>1
  <2> QED
    BY <1>1, <1>2, <2>1, <2>2
<1>5. s # <<>>
  BY <1>1, <1>2
<1> QED
  BY <1>2, <1>4, <1>5 DEF S, EndsOnly

\* What a sequence that holds a set holds.
LEMMA RangeIs ==
  ASSUME NEW S, NEW s \in Seq(S), \A x \in S : \E k \in 1..Len(s) : s[k] = x
  PROVE  Range(s) = S
<1>1. DOMAIN s = 1..Len(s) /\ \A k \in 1..Len(s) : s[k] \in S
  OBVIOUS
<1> QED
  BY <1>1 DEF Range

\* A request of version 2.
LEMMA RequestV2Is ==
  ASSUME NEW W, NEW H, IsFiniteSet(W), IsFiniteSet(H)
  PROVE  LET req == RequestV2(W, H)
         IN /\ \E P : req \in Seq(P)
            /\ EndsOnly(req, Flush)
            /\ Range(req) = WantLines(W) \cup HaveLines(H) \cup {Flush, Done} \cup Others
<1> DEFINE Q == WantLines(W) \cup HaveLines(H) \cup {Done} \cup Others
           a == <<Line(<<"fetch">>), Delim, Line(<<"ofs-delta">>)>>
           d == <<Done>>
           w == a \o Wants(W)
           u == w \o Haves(H)
           v == u \o d
<1>1. /\ Wants(W) \in Seq(Q) /\ Range(Wants(W)) = WantLines(W)
      /\ Haves(H) \in Seq(Q) /\ Range(Haves(H)) = HaveLines(H)
      /\ a \in Seq(Q) /\ Range(a) = Others /\ d \in Seq(Q) /\ Range(d) = {Done}
  <2>1. /\ Wants(W) \in Seq(WantLines(W)) /\ \A x \in WantLines(W) : \E k \in 1..Len(Wants(W)) : Wants(W)[k] = x
        /\ Haves(H) \in Seq(HaveLines(H)) /\ \A x \in HaveLines(H) : \E k \in 1..Len(Haves(H)) : Haves(H)[k] = x
    BY WantsHaves
  <2>2. Wants(W) \in Seq(Q) /\ Haves(H) \in Seq(Q)
    BY <2>1, SeqMonotonic
  <2>3. Range(Wants(W)) = WantLines(W) /\ Range(Haves(H)) = HaveLines(H)
    BY <2>1, RangeIs
  <2>4. a \in Seq(Q) /\ Range(a) = Others
    BY DEF Others, Range
  <2>5. d \in Seq(Q) /\ Range(d) = {Done}
    BY DEF Range
  <2> QED
    BY <2>2, <2>3, <2>4, <2>5
<1> HIDE DEF Q, a, d
<1>2. w \in Seq(Q) /\ Range(w) = Others \cup WantLines(W)
  BY <1>1, RangeConcat
<1> HIDE DEF w
<1>3. u \in Seq(Q) /\ Range(u) = Others \cup WantLines(W) \cup HaveLines(H)
  BY <1>1, <1>2, RangeConcat
<1> HIDE DEF u
<1>4. v \in Seq(Q) /\ Range(v) = Others \cup WantLines(W) \cup HaveLines(H) \cup {Done}
  BY <1>1, <1>3, RangeConcat
<1>5. Flush \notin Q
  BY LinesDiffer DEF Q, Others, WantLines, HaveLines
<1> DEFINE f == <<Flush>>
<1>6. RequestV2(W, H) = v \o f
  <2>1. RequestV2(W, H) = u \o <<Done, Flush>>
    BY DEF RequestV2, u, a, w
  <2>2. <<Done, Flush>> = d \o f
    BY DEF d
  <2>3. u \in Seq(Q \cup {Flush}) /\ d \in Seq(Q \cup {Flush}) /\ f \in Seq(Q \cup {Flush})
    BY <1>1, <1>3
  <2> HIDE DEF f
  <2>4. (u \o d) \o f = u \o (d \o f)
    BY SMTT(30), <2>3, ConcatAssociative
  <2> QED
    BY <2>1, <2>2, <2>4
<1> HIDE DEF v
<1>7. v \o f \in Seq(Q \cup {Flush}) /\ EndsOnly(v \o f, Flush)
  BY <1>4, <1>5, EndsWith
<1>8. Range(v \o f) = Range(v) \cup {Flush}
  <2>1. Range(f) = {Flush}
    BY DEF Range
  <2>2. v \in Seq(Q \cup {Flush}) /\ f \in Seq(Q \cup {Flush})
    BY <1>4
  <2> HIDE DEF f
  <2>3. Range(v \o f) = Range(v) \cup Range(f)
    BY <2>2, RangeConcat
  <2> QED
    BY <2>1, <2>3
<1> QED
  BY <1>4, <1>6, <1>7, <1>8

\* A request of version 1.
LEMMA RequestV1Is ==
  ASSUME NEW W, NEW H, IsFiniteSet(W), IsFiniteSet(H)
  PROVE  LET req == RequestV1(W, H)
         IN /\ \E P : req \in Seq(P)
            /\ EndsOnly(req, Done)
            /\ Range(req) = WantLines(W) \cup HaveLines(H) \cup {Flush, Done} \cup {Flush}
<1> DEFINE Q == WantLines(W) \cup HaveLines(H) \cup {Flush}
           f == <<Flush>>
           u == Wants(W) \o f
           v == u \o Haves(H)
<1>1. /\ Wants(W) \in Seq(Q) /\ Range(Wants(W)) = WantLines(W)
      /\ Haves(H) \in Seq(Q) /\ Range(Haves(H)) = HaveLines(H)
      /\ f \in Seq(Q) /\ Range(f) = {Flush}
  <2>1. /\ Wants(W) \in Seq(WantLines(W)) /\ \A x \in WantLines(W) : \E k \in 1..Len(Wants(W)) : Wants(W)[k] = x
        /\ Haves(H) \in Seq(HaveLines(H)) /\ \A x \in HaveLines(H) : \E k \in 1..Len(Haves(H)) : Haves(H)[k] = x
    BY WantsHaves
  <2>2. Wants(W) \in Seq(Q) /\ Haves(H) \in Seq(Q)
    BY <2>1, SeqMonotonic
  <2>3. Range(Wants(W)) = WantLines(W) /\ Range(Haves(H)) = HaveLines(H)
    BY <2>1, RangeIs
  <2>4. f \in Seq(Q) /\ Range(f) = {Flush}
    BY DEF Range
  <2> QED
    BY <2>2, <2>3, <2>4
<1> HIDE DEF Q, f
<1>2. u \in Seq(Q) /\ Range(u) = WantLines(W) \cup {Flush}
  BY <1>1, RangeConcat
<1> HIDE DEF u
<1>3. v \in Seq(Q) /\ Range(v) = WantLines(W) \cup {Flush} \cup HaveLines(H)
  BY <1>1, <1>2, RangeConcat
<1>4. Done \notin Q
  BY LinesDiffer DEF Q, WantLines, HaveLines
<1> DEFINE d == <<Done>>
<1>5. RequestV1(W, H) = v \o d
  BY DEF RequestV1, v, u, f
<1> HIDE DEF v
<1>6. v \o d \in Seq(Q \cup {Done}) /\ EndsOnly(v \o d, Done)
  BY <1>3, <1>4, EndsWith
<1>7. Range(v \o d) = Range(v) \cup {Done}
  <2>1. Range(d) = {Done}
    BY DEF Range
  <2>2. v \in Seq(Q \cup {Done}) /\ d \in Seq(Q \cup {Done})
    BY <1>3
  <2> HIDE DEF d
  <2>3. Range(v \o d) = Range(v) \cup Range(d)
    BY <2>2, RangeConcat
  <2> QED
    BY <2>1, <2>3
<1> QED
  BY <1>3, <1>5, <1>6, <1>7

\* Whatever the connection, git gets one request, with all that is wanted and had
\* and the done that asks for the pack.
LEMMA RequestArrives ==
  ASSUME NEW W, NEW H, IsFiniteSet(W), IsFiniteSet(H), NEW http \in BOOLEAN, NEW v \in {1, 2}
  PROVE  LET conn == Requested(http, v, W, H)
         IN Len(conn.posts) = 1 /\ Understood(conn.posts[1]) = [wants |-> W, haves |-> H, done |-> TRUE]
<1> DEFINE req == IF v = 2 THEN RequestV2(W, H) ELSE RequestV1(W, H)
           conn == Requested(http, v, W, H)
<1>1. (\E P : req \in Seq(P)) /\ req # <<>>
  BY RequestV1Is, RequestV2Is DEF EndsOnly
<1>2. Understood(req) = [wants |-> W, haves |-> H, done |-> TRUE]
  <2>1. {req[k] : k \in 1..Len(req)} = Range(req)
    BY <1>1, RangeEquality
  <2>2. \/ Range(req) = WantLines(W) \cup HaveLines(H) \cup {Flush, Done} \cup {Flush}
        \/ Range(req) = WantLines(W) \cup HaveLines(H) \cup {Flush, Done} \cup Others
    BY RequestV1Is, RequestV2Is
  <2> HIDE DEF req
  <2> QED
    BY <2>1, <2>2, UnderstoodIs
<1>3. conn.posts = <<req>>
  <2>1. CASE http = FALSE /\ v = 2
    BY <1>1, <2>1, StreamSends DEF Requested
  <2>2. CASE http = FALSE /\ v = 1
    <3>0. Connection(FALSE, 1) = Conn(No, 1, <<>>, <<>>, No)
      BY DEF Connection, Conn, No
    <3>1. [Connection(FALSE, 1) EXCEPT !.almostdone = FALSE] = Connection(FALSE, 1)
      <4>1. WithAlmost(Conn(No, 1, <<>>, <<>>, No), No) = Conn(No, 1, <<>>, <<>>, No)
        BY ConnWith
      <4>2. [Connection(FALSE, 1) EXCEPT !.almostdone = FALSE] = WithAlmost(Connection(FALSE, 1), No)
        BY DEF WithAlmost, No
      <4> QED
        BY <3>0, <4>1, <4>2
    <3> QED
      BY <1>1, <2>2, <3>1, StreamSends DEF Requested
  <2>3. CASE http = TRUE /\ v = 2
    BY <1>1, <2>3, RequestV2Is, Http2Sends DEF Requested, EndsOnly
  <2>4. CASE http = TRUE /\ v = 1
    <3> DEFINE start == [Connection(TRUE, 1) EXCEPT !.almostdone = TRUE]
    <3>1. conn = PutAll(start, req)
      BY <2>4 DEF Requested
    <3>2. \A k \in 1..Len(req) : req[k] = Done <=> k = Len(req)
      BY <2>4, RequestV1Is DEF EndsOnly
    <3> HIDE DEF conn, req
    <3>3. PutAll(start, req).posts = <<req>>
      <4> HIDE DEF start
      <4> QED BY <1>1, <3>2, Http1Sends DEF start
    <3> QED
      BY <3>1, <3>3
  <2> QED
    BY <2>1, <2>2, <2>3, <2>4
<1> HIDE DEF conn, req
<1>4. Len(<<req>>) = 1 /\ <<req>>[1] = req
  OBVIOUS
<1> QED
  BY <1>2, <1>3, <1>4 DEF conn

-----------------------------------------------------------------------------
(* How an answer is read.                                                  *)

\* A reader by its fields, and what was read with it.
Rd(mode, rest, under) == [mode |-> mode, rest |-> rest, under |-> under]
St(mode, rest, under, data, err) == [reader |-> Rd(mode, rest, under), data |-> data, err |-> err]
WithRest(r, x) == [r EXCEPT !.rest = x]
WithUnder(r, x) == [r EXCEPT !.under = x]

\* What their fields are, and what they are with others.
LEMMA ReaderIs ==
  ASSUME NEW m, NEW r, NEW u, NEW x
  PROVE  /\ Rd(m, r, u).mode = m /\ Rd(m, r, u).rest = r /\ Rd(m, r, u).under = u
         /\ WithRest(Rd(m, r, u), x) = Rd(m, x, u) /\ WithUnder(Rd(m, r, u), x) = Rd(m, r, x)
<1>1. Rd(m, r, u).mode = m /\ Rd(m, r, u).rest = r /\ Rd(m, r, u).under = u
  BY DEF Rd
<1>2. WithRest(Rd(m, r, u), x) = Rd(m, x, u)
  BY DEF Rd, WithRest
<1>3. WithUnder(Rd(m, r, u), x) = Rd(m, r, x)
  BY DEF Rd, WithUnder
<1> QED
  BY <1>1, <1>2, <1>3

\* What one read adds to what was read before.
LEMMA ReadMoreIs ==
  ASSUME NEW m, NEW r, NEW u, NEW d, NEW e, NEW n
  PROVE  /\ e # "none" => ReadMore(St(m, r, u, d, e), n) = St(m, r, u, d, e)
         /\ \A s, t, v, f, c : e = "none" /\ Read(Rd(m, r, u), n) = [reader |-> Rd(s, t, v), data |-> f, err |-> c]
              => ReadMore(St(m, r, u, d, e), n) = St(s, t, v, d \o f, c)
<1> DEFINE x == St(m, r, u, d, e)
<1>1. x.err = e /\ x.data = d /\ x.reader = Rd(m, r, u)
  BY DEF St
<1>2. e # "none" => ReadMore(x, n) = x
  BY <1>1 DEF ReadMore
<1>3. ASSUME NEW s, NEW t, NEW v, NEW f, NEW c, e = "none",
             Read(Rd(m, r, u), n) = [reader |-> Rd(s, t, v), data |-> f, err |-> c]
      PROVE  ReadMore(x, n) = St(s, t, v, d \o f, c)
  <2> DEFINE y == [reader |-> Rd(s, t, v), data |-> f, err |-> c]
  <2>1. y.data = f
    OBVIOUS
  <2> HIDE DEF x
  <2>2. ReadMore(x, n) = [y EXCEPT !.data = x.data \o @]
    BY <1>1, <1>3 DEF ReadMore
  <2>3. [y EXCEPT !.data = x.data \o @] = [y EXCEPT !.data = d \o f]
    BY <1>1, <2>1
  <2>4. \A z : [y EXCEPT !.data = z] = [reader |-> Rd(s, t, v), data |-> z, err |-> c]
    OBVIOUS
  <2> QED
    BY <2>2, <2>3, <2>4 DEF St
<1> QED
  BY <1>2, <1>3

\* A read from what the last buffer was too small for.
LEMMA ReadUnderIs ==
  ASSUME NEW B, NEW m, NEW r, NEW u \in Seq(B), u # <<>>, NEW n \in Nat \ {0}
  PROVE  \E k \in 1..Len(u) :
           Read(Rd(m, r, u), n) = [reader |-> Rd(m, r, Slice(u, k, Len(u))), data |-> Slice(u, 0, k), err |-> "none"]
<1> DEFINE R == Rd(m, r, u)
<1>1. R.under = u /\ Read(R, n) = ReadUnder(R, n)
  BY ReaderIs DEF Read
<1>2. Len(u) \in Nat \ {0} /\ Slice(u, 0, Len(u)) = u /\ Slice(u, Len(u), Len(u)) = <<>>
  <2>1. Len(u) \in Nat \ {0}
    OBVIOUS
  <2>2. Slice(u, 0, Len(u)) = u
    BY SliceAll
  <2>3. Slice(u, Len(u), Len(u)) = <<>>
    BY <2>1, SliceIs
  <2> QED
    BY <2>1, <2>2, <2>3
<1> HIDE DEF R
<1>3. CASE n > Len(u)
  <2>1. ReadUnder(R, n) = [reader |-> WithUnder(R, <<>>), data |-> u, err |-> "none"]
    BY <1>1, <1>3 DEF ReadUnder, Got, WithUnder
  <2>2. WithUnder(R, <<>>) = Rd(m, r, <<>>)
    BY ReaderIs DEF R
  <2>3. Len(u) \in 1..Len(u)
    BY <1>2
  <2> QED
    BY <1>1, <1>2, <2>1, <2>2, <2>3 DEF R
<1>4. CASE ~ (n > Len(u))
  <2>1. ReadUnder(R, n) = [reader |-> WithUnder(R, SubSeq(u, n + 1, Len(u))), data |-> SubSeq(u, 1, n), err |-> "none"]
    <3>1. [R EXCEPT !.under = SubSeq(@, n + 1, Len(@))] = [R EXCEPT !.under = SubSeq(u, n + 1, Len(u))]
      BY <1>1
    <3> QED
      BY <1>1, <1>4, <3>1 DEF ReadUnder, Got, WithUnder
  <2>2. \A x : WithUnder(R, x) = Rd(m, r, x)
    BY ReaderIs DEF R
  <2>3. SubSeq(u, n + 1, Len(u)) = Slice(u, n, Len(u)) /\ SubSeq(u, 1, n) = Slice(u, 0, n)
    BY DEF Slice
  <2>4. n \in 1..Len(u)
    BY <1>2, <1>4
  <2> QED
    BY <1>1, <2>1, <2>2, <2>3, <2>4 DEF R
<1> QED
  BY <1>3, <1>4

\* A buffer of those that are taken in turn.
LEMMA BufferIs ==
  ASSUME NEW ns \in Seq(Nat \ {0}), ns # <<>>, NEW i \in Nat
  PROVE  ns[(i % Len(ns)) + 1] \in Nat \ {0}
<1>1. PICK n \in Nat \ {0} : n = Len(ns)
  OBVIOUS
<1>2. i % n \in 0..n - 1
  BY SMT
<1>3. (i % n) + 1 \in 1..n
  BY <1>2
<1> QED
  BY <1>1, <1>3

\* Reads come to an end that they do not leave, when each of them before has
\* less to go.
LEMMA ReadsEnd ==
  ASSUME NEW r, NEW ns \in Seq(Nat \ {0}), ns # <<>>, NEW S, NEW E \in SUBSET S, NEW m \in [S -> Nat],
         Most(r) \in Nat, Got(r, <<>>) \in S, m[Got(r, <<>>)] < Most(r),
         \A x \in S, n \in Nat \ {0} :
           /\ ReadMore(x, n) \in S /\ (x \in E => ReadMore(x, n) \in E)
           /\ x \notin E => ReadMore(x, n) \in E \/ m[ReadMore(x, n)] < m[x]
  PROVE  ReadAll(r, ns) \in E
<1> DEFINE N == Most(r)
           a == Got(r, <<>>)
           buf(i) == ns[(i % Len(ns)) + 1]
           h == [q \in (1..N) \X S |-> ReadMore(q[2], buf(q[1]))]
<1>2. N \in Nat /\ a \in S /\ m[a] < N
  OBVIOUS
<1> HIDE DEF N, a
<1>3. ASSUME NEW i \in 1..N PROVE buf(i) \in Nat \ {0}
  <2>1. i \in Nat
    BY <1>2
  <2> QED
    BY <2>1, BufferIs
<1> HIDE DEF buf
<1>4. h \in [(1..N) \X S -> S]
  BY <1>3
<1>5. \A k \in 1..N, x \in S : h[<<k, x>>] = ReadMore(x, buf(k))
  OBVIOUS
<1> HIDE DEF h
<1>13. \E g \in [0..N -> S] : \A k \in 0..N : g[k] = IF k = 0 THEN a ELSE h[<<k, g[k - 1]>>]
  <2>1. \E g \in [0..N -> S] : Stepwise(g, N, a, h)
    <3> DEFINE Q == (1..N) \X S
    <3>1. Q = (1..N) \X S /\ h \in [Q -> S]
      BY <1>4
    <3> HIDE DEF Q
    <3> QED
      BY <3>1, <1>2, StepRecursion
  <2> QED
    BY <2>1 DEF Stepwise
<1> DEFINE P(f) == f = [i \in 0..N |-> IF i = 0 THEN a ELSE ReadMore(f[i - 1], buf(i))]
           f == CHOOSE g : P(g)
<1>1. ReadAll(r, ns) = f[N]
  BY DEF ReadAll, N, a, buf
<1>6. \E g : P(g)
  <2>1. PICK g \in [0..N -> S] : \A k \in 0..N : g[k] = IF k = 0 THEN a ELSE h[<<k, g[k - 1]>>]
    BY <1>13
  <2>2. \A k \in 0..N : g[k] = IF k = 0 THEN a ELSE ReadMore(g[k - 1], buf(k))
    <3> TAKE k \in 0..N
    <3>1. CASE k # 0
      <4>1. k \in 1..N /\ g[k - 1] \in S
        BY <3>1, <1>2
      <4> QED
        BY <2>1, <3>1, <4>1, <1>5
    <3> QED
      BY <2>1, <3>1
  <2>3. P(g)
    <3>1. g = [k \in 0..N |-> g[k]]
      BY <2>1
    <3> QED
      BY <2>2, <3>1
  <2> QED
    BY <2>3
<1>7. P(f)
  <2> HIDE DEF P
  <2> QED BY <1>6
<1> HIDE DEF f
<1>8. f[0] = a /\ \A k \in 1..N : f[k] = ReadMore(f[k - 1], buf(k))
  <2>1. 0 \in 0..N /\ \A k \in 1..N : k \in 0..N /\ k # 0
    BY <1>2
  <2>2. \A k \in 0..N : f[k] = IF k = 0 THEN a ELSE ReadMore(f[k - 1], buf(k))
    BY <1>7
  <2> QED
    BY <2>1, <2>2
<1> HIDE DEF P
<1> DEFINE T == {i \in 0..N : f[i] \in S}
<1>9. 0..N \subseteq T
  <2>1. 0 \in T
    <3>1. 0 \in 0..N
      BY <1>2
    <3> QED BY <3>1, <1>2, <1>8
  <2>2. ASSUME NEW i \in 1..N, i - 1 \in T PROVE i \in T
    <3>1. f[i] = ReadMore(f[i - 1], buf(i)) /\ f[i - 1] \in S
      BY <1>8, <2>2
    <3>2. f[i] \in S
      BY <1>3, <3>1
    <3>3. i \in 0..N
      BY <1>2
    <3> QED
      BY <3>2, <3>3
  <2> HIDE DEF T
  <2> QED
    BY <1>2, <2>1, <2>2, StepInduction
<1>10. Goes(f, N, h)
  <2> USE DEF Goes
  <2> TAKE k \in 1..N
  <2>1. k - 1 \in 0..N
    BY <1>2
  <2>2. f[k - 1] \in S
    BY <2>1, <1>9
  <2> QED
    BY <2>2, <1>5, <1>8
<1>11. Lessens(h, N, S, E, m)
  BY <1>3, <1>5 DEF Lessens
<1>12. f[N] \in E
  <2>1. f[0] \in S /\ m[f[0]] < N
    BY <1>2, <1>8
  <2> QED
    <3> DEFINE Q == (1..N) \X S
    <3>1. Q = (1..N) \X S /\ h \in [Q -> S]
      BY <1>4
    <3> HIDE DEF Q
    <3> QED
      BY <3>1, <1>2, <1>10, <1>11, <2>1, StepsEnd
<1> QED
  BY <1>1, <1>12

\* The greatest and the least of a set of numbers.
LEMMA MaxIs ==
  ASSUME NEW B \in Nat, NEW S \in SUBSET (0..B), S # {}
  PROVE  Max(S) \in S /\ \A y \in S : y <= Max(S)
<1>1. \E x \in S : \A y \in S : x >= y
  BY Greatest
<1>2. Max(S) \in S /\ \A y \in S : Max(S) >= y
  BY <1>1 DEF Max
<1> QED
  BY <1>2
\* The least.
LEMMA MinIs ==
  ASSUME NEW S \in SUBSET Nat, S # {}
  PROVE  Min(S) \in S /\ \A y \in S : Min(S) <= y
<1>1. \E x \in S : \A y \in S : x <= y
  BY Least
<1> QED
  BY <1>1 DEF Min

\* The longest packet there is to read.
LEMMA LongestIs ==
  ASSUME NEW r, NEW B \in Nat, Len(r.rest) \in Nat, \A k \in 1..Len(r.rest) : Len(r.rest[k].of) \in 0..B
  PROVE  Longest(r) \in Nat /\ \A k \in 1..Len(r.rest) : Len(r.rest[k].of) <= Longest(r)
<1> DEFINE S == {0} \cup {Len(r.rest[k].of) : k \in 1..Len(r.rest)}
<1>1. S \in SUBSET (0..B) /\ S # {}
  OBVIOUS
<1>2. Longest(r) = Max(S)
  BY DEF Longest
<1>3. \A k \in 1..Len(r.rest) : Len(r.rest[k].of) \in S
  OBVIOUS
<1> HIDE DEF S
<1>4. Max(S) \in S /\ \A y \in S : y <= Max(S)
  BY <1>1, MaxIs
<1>5. Max(S) \in 0..B
  BY <1>1, <1>4
<1> QED
  BY <1>2, <1>3, <1>4, <1>5

\* Reading goes on in S and ends in E.
ReadsOn(S, E, m) ==
  \A x \in S, n \in Nat \ {0} :
    /\ ReadMore(x, n) \in S
    /\ x \in E => ReadMore(x, n) \in E
    /\ x \notin E => ReadMore(x, n) \in E \/ m[ReadMore(x, n)] < m[x]

\* A raw packet with less of it.
LEMMA RawIs ==
  ASSUME NEW d, NEW e
  PROVE  Raw(d).of = d /\ [Raw(d) EXCEPT !.of = e] = Raw(e)
<1>1. Raw(d).of = d
  BY DEF Raw
<1>2. [Raw(d) EXCEPT !.of = e] = Raw(e)
  BY DEF Raw
<1> QED
  BY <1>1, <1>2

\* A read of bytes that are in no packet takes all, or what the buffer holds.
LEMMA ReadDirectIs ==
  ASSUME NEW B, NEW d \in Seq(B), NEW n \in Nat \ {0}
  PROVE  /\ n >= Len(d) => Read(Rd("direct", <<Raw(d)>>, <<>>), n)
                             = [reader |-> Rd("direct", <<>>, <<>>), data |-> d, err |-> "none"]
         /\ n < Len(d) => Read(Rd("direct", <<Raw(d)>>, <<>>), n)
                            = [reader |-> Rd("direct", <<Raw(Slice(d, n, Len(d)))>>, <<>>),
                               data |-> Slice(d, 0, n), err |-> "none"]
         /\ Read(Rd("direct", <<>>, <<>>), n) = [reader |-> Rd("direct", <<>>, <<>>), data |-> <<>>, err |-> "eof"]
<1> DEFINE nil == <<>>
           p == <<Raw(d)>>
           r == Rd("direct", p, nil)
           z == Rd("direct", nil, nil)
<1>2. Head(p) = Raw(d) /\ p # nil /\ Tail(p) = nil /\ \A x : <<x>> \o nil = <<x>>
  OBVIOUS
<1>7. Len(d) \in Nat /\ Head(p).of = d
  BY <1>2, RawIs
<1> HIDE DEF p, nil
<1>1. r.under = nil /\ r.mode = "direct" /\ r.rest = p /\ z.under = nil /\ z.mode = "direct" /\ z.rest = nil
  BY DEF Rd
<1>3. \A x : WithRest(r, x) = Rd("direct", x, nil)
  BY ReaderIs
<1> HIDE DEF r, z
<1>5. Read(r, n) = ReadDirect(r, n) /\ Read(z, n) = ReadDirect(z, n)
  BY <1>1 DEF Read, nil
<1>6. Read(z, n) = Fails(z, "eof")
  BY <1>1, <1>5 DEF ReadDirect, nil
<1>4. r.rest # <<>> /\ Head(r.rest).of = d
  BY <1>1, <1>2, <1>7 DEF nil
<1>8. CASE n >= Len(d)
  <2>1. Read(r, n) = Got(Past(r), d)
    BY <1>4, <1>5, <1>7, <1>8 DEF ReadDirect
  <2>2. Past(r) = WithRest(r, nil)
    <3>1. [r EXCEPT !.rest = Tail(@)] = [r EXCEPT !.rest = Tail(p)]
      BY <1>1
    <3> QED
      BY <1>2, <3>1 DEF Past, WithRest
  <2>3. Read(r, n) = [reader |-> Rd("direct", nil, nil), data |-> d, err |-> "none"]
    BY <2>1, <2>2, <1>3 DEF Got
  <2> QED
    BY <1>6, <1>7, <1>8, <2>3 DEF Fails, r, p, z, nil
<1>9. CASE n < Len(d)
  <2> DEFINE e == <<Raw(Slice(d, n, Len(d)))>>
  <2>1. Read(r, n) = Got([r EXCEPT !.rest = e \o Tail(@)], Slice(d, 0, n))
    <3> DEFINE F(q) == Got([r EXCEPT !.rest = <<Raw(SubSeq(q, n + 1, Len(q)))>> \o Tail(@)], SubSeq(q, 1, n))
    <3>1. F(d) = Got([r EXCEPT !.rest = e \o Tail(@)], Slice(d, 0, n))
      BY DEF Slice
    <3>2. ReadDirect(r, n) = IF n >= Len(d) THEN Got(Past(r), d) ELSE F(Head(r.rest).of)
      BY <1>4 DEF ReadDirect
    <3> HIDE DEF F
    <3> QED
      BY <1>4, <1>5, <1>7, <1>9, <3>1, <3>2
  <2>2. [r EXCEPT !.rest = e \o Tail(@)] = WithRest(r, e)
    <3>1. [r EXCEPT !.rest = e \o Tail(@)] = [r EXCEPT !.rest = e \o Tail(p)]
      BY <1>1
    <3> QED
      BY <1>2, <3>1 DEF WithRest
  <2>3. Read(r, n) = [reader |-> Rd("direct", e, nil), data |-> Slice(d, 0, n), err |-> "none"]
    BY <2>1, <2>2, <1>3 DEF Got
  <2> QED
    BY <1>6, <1>7, <1>9, <2>3 DEF Fails, r, p, z, nil
<1> QED
  BY <1>7, <1>8, <1>9

\* Reads that go on, from a start with less to go than there are reads, end.
LEMMA ReadsThrough ==
  ASSUME NEW r, NEW ns \in Seq(Nat \ {0}), ns # <<>>, NEW S, NEW E \in SUBSET S, NEW m \in [S -> Nat],
         Most(r) \in Nat, NEW a \in S, a = Got(r, <<>>), m[a] < Most(r), ReadsOn(S, E, m)
  PROVE  ReadAll(r, ns) \in E
<1>1. \A x \in S, n \in Nat \ {0} :
           /\ ReadMore(x, n) \in S /\ (x \in E => ReadMore(x, n) \in E)
           /\ x \notin E => ReadMore(x, n) \in E \/ m[ReadMore(x, n)] < m[x]
  BY DEF ReadsOn
<1> QED
  BY <1>1, ReadsEnd

\* How many reads are made, at the most.
LEMMA MostIs ==
  ASSUME NEW r, NEW B \in Nat, Len(r.rest) \in Nat, \A k \in 1..Len(r.rest) : Len(r.rest[k].of) \in 0..B
  PROVE  Most(r) \in Nat /\ Most(r) = Len(r.rest) * (Longest(r) + 1) + 1
<1>1. Longest(r) \in Nat
  BY LongestIs
<1>2. PICK x \in Nat : x = Longest(r)
  BY <1>1
<1>3. PICK y \in Nat : y = Len(r.rest)
  OBVIOUS
<1>4. Most(r) = y * (x + 1) + 1
  BY <1>2, <1>3 DEF Most
<1> QED
  BY <1>2, <1>3, <1>4

\* Without packets the file is read, whatever the buffers.
LEMMA DirectRead ==
  ASSUME NEW B, NEW file \in Seq(B), NEW ns \in Seq(Nat \ {0}), ns # <<>>
  PROVE  ReadAll(Rd("direct", <<Raw(file)>>, <<>>), ns).data = file
<1> DEFINE L == Len(file)
           nil == <<>>
           rest(p) == <<Raw(Slice(file, p, L))>>
           D(p) == St("direct", rest(p), nil, Slice(file, 0, p), "none")
           End(e) == St("direct", nil, nil, file, e)
           E == {End("none"), End("eof")}
           S == {D(p) : p \in 0..L} \cup E
           m == [x \in S |-> IF x \in E THEN 0 ELSE 1 + L - Len(x.data)]
           r == Rd("direct", <<Raw(file)>>, <<>>)
<1>1. L \in Nat /\ 0 \in 0..L
  OBVIOUS
<1>2. \A p \in 0..L : Slice(file, p, L) \in Seq(B) /\ Len(Slice(file, p, L)) = L - p
                      /\ Slice(file, 0, p) \in Seq(B) /\ Len(Slice(file, 0, p)) = p
  <2> TAKE p \in 0..L
  <2>1. p \in Nat /\ L \in p..L /\ p \in 0..L /\ 0 \in Nat
    BY <1>1
  <2> HIDE DEF L
  <2>2. Slice(file, p, L) \in Seq(B) /\ Len(Slice(file, p, L)) = L - p
    BY <2>1, SliceIs DEF L
  <2>3. Slice(file, 0, p) \in Seq(B) /\ Len(Slice(file, 0, p)) = p - 0
    BY <2>1, SliceIs DEF L
  <2> QED
    BY <2>1, <2>2, <2>3
<1>3. \A p \in 0..L : D(p).data = Slice(file, 0, p)
  BY DEF St
<1>4. \A x \in S : x \notin E => \E p \in 0..L : x = D(p)
  OBVIOUS
<1>5. \A p \in 0..L : D(p) \in S /\ (D(p) \notin E => m[D(p)] = 1 + L - p) /\ m[D(p)] \in Nat
  <2> TAKE p \in 0..L
  <2>1. D(p) \in S
    OBVIOUS
  <2>2. m[D(p)] = IF D(p) \in E THEN 0 ELSE 1 + L - Len(D(p).data)
    BY <2>1
  <2>3. Len(D(p).data) = p
    BY <1>2, <1>3
  <2> HIDE DEF D, m, E, S
  <2> QED
    BY <1>1, <2>1, <2>2, <2>3
<1>6. \A x \in E : x \in S /\ m[x] = 0
  OBVIOUS
<1>7. m \in [S -> Nat]
  <2>1. ASSUME NEW x \in S PROVE m[x] \in Nat
    BY <1>4, <1>5, <1>6
  <2> QED
    BY <2>1
<1>8. ASSUME NEW p \in 0..L, NEW n \in Nat \ {0}
      PROVE  IF n >= L - p THEN ReadMore(D(p), n) = End("none") ELSE p + n \in 0..L /\ ReadMore(D(p), n) = D(p + n)
  <2> DEFINE d == Slice(file, p, L)
  <2>1. d \in Seq(B) /\ Len(d) = L - p
    BY <1>2
  <2>2. CASE n >= L - p
    <3>1. Read(Rd("direct", rest(p), nil), n) = [reader |-> Rd("direct", nil, nil), data |-> d, err |-> "none"]
      <4> HIDE DEF d
      <4>1. Read(Rd("direct", <<Raw(d)>>, <<>>), n) = [reader |-> Rd("direct", <<>>, <<>>), data |-> d, err |-> "none"]
        BY <2>1, <2>2, ReadDirectIs
      <4> QED BY <4>1 DEF d
    <3>2. Slice(file, 0, p) \o d = file
      <4>1. p \in 0..L /\ L \in p..L /\ 0 \in Nat
        BY <1>1
      <4>2. Slice(file, 0, p) \o Slice(file, p, L) = Slice(file, 0, L)
        BY <4>1, SliceJoin
      <4> QED
        BY <4>2, SliceAll
    <3> HIDE DEF d, rest, nil
    <3>3. ReadMore(D(p), n) = St("direct", nil, nil, Slice(file, 0, p) \o d, "none")
      BY <3>1, ReadMoreIs
    <3> QED
      BY <2>2, <3>2, <3>3
  <2>3. CASE n < L - p
    <3> DEFINE e == Slice(d, 0, n)
    <3>1. Slice(d, n, Len(d)) = Slice(file, p + n, L) /\ e = Slice(file, p, p + n) /\ p + n \in 0..L
      <4>1. p \in Nat /\ L \in p..L /\ n \in Nat /\ L - p \in n..L - p /\ n \in 0..L - p /\ 0 \in Nat
            /\ p + n \in 0..L /\ p + (L - p) = L /\ p + 0 = p
        BY <1>1, <2>3
      <4> HIDE DEF L
      <4>2. Slice(Slice(file, p, L), n, L - p) = Slice(file, p + n, p + (L - p))
        BY <4>1, SliceOfSlice DEF L
      <4>3. Slice(Slice(file, p, L), 0, n) = Slice(file, p, p + n)
        BY <4>1, SliceFront DEF L
      <4> QED
        BY <4>1, <4>2, <4>3, <2>1
    <3>2. Read(Rd("direct", rest(p), nil), n) = [reader |-> Rd("direct", rest(p + n), nil), data |-> e, err |-> "none"]
      <4> HIDE DEF d
      <4>1. Read(Rd("direct", <<Raw(d)>>, <<>>), n)
              = [reader |-> Rd("direct", <<Raw(Slice(d, n, Len(d)))>>, <<>>), data |-> Slice(d, 0, n), err |-> "none"]
        BY <2>1, <2>3, ReadDirectIs
      <4> QED BY <4>1, <3>1 DEF d
    <3>3. Slice(file, 0, p) \o e = Slice(file, 0, p + n)
      <4>1. p \in 0..L /\ p + n \in p..L /\ 0 \in Nat
        BY <1>1, <3>1
      <4> QED
        BY <3>1, <4>1, SliceJoin
    <3> HIDE DEF d, rest, nil, e
    <3>4. ReadMore(D(p), n) = St("direct", rest(p + n), nil, Slice(file, 0, p) \o e, "none")
      BY <3>2, ReadMoreIs
    <3>5. ReadMore(D(p), n) = D(p + n)
      BY <3>3, <3>4
    <3> HIDE DEF D, End
    <3> QED
      BY <1>1, <2>3, <3>1, <3>5
  <2> QED
    BY <1>1, <2>2, <2>3
<1>9. ASSUME NEW n \in Nat \ {0} PROVE ReadMore(End("none"), n) = End("eof") /\ ReadMore(End("eof"), n) = End("eof")
  <2>1. Read(Rd("direct", nil, nil), n) = [reader |-> Rd("direct", nil, nil), data |-> nil, err |-> "eof"]
    BY ReadDirectIs
  <2>2. file \o nil = file
    OBVIOUS
  <2> HIDE DEF nil
  <2>3. ReadMore(End("none"), n) = St("direct", nil, nil, file \o nil, "eof")
    BY <2>1, ReadMoreIs
  <2>4. ReadMore(End("eof"), n) = End("eof")
    BY ReadMoreIs
  <2> QED
    BY <2>2, <2>3, <2>4
<1>10. ReadsOn(S, E, m)
  <2> SUFFICES ASSUME NEW x \in S, NEW n \in Nat \ {0}
               PROVE  /\ ReadMore(x, n) \in S
                      /\ x \in E => ReadMore(x, n) \in E
                      /\ x \notin E => ReadMore(x, n) \in E \/ m[ReadMore(x, n)] < m[x]
    BY DEF ReadsOn
  <2>1. CASE x \in E
    <3>1. ReadMore(x, n) = End("eof")
      <4> HIDE DEF End
      <4> QED BY <1>9, <2>1
    <3> QED
      BY <2>1, <3>1
  <2>2. CASE x \notin E
    <3>1. PICK p \in 0..L : x = D(p)
      BY <1>4, <2>2
    <3>2. m[x] = 1 + L - p
      <4> HIDE DEF m, D, E, S
      <4> QED BY <1>5, <2>2, <3>1
    <3>3. CASE n >= L - p
      <4>1. ReadMore(x, n) = End("none")
        BY <1>8, <3>1, <3>3
      <4> QED
        BY <4>1, <2>2
    <3>4. CASE ~ (n >= L - p)
      <4>1. p + n \in 0..L /\ ReadMore(x, n) = D(p + n)
        BY <1>8, <3>1, <3>4
      <4>2. D(p + n) \in S /\ (D(p + n) \notin E => m[D(p + n)] = 1 + L - (p + n))
        <5> HIDE DEF m, D, E, S
        <5> QED BY <1>5, <4>1
      <4> HIDE DEF m, D, E, S
      <4> QED
        BY <1>1, <2>2, <3>2, <4>1, <4>2
    <3> QED
      BY <3>3, <3>4
  <2> QED
    BY <2>1, <2>2
<1>11. r.rest = <<Raw(file)>> /\ D(0) = Got(r, <<>>)
  <2>1. Slice(file, 0, L) = file /\ Slice(file, 0, 0) = <<>>
    <3>1. 0 \in Nat /\ 0 \in 0..L
      BY <1>1
    <3> QED
      BY <3>1, SliceAll, SliceIs
  <2>2. rest(0) = <<Raw(file)>>
    BY <2>1
  <2>3. r.rest = <<Raw(file)>>
    BY DEF Rd
  <2> QED
    BY <2>1, <2>2, <2>3 DEF St, Got
<1>12. Most(r) = L + 2
  <2>1. Len(r.rest) = 1 /\ r.rest[1].of = file
    <3> HIDE DEF r
    <3>1. Len(r.rest) = 1 /\ r.rest[1] = Raw(file)
      BY <1>11
    <3> QED
      BY <3>1, RawIs
  <2>2. \A k \in 1..Len(r.rest) : Len(r.rest[k].of) \in 0..L
    BY <1>1, <2>1
  <2> HIDE DEF r
  <2>5. Len(r.rest) \in Nat
    BY <2>1
  <2> HIDE DEF L
  <2>3. Most(r) = Len(r.rest) * (Longest(r) + 1) + 1
    BY <1>1, <2>5, <2>2, MostIs
  <2>4. Longest(r) = L
    <3> DEFINE Z == {0} \cup {Len(r.rest[k].of) : k \in 1..Len(r.rest)}
    <3>1. Z \in SUBSET (0..L) /\ Z # {} /\ L \in Z
      <4>1. 1 \in 1..Len(r.rest) /\ Len(r.rest[1].of) = L
        BY <2>1 DEF L
      <4>2. L \in Z
        BY <4>1
      <4>3. Z \in SUBSET (0..L)
        BY <1>1, <2>2
      <4> QED
        BY <4>2, <4>3
    <3>2. Longest(r) = Max(Z)
      BY DEF Longest
    <3> HIDE DEF Z
    <3>3. Max(Z) \in Z /\ \A y \in Z : y <= Max(Z)
      BY <1>1, <3>1, MaxIs
    <3>4. Max(Z) \in 0..L /\ L <= Max(Z)
      BY <3>1, <3>3
    <3> HIDE DEF L
    <3> QED
      BY <1>1, <3>2, <3>4
  <2> QED
    BY <1>1, <2>1, <2>3, <2>4
<1>13. ReadAll(r, ns) \in E
  <2>1. m[D(0)] < L + 2
    <3> HIDE DEF m, D, E, S
    <3>1. D(0) \in S /\ (D(0) \notin E => m[D(0)] = 1 + L - 0)
      BY <1>1, <1>5
    <3>2. D(0) \in E => m[D(0)] = 0
      BY <1>6
    <3> QED
      BY <1>1, <3>1, <3>2
  <2>2. D(0) \in S /\ E \in SUBSET S
    BY <1>1
  <2> HIDE DEF m, D, E, S, r, L
  <2>3. Most(r) \in Nat /\ m[D(0)] < Most(r)
    BY <1>1, <1>12, <2>1
  <2> QED
    BY <1>7, <1>10, <1>11, <2>2, <2>3, ReadsThrough
<1>14. \A x \in E : x.data = file
  BY DEF St
<1> QED
  BY <1>13, <1>14

\* The first packet that is not progress.
First(s, j) == /\ j \in 1..Len(s) /\ s[j].type # "progress"
               /\ \A i \in 1..j - 1 : s[i].type = "progress"

LEMMA FirstIs ==
  ASSUME NEW s, NEW j \in Nat, Len(s) \in Nat, First(s, j)
  PROVE  SelectInSeq(s, LAMBDA p : p.type # "progress") = j
<1> USE DEF First
<1> DEFINE I == {i \in 1..Len(s) : s[i].type # "progress"}
<1>1. SelectInSeq(s, LAMBDA p : p.type # "progress") = IF I # {} THEN Min(I) ELSE 0
  BY DEF SelectInSeq
<1>2. I \in SUBSET Nat /\ j \in I
  OBVIOUS
<1>3. \A i \in I : j <= i
  <2> SUFFICES ASSUME NEW i \in 1..Len(s), s[i].type # "progress", ~ (j <= i) PROVE FALSE
    OBVIOUS
  <2>1. i \in 1..j - 1
    OBVIOUS
  <2> QED
    BY <2>1
<1> HIDE DEF I
<1>4. Min(I) \in I /\ \A i \in I : Min(I) <= i
  <2>1. I # {}
    BY <1>2
  <2> QED
    BY <1>2, <2>1, MinIs
<1>5. Min(I) \in Nat
  BY <1>2, <1>4
<1>6. Min(I) = j
  BY <1>2, <1>3, <1>4, <1>5
<1> QED
  BY <1>1, <1>2, <1>6

\* What a read is of the packets s, with j the first that is not progress.
SidebandReads(s, j, n, rest) ==
  LET read == Read(Rd("sideband", s, <<>>), n)
      d == s[j].of
  IN /\ s[j].type \notin {"data", "raw"}
          => read = [reader |-> Rd("sideband", rest, <<>>), data |-> <<>>, err |-> s[j].type]
     /\ s[j].type = "data" /\ n < Len(d)
          => read = [reader |-> Rd("sideband", rest, SubSeq(d, n + 1, Len(d))), data |-> SubSeq(d, 1, n), err |-> "none"]
     /\ s[j].type = "data" /\ ~ (n < Len(d))
          => read = [reader |-> Rd("sideband", rest, <<>>), data |-> d, err |-> "none"]

\* A read with a sideband takes the first packet that is not progress: its
\* data, or what of it the buffer holds, or its kind when it has none.
LEMMA ReadSidebandIs ==
  ASSUME NEW P, NEW s \in Seq(P), NEW j \in Nat, First(s, j), NEW n \in Nat \ {0}, NEW rest, rest = Slice(s, j, Len(s))
  PROVE  SidebandReads(s, j, n, rest)
<1> DEFINE nil == <<>>
           r == Rd("sideband", s, nil)
           read == Read(r, n)
           q == Slice(s, j - 1, Len(s))
           at == Rd("sideband", q, nil)
           past == Rd("sideband", rest, nil)
           d == s[j].of
<1>1. j \in 1..Len(s) /\ Len(s) \in Nat /\ j - 1 \in Nat /\ Len(s) \in j - 1..Len(s) /\ j # 0
  BY DEF First
<1>2. q \in Seq(P) /\ Len(q) = Len(s) - (j - 1) /\ q[1] = s[j] /\ q # <<>>
  <2>1. q \in Seq(P) /\ Len(q) = Len(s) - (j - 1) /\ \A i \in 1..Len(s) - (j - 1) : q[i] = s[j - 1 + i]
    <3> DEFINE k == j - 1
               l == Len(s)
    <3>1. k \in Nat /\ l \in k..Len(s)
      BY <1>1
    <3> HIDE DEF k, l
    <3>2. /\ Slice(s, k, l) \in Seq(P) /\ Len(Slice(s, k, l)) = l - k
          /\ \A i \in 1..l - k : Slice(s, k, l)[i] = s[k + i]
      BY <3>1, SliceIs
    <3> QED
      BY <3>2 DEF k, l
  <2>2. 1 \in 1..Len(s) - (j - 1) /\ j - 1 + 1 = j
    BY <1>1
  <2> HIDE DEF q
  <2> QED
    BY <1>1, <2>1, <2>2
<1>3. Tail(q) = rest
  <2>1. Tail(q) = SubSeq(q, 2, Len(q))
    <3> HIDE DEF q
    <3> QED BY <1>2
  <2>2. SubSeq(q, 2, Len(q)) = Slice(q, 1, Len(q))
    BY DEF Slice
  <2>3. Slice(q, 1, Len(q)) = rest
    <3>1. 1 \in Nat /\ Len(q) \in 1..Len(s) - (j - 1) /\ (j - 1) + 1 = j /\ (j - 1) + Len(q) = Len(s)
      BY <1>1, <1>2
    <3> DEFINE o == 1
               l == Len(q)
    <3> HIDE DEF o, l
    <3>2. Slice(Slice(s, j - 1, Len(s)), o, l) = Slice(s, (j - 1) + o, (j - 1) + l)
      BY <1>1, <3>1, SliceOfSlice DEF o, l
    <3> QED
      BY <3>1, <3>2 DEF o, l
  <2> QED
    BY <2>1, <2>2, <2>3
<1> HIDE DEF nil
<1>4. /\ r.under = nil /\ r.mode = "sideband" /\ r.rest = s
      /\ at.under = nil /\ at.rest = q
  BY DEF Rd
<1>5. /\ WithRest(r, q) = at /\ WithRest(at, rest) = past /\ \A x : WithUnder(past, x) = Rd("sideband", rest, x)
  BY ReaderIs
<1>6. SelectInSeq(s, LAMBDA p : p.type # "progress") = j
  BY <1>1, FirstIs
<1> HIDE DEF q, d
<1>7. Head(at.rest) = s[j] /\ at.rest # <<>>
  BY <1>2, <1>4
<1> HIDE DEF r, at, past
<1>8. read = ReadSideband(r, n)
  BY <1>4 DEF Read, nil
<1>9. Past(at) = past
  <2>1. [at EXCEPT !.rest = Tail(@)] = [at EXCEPT !.rest = Tail(q)]
    BY <1>4
  <2> QED
    BY <1>3, <1>5, <2>1 DEF Past, WithRest
<1> DEFINE Then(a) ==
             IF a.rest = <<>> \/ Head(a.rest).type # "data" THEN Ends(a)
             ELSE IF n < Len(Head(a.rest).of)
                  THEN Got([Past(a) EXCEPT !.under = SubSeq(Head(a.rest).of, n + 1, Len(Head(a.rest).of))],
                           SubSeq(Head(a.rest).of, 1, n))
                  ELSE Got(Past(a), Head(a.rest).of)
           To(k) == [r EXCEPT !.rest = IF k = 0 THEN <<>> ELSE SubSeq(@, k, Len(@))]
<1>10. ReadSideband(r, n) = Then(To(SelectInSeq(r.rest, LAMBDA p : p.type # "progress")))
  BY DEF ReadSideband
<1>11. To(j) = at
  <2>1. To(j) = [r EXCEPT !.rest = SubSeq(s, j, Len(s))]
    BY <1>1, <1>4
  <2>2. SubSeq(s, j, Len(s)) = q
    <3>1. j - 1 + 1 = j
      BY <1>1
    <3> QED BY <3>1 DEF q, Slice
  <2> QED
    BY <2>1, <2>2, <1>5 DEF WithRest
<1>12. read = Then(at)
  <2> HIDE DEF Then, To
  <2>1. SelectInSeq(r.rest, LAMBDA p : p.type # "progress") = j
    BY <1>4, <1>6
  <2> QED
    BY <1>8, <1>10, <1>11, <2>1
<1>13. Then(at) = IF s[j].type # "data" THEN Ends(at)
                  ELSE IF n < Len(d) THEN Got([past EXCEPT !.under = SubSeq(d, n + 1, Len(d))], SubSeq(d, 1, n))
                  ELSE Got(past, d)
  BY <1>7, <1>9 DEF d
<1> HIDE DEF Then, read
<1>14. s[j].type \notin {"data", "raw"} => read = [reader |-> past, data |-> nil, err |-> s[j].type]
  <2> SUFFICES ASSUME s[j].type \notin {"data", "raw"} PROVE read = [reader |-> past, data |-> nil, err |-> s[j].type]
    OBVIOUS
  <2>1. read = Ends(at)
    BY <1>12, <1>13
  <2>2. Ends(at) = Fails(past, s[j].type)
    BY <1>7, <1>9 DEF Ends
  <2> QED
    BY <2>1, <2>2 DEF Fails, nil
<1>15. s[j].type = "data" /\ n < Len(d)
         => read = [reader |-> Rd("sideband", rest, SubSeq(d, n + 1, Len(d))), data |-> SubSeq(d, 1, n), err |-> "none"]
  BY <1>5, <1>12, <1>13 DEF Got, WithUnder
<1>16. s[j].type = "data" /\ ~ (n < Len(d)) => read = [reader |-> past, data |-> d, err |-> "none"]
  BY <1>12, <1>13 DEF Got
<1> QED
  BY <1>14, <1>15, <1>16 DEF SidebandReads, read, r, past, nil, d

\* A packet with bytes of the file.
Data(d) == [type |-> "data", of |-> d]

\* A file in packets, with progress between them: up to the k-th there are
\* c[k] of its bytes.
Cuts(T, file, c) ==
  /\ Len(T) \in Nat \ {0} /\ c \in [0..Len(T) - 1 -> 0..Len(file)]
  /\ c[0] = 0 /\ c[Len(T) - 1] = Len(file) /\ T[Len(T)] = Flush
  /\ \A k \in 1..Len(T) - 1 :
       \/ T[k] = Progress /\ c[k] = c[k - 1]
       \/ T[k] = Data(Slice(file, c[k - 1], c[k])) /\ c[k - 1] <= c[k]

\* After j packets there is one that is not progress, and up to it nothing of
\* the file.
LEMMA NextPacket ==
  ASSUME NEW P, NEW T \in Seq(P), NEW B, NEW file \in Seq(B), NEW c, Cuts(T, file, c), NEW j \in 0..Len(T) - 1
  PROVE  \E i \in 1..Len(T) - j : First(Slice(T, j, Len(T)), i) /\ c[j + i - 1] = c[j]
<1> DEFINE n == Len(T)
           s == Slice(T, j, n)
           S == {i \in 1..n - j : T[j + i].type # "progress"}
<1>1. n \in Nat \ {0} /\ j \in Nat /\ n \in j..Len(T) /\ n - j \in 1..n - j /\ n - j \in Nat /\ j + (n - j) = n
  BY DEF Cuts
<1>2. Len(s) = n - j /\ \A i \in 1..n - j : s[i] = T[j + i]
  <2> HIDE DEF n
  <2>1. Len(Slice(T, j, n)) = n - j /\ \A i \in 1..n - j : Slice(T, j, n)[i] = T[j + i]
    BY ZenonT(30), <1>1, SliceIs
  <2> QED
    BY <2>1
<1>3. n - j \in S /\ S \in SUBSET Nat
  <2>1. T[n].type # "progress"
    BY DEF Cuts, Flush
  <2> QED
    BY <1>1, <2>1
<1>4. PICK i \in S : \A k \in S : i <= k
  <2>1. S # {}
    BY <1>3
  <2> HIDE DEF S
  <2> QED BY <1>3, <2>1, Least
<1>5. i \in 1..n - j /\ T[j + i].type # "progress" /\ \A k \in 1..i - 1 : T[j + k].type = "progress"
  <2>1. i \in 1..n - j /\ T[j + i].type # "progress"
    BY <1>4
  <2>2. ASSUME NEW k \in 1..i - 1, T[j + k].type # "progress" PROVE FALSE
    <3>1. k \in 1..n - j
      BY <1>1, <2>1
    <3>2. k \in S
      BY <2>2, <3>1
    <3>3. i <= k
      BY <1>4, <3>2
    <3> QED
      BY <2>1, <3>3
  <2> QED
    BY <2>1, <2>2
<1>6. First(s, i)
  <2>1. \A k \in 1..i - 1 : k \in 1..n - j
    BY <1>1, <1>5
  <2> HIDE DEF s, n
  <2> QED
    BY <1>2, <1>5, <2>1 DEF First
<1>7. c[j + i - 1] = c[j]
  <2> DEFINE Q == {k \in 0..i - 1 : c[j + k] = c[j]}
  <2>1. 0 \in Q
    BY <1>5
  <2>2. ASSUME NEW k \in 1..i - 1, k - 1 \in Q PROVE k \in Q
    <3>1. j + k \in 1..n - 1 /\ j + (k - 1) = j + k - 1 /\ k \in 0..i - 1
      BY <1>1, <1>5
    <3>2. T[j + k].type = "progress"
      BY <1>5
    <3>3. c[j + k] = c[j + k - 1]
      <4>1. PICK q \in 1..n - 1 : q = j + k
        BY <3>1
      <4>2. (T[q] = Progress /\ c[q] = c[q - 1]) \/ T[q] = Data(Slice(file, c[q - 1], c[q]))
        BY DEF Cuts
      <4>3. \A d : Data(d).type = "data"
        BY DEF Data
      <4> QED
        BY <3>1, <3>2, <4>1, <4>2, <4>3
    <3> QED
      BY <2>2, <3>1, <3>3
  <2>3. i - 1 \in 0..i - 1 /\ i - 1 \in Nat /\ j + (i - 1) = j + i - 1
    BY <1>1, <1>5
  <2>4. 0..i - 1 \subseteq Q
    <3> DEFINE e == i - 1
    <3> HIDE DEF Q
    <3>1. e \in Nat /\ \A k \in 1..e : k - 1 \in Q => k \in Q
      BY <2>2, <2>3
    <3> HIDE DEF e
    <3>2. 0..e \subseteq Q
      BY <2>1, <3>1, StepInduction
    <3> QED BY <3>2 DEF e
  <2> QED
    BY <2>3, <2>4
<1> QED
  BY <1>5, <1>6, <1>7

\* What is left when more packets are taken is less.
LEMMA LessLeft ==
  ASSUME NEW K \in Nat \ {0}, NEW a \in Nat, NEW b \in Nat, b < a, NEW u \in Nat, u < K, NEW v \in Nat
  PROVE  b * K + u < a * K + v /\ b * K + u \in Nat
<1>1. PICK d \in Nat \ {0} : a = b + d
  <2>1. a - b \in Nat \ {0} /\ a = b + (a - b)
    OBVIOUS
  <2> QED BY <2>1
<1>2. a * K = b * K + d * K
  BY <1>1
<1>3. d * K >= K
  BY <1>1
<1>4. b * K \in Nat /\ d * K \in Nat /\ a * K \in Nat
  BY <1>1
<1> QED
  BY <1>2, <1>3, <1>4

\* Reading has come to byte p of the file, and has j packets behind it.
At(T, file, c, j, p) ==
  St("sideband", Slice(T, j, Len(T)), Slice(file, p, c[j]), Slice(file, 0, p), "none")

\* What the packets hold.
LEMMA CutsHold ==
  ASSUME NEW T, NEW B, NEW file \in Seq(B), NEW c, Cuts(T, file, c)
  PROVE  /\ Len(file) \in Nat /\ \A j \in 0..Len(T) - 1 : c[j] \in 0..Len(file)
         /\ \A k \in 1..Len(T) : Len(T[k].of) \in 0..Len(file)
         /\ \A k \in 1..Len(T) - 1 : Len(T[k].of) = c[k] - c[k - 1]
<1>1. Len(file) \in Nat /\ \A j \in 0..Len(T) - 1 : c[j] \in 0..Len(file)
  <2>1. c \in [0..Len(T) - 1 -> 0..Len(file)]
    BY DEF Cuts
  <2> QED
    BY <2>1
<1>2. ASSUME NEW k \in 1..Len(T) - 1
      PROVE  Len(T[k].of) = c[k] - c[k - 1] /\ Len(T[k].of) \in 0..Len(file)
  <2>1. c[k] \in 0..Len(file) /\ c[k - 1] \in 0..Len(file)
    <3>1. Len(T) \in Nat
      BY DEF Cuts
    <3>2. k \in 0..Len(T) - 1 /\ k - 1 \in 0..Len(T) - 1
      BY <3>1
    <3> QED
      BY <1>1, <3>2
  <2>2. CASE T[k] = Progress /\ c[k] = c[k - 1]
    <3>1. Len(T[k].of) = 0
      BY <2>2 DEF Progress
    <3> QED
      BY <1>1, <2>1, <2>2, <3>1
  <2>3. CASE T[k] = Data(Slice(file, c[k - 1], c[k])) /\ c[k - 1] <= c[k]
    <3>1. T[k].of = Slice(file, c[k - 1], c[k])
      BY <2>3 DEF Data
    <3>2. Len(Slice(file, c[k - 1], c[k])) = c[k] - c[k - 1]
      <4> DEFINE a == c[k - 1]
                 b == c[k]
      <4>1. a \in Nat /\ b \in a..Len(file)
        BY <2>1, <2>3
      <4> HIDE DEF a, b
      <4>2. Len(Slice(file, a, b)) = b - a
        BY <4>1, SliceIs
      <4> QED BY <4>2 DEF a, b
    <3> QED
      BY <1>1, <2>1, <2>3, <3>1, <3>2
  <2> QED
    BY <2>2, <2>3 DEF Cuts
<1>3. Len(T[Len(T)].of) \in 0..Len(file)
  <2>1. Len(T[Len(T)].of) = 0
    BY DEF Cuts, Flush
  <2> QED
    BY <1>1, <2>1
<1>4. \A k \in 1..Len(T) : k = Len(T) \/ k \in 1..Len(T) - 1
  BY DEF Cuts
<1> QED
  BY <1>1, <1>2, <1>3, <1>4

\* A read from there takes some of what is left of the packet.
Further(T, file, c, j, p, b) ==
  \E k \in 1..c[j] - p : ReadMore(At(T, file, c, j, p), b) = At(T, file, c, j, p + k)

\* What is left of a packet is read on.
LEMMA UnderStep ==
  ASSUME NEW T, NEW B, NEW file \in Seq(B), NEW c, NEW j, NEW b \in Nat \ {0},
         NEW e, e = c[j], e \in 0..Len(file), NEW p \in 0..e, p < e
  PROVE  Further(T, file, c, j, p, b)
<1> DEFINE u == Slice(file, p, e)
           rest == Slice(T, j, Len(T))
<1>1. p \in Nat /\ e \in p..Len(file) /\ 0 \in Nat /\ p \in 0..Len(file) /\ e - p \in 0..e - p /\ p + (e - p) = e
  OBVIOUS
<1>2. u \in Seq(B) /\ Len(u) = e - p
  BY ZenonT(30), <1>1, SliceIs
<1>3. u # <<>> /\ e - p \in Nat \ {0}
  <2>1. e - p \in Nat \ {0}
    BY <1>1
  <2> HIDE DEF u
  <2> QED BY <1>2, <2>1
<1> HIDE DEF rest, u
<1>4. PICK k \in 1..Len(u) : Read(Rd("sideband", rest, u), b)
               = [reader |-> Rd("sideband", rest, Slice(u, k, Len(u))), data |-> Slice(u, 0, k), err |-> "none"]
  BY <1>2, <1>3, ReadUnderIs
<1>5. k \in Nat /\ e - p \in k..e - p /\ k \in 0..e - p /\ p + k \in p..Len(file) /\ k \in 1..e - p
  BY <1>1, <1>2, <1>3
<1>6. Slice(u, k, Len(u)) = Slice(file, p + k, e)
  <2>1. Slice(Slice(file, p, e), k, e - p) = Slice(file, p + k, p + (e - p))
    BY <1>1, <1>5, SliceOfSlice
  <2> QED
    BY <1>1, <1>2, <2>1 DEF u
<1>7. Slice(u, 0, k) = Slice(file, p, p + k)
  BY <1>1, <1>5, SliceFront DEF u
<1>8. Slice(file, 0, p) \o Slice(u, 0, k) = Slice(file, 0, p + k)
  <2> DEFINE q == p + k
  <2>1. p \in 0..q /\ q \in p..Len(file) /\ 0 \in Nat /\ p \in 0..Len(file)
    BY <1>1, <1>5
  <2> HIDE DEF q
  <2>2. Slice(file, 0, p) \o Slice(file, p, q) = Slice(file, 0, q)
    BY <2>1, SliceJoin
  <2> QED
    BY <1>7, <2>2 DEF q
<1> DEFINE v == Slice(u, k, Len(u))
           w == Slice(u, 0, k)
           o == Slice(file, 0, p)
<1> HIDE DEF v, w, o
<1>9. ReadMore(St("sideband", rest, u, o, "none"), b) = St("sideband", rest, v, o \o w, "none")
  BY <1>4, ReadMoreIs DEF v, w
<1> QED
  BY <1>5, <1>6, <1>8, <1>9 DEF Further, At, v, w, o, u, rest

\* Between two packets the next one is read, or the end is found.
LEMMA PacketStep ==
  ASSUME NEW P, NEW T \in Seq(P), NEW B, NEW file \in Seq(B), NEW c, Cuts(T, file, c), NEW j \in 0..Len(T) - 1,
         NEW b \in Nat \ {0}
  PROVE  \/ ReadMore(At(T, file, c, j, c[j]), b) = St("sideband", <<>>, <<>>, file, "flush")
         \/ \E k \in j + 1..Len(T) - 1, q \in 0..Len(file) :
              /\ q <= c[k] /\ c[k] - q <= Len(T[k].of)
              /\ ReadMore(At(T, file, c, j, c[j]), b) = At(T, file, c, k, q)
<1> DEFINE n == Len(T)
           s == Slice(T, j, n)
           p == c[j]
           nil == <<>>
           o == Slice(file, 0, p)
<1>1. PICK i \in 1..n - j : First(s, i) /\ c[j + i - 1] = c[j]
  BY NextPacket
<1>2. n \in Nat \ {0} /\ j \in Nat /\ n \in j..Len(T) /\ i \in Nat /\ n - j \in i..n - j /\ j + (n - j) = n
      /\ j + i \in j + 1..n /\ j + i \in Nat /\ j + i \in 1..n
  BY DEF Cuts
<1>3. p \in 0..Len(file) /\ p \in Nat /\ Len(file) \in Nat
  BY CutsHold
<1>4. s \in Seq(P) /\ Len(s) = n - j /\ s[i] = T[j + i]
  <2> HIDE DEF n
  <2>1. Slice(T, j, n) \in Seq(P) /\ Len(Slice(T, j, n)) = n - j
    BY ZenonT(30), <1>2, SliceIs
  <2>2. \A k \in 1..n - j : Slice(T, j, n)[k] = T[j + k]
    BY <1>2, SliceIs
  <2> QED
    BY <2>1, <2>2
<1> DEFINE rest == Slice(s, i, Len(s))
           t == T[j + i]
           d == t.of
           x == At(T, file, c, j, p)
<1>5. rest = Slice(T, j + i, n)
  <2> HIDE DEF n
  <2>1. Slice(Slice(T, j, n), i, n - j) = Slice(T, j + i, j + (n - j))
    BY <1>2, SliceOfSlice
  <2> QED
    BY <1>2, <1>4, <2>1
<1>6. x = St("sideband", s, nil, o, "none")
  <2>1. Slice(file, p, p) = nil
    <3> HIDE DEF p
    <3>1. p \in p..Len(file)
      BY <1>3
    <3> QED BY <1>3, <3>1, SliceIs
  <2> QED
    BY <2>1 DEF At
<1> DEFINE read == Read(Rd("sideband", s, nil), b)
<1>7. /\ t.type \notin {"data", "raw"}
           => read = [reader |-> Rd("sideband", rest, nil), data |-> nil, err |-> t.type]
      /\ t.type = "data" /\ b < Len(d)
           => read = [reader |-> Rd("sideband", rest, SubSeq(d, b + 1, Len(d))), data |-> SubSeq(d, 1, b), err |-> "none"]
      /\ t.type = "data" /\ ~ (b < Len(d)) => read = [reader |-> Rd("sideband", rest, nil), data |-> d, err |-> "none"]
  <2> HIDE DEF s, rest
  <2>1. rest = Slice(s, i, Len(s))
    BY DEF rest
  <2>2. SidebandReads(s, i, b, rest)
    BY <1>1, <1>2, <1>4, <2>1, ReadSidebandIs
  <2> QED
    BY <1>4, <2>2 DEF SidebandReads
<1>8. CASE j + i = n
  <2>1. t.type = "flush"
    <3>1. T[Len(T)] = Flush
      BY DEF Cuts
    <3> QED
      BY <1>8, <3>1 DEF Flush
  <2>2. rest = nil
    <3>1. n \in Nat /\ n \in n..Len(T)
      BY <1>2
    <3> QED
      BY SMTT(30), <1>5, <1>8, <3>1, SliceIs
  <2>3. read = [reader |-> Rd("sideband", nil, nil), data |-> nil, err |-> "flush"]
    BY <1>7, <2>1, <2>2
  <2>4. o = file /\ o \o nil = file
    <3>1. p = Len(file)
      <4>1. j + i - 1 = n - 1
        BY <1>8
      <4> QED BY <1>1, <4>1 DEF Cuts
    <3>2. o = file
      BY <3>1, SliceAll
    <3> HIDE DEF o
    <3> QED BY <3>2
  <2> HIDE DEF x, read, s, rest, o, nil
  <2>5. ReadMore(x, b) = St("sideband", nil, nil, o \o nil, "flush")
    BY <1>6, <2>3, ReadMoreIs DEF read
  <2> QED
    BY <2>4, <2>5 DEF x, nil
<1>9. CASE j + i # n
  <2> DEFINE k == j + i
             e == c[k]
  <2>1. k \in j + 1..n - 1 /\ k \in 1..n - 1 /\ k \in 0..n - 1 /\ k - 1 = j + i - 1
    <3> HIDE DEF n
    <3> QED BY <1>2, <1>9
  <2>2. t = Data(Slice(file, p, e)) /\ p <= e
    <3> HIDE DEF k
    <3>1. (T[k] = Progress /\ c[k] = c[k - 1]) \/ (T[k] = Data(Slice(file, c[k - 1], c[k])) /\ c[k - 1] <= c[k])
      <4>1. \A y \in 1..n - 1 :
               \/ T[y] = Progress /\ c[y] = c[y - 1]
               \/ T[y] = Data(Slice(file, c[y - 1], c[y])) /\ c[y - 1] <= c[y]
        BY DEF Cuts
      <4>2. k \in 1..n - 1
        BY <2>1
      <4> HIDE DEF n
      <4> QED
        BY <4>1, <4>2
    <3>2. T[k].type # "progress"
      BY <1>1, <1>4 DEF First, k
    <3>3. Progress.type = "progress"
      BY DEF Progress
    <3> QED
      BY <1>1, <2>1, <3>1, <3>2, <3>3 DEF k
  <2>3. t.type = "data" /\ d = Slice(file, p, e)
    <3>1. \A z : Data(z).type = "data" /\ Data(z).of = z
      BY DEF Data
    <3> QED
      BY <2>2, <3>1
  <2>4. e \in 0..Len(file) /\ e \in p..Len(file)
    <3>1. e \in 0..Len(file)
      BY <2>1, CutsHold
    <3> QED
      BY <1>3, <2>2, <3>1
  <2>5. d \in Seq(B) /\ Len(d) = e - p
    <3> HIDE DEF e, p, d
    <3> QED BY <1>3, <2>3, <2>4, SliceIs
  <2>6. CASE b < Len(d)
    <3> DEFINE q == p + b
               v == Slice(file, q, e)
               w == Slice(file, p, q)
    <3>1. q \in 0..Len(file) /\ q <= e /\ e - q <= Len(d) /\ q \in p..Len(file) /\ b \in 0..e - p /\ b \in Nat
          /\ e - p \in b..e - p /\ p + (e - p) = e /\ 0 \in Nat
      BY SMTT(30), <1>3, <2>4, <2>5, <2>6
    <3>2. SubSeq(d, b + 1, Len(d)) = v /\ SubSeq(d, 1, b) = w
      <4> HIDE DEF e, p
      <4>1. Slice(Slice(file, p, e), b, e - p) = Slice(file, p + b, p + (e - p))
        BY <1>3, <2>4, <3>1, SliceOfSlice
      <4>2. Slice(Slice(file, p, e), 0, b) = Slice(file, p, p + b)
        BY <1>3, <2>4, <3>1, SliceFront
      <4>3. SubSeq(d, b + 1, Len(d)) = Slice(d, b, Len(d)) /\ SubSeq(d, 1, b) = Slice(d, 0, b)
        BY DEF Slice
      <4> HIDE DEF d
      <4> QED
        BY <2>3, <2>5, <3>1, <4>1, <4>2, <4>3
    <3>3. o \o w = Slice(file, 0, q)
      <4> HIDE DEF e, p, q
      <4> QED BY <1>3, <3>1, SliceJoin
    <3>4. read = [reader |-> Rd("sideband", rest, v), data |-> w, err |-> "none"]
      BY <1>7, <2>3, <2>6, <3>2
    <3>5. ReadMore(x, b) = St("sideband", rest, v, o \o w, "none")
      <4> HIDE DEF x, read, s, rest, o, nil, v, w
      <4> QED BY <1>6, <3>4, ReadMoreIs DEF read
    <3>6. ReadMore(x, b) = At(T, file, c, k, q)
      <4> HIDE DEF x
      <4> QED BY <1>5, <3>3, <3>5 DEF At
    <3> HIDE DEF x, k, q
    <3> QED
      BY <2>1, <3>1, <3>6 DEF x, k
  <2>7. CASE ~ (b < Len(d))
    <3>1. e \in 0..Len(file) /\ e <= e /\ e - e <= Len(d)
      BY <1>3, <2>4, <2>5
    <3>2. o \o d = Slice(file, 0, e)
      <4>1. 0 \in Nat
        OBVIOUS
      <4> HIDE DEF e, p, d
      <4> QED BY <1>3, <2>3, <2>4, <4>1, SliceJoin
    <3>3. read = [reader |-> Rd("sideband", rest, nil), data |-> d, err |-> "none"]
      BY <1>7, <2>3, <2>7
    <3>4. ReadMore(x, b) = St("sideband", rest, nil, o \o d, "none")
      <4> HIDE DEF x, read, s, rest, o, nil, d
      <4> QED BY <1>6, <3>3, ReadMoreIs DEF read
    <3>5. Slice(file, e, e) = nil
      <4> HIDE DEF e
      <4>1. e \in Nat /\ e \in e..Len(file)
        BY <1>3, <2>4
      <4> QED BY <4>1, SliceIs
    <3>6. ReadMore(x, b) = At(T, file, c, k, e)
      <4> HIDE DEF x
      <4> QED BY <1>5, <3>2, <3>4, <3>5 DEF At
    <3> HIDE DEF x, k
    <3> QED
      BY <2>1, <3>1, <3>6 DEF x, k
  <2> QED
    BY <2>6, <2>7
<1> QED
  BY <1>8, <1>9

\* A file in packets is read, whatever the packets and the buffers.
LEMMA SidebandRead ==
  ASSUME NEW P, NEW T \in Seq(P), NEW B, NEW file \in Seq(B), NEW c, Cuts(T, file, c),
         NEW ns \in Seq(Nat \ {0}), ns # <<>>
  PROVE  ReadAll(Rd("sideband", T, <<>>), ns).data = file
<1> DEFINE n == Len(T)
           L == Len(file)
           r == Rd("sideband", T, <<>>)
           K == Longest(r) + 1
           Z == St("sideband", <<>>, <<>>, file, "flush")
           X(j, p) == At(T, file, c, j, p)
           E == {Z}
           D == {q \in (0..n - 1) \X (0..L) : q[2] <= c[q[1]]}
           S == {X(q[1], q[2]) : q \in D} \cup E
           m == [x \in S |-> IF x \in E THEN 0 ELSE Len(x.reader.rest) * K + Len(x.reader.under)]
           go(j, p) == (n - j) * K + (c[j] - p)
<1>1. n \in Nat \ {0} /\ L \in Nat /\ (\A j \in 0..n - 1 : c[j] \in 0..L) /\ c[0] = 0
  <2>1. \A j \in 0..n - 1 : c[j] \in 0..L
    BY CutsHold
  <2>2. n \in Nat \ {0} /\ c[0] = 0
    BY DEF Cuts
  <2> QED
    BY <2>1, <2>2
<1>2. r.rest = T
  BY DEF Rd
<1>3. Longest(r) \in Nat /\ K \in Nat \ {0} /\ (\A k \in 1..n : Len(T[k].of) < K) /\ Most(r) \in Nat /\ Most(r) = n * K + 1
  <2>1. \A k \in 1..Len(T) : Len(T[k].of) \in 0..L
    BY CutsHold
  <2> HIDE DEF r, L
  <2>2. Len(r.rest) \in Nat /\ \A k \in 1..Len(r.rest) : Len(r.rest[k].of) \in 0..L
    BY <1>1, <1>2, <2>1
  <2>3. Longest(r) \in Nat /\ \A k \in 1..Len(r.rest) : Len(r.rest[k].of) <= Longest(r)
    BY <1>1, <2>2, LongestIs
  <2>4. Most(r) \in Nat /\ Most(r) = Len(r.rest) * (Longest(r) + 1) + 1
    BY <1>1, <2>2, MostIs
  <2>5. ASSUME NEW k \in 1..n PROVE Len(T[k].of) < K
    <3>1. Len(T[k].of) <= Longest(r) /\ Len(T[k].of) \in 0..L
      BY <1>2, <2>1, <2>3
    <3> QED
      BY <1>1, <2>3, <3>1
  <2> QED
    BY <1>2, <2>3, <2>4, <2>5
<1> HIDE DEF K
<1>4. ASSUME NEW j \in 0..n - 1, NEW p \in 0..L, p <= c[j]
      PROVE  X(j, p) \in S /\ (X(j, p) \notin E => m[X(j, p)] = go(j, p)) /\ go(j, p) \in Nat
  <2>1. <<j, p>> \in D
    BY <1>4
  <2>2. X(j, p) \in S
    <3> DEFINE q == <<j, p>>
    <3>1. q \in D /\ q[1] = j /\ q[2] = p
      BY <2>1
    <3> HIDE DEF q, D, X
    <3>2. X(q[1], q[2]) \in S
      BY <3>1
    <3> QED
      BY <3>1, <3>2
  <2>3. X(j, p).reader.rest = Slice(T, j, n) /\ X(j, p).reader.under = Slice(file, p, c[j])
    BY DEF At, St, Rd
  <2>4. Len(Slice(T, j, n)) = n - j /\ n - j \in Nat
    <3>1. j \in Nat /\ n \in j..Len(T) /\ n - j \in Nat
      BY <1>1
    <3> HIDE DEF n
    <3> QED
      BY <3>1, SliceIs
  <2>5. Len(Slice(file, p, c[j])) = c[j] - p /\ c[j] - p \in Nat
    <3> DEFINE e == c[j]
    <3>1. p \in Nat /\ e \in p..Len(file) /\ e - p \in Nat
      BY <1>1, <1>4
    <3> HIDE DEF e
    <3>2. Len(Slice(file, p, e)) = e - p
      BY <3>1, SliceIs
    <3> QED
      BY <3>1, <3>2 DEF e
  <2>6. Len(X(j, p).reader.rest) = n - j /\ Len(X(j, p).reader.under) = c[j] - p
    BY <2>3, <2>4, <2>5
  <2>7. go(j, p) \in Nat
    <3>1. PICK y \in Nat : y = n - j
      BY <2>4
    <3>2. y * K \in Nat
      BY <1>3
    <3> QED
      BY <2>5, <3>1, <3>2
  <2> HIDE DEF X, E, S
  <2>8. m[X(j, p)] = IF X(j, p) \in E THEN 0 ELSE Len(X(j, p).reader.rest) * K + Len(X(j, p).reader.under)
    BY <2>2
  <2> QED
    BY <2>2, <2>6, <2>7, <2>8
<1>5. \A x \in S : x \notin E => \E j \in 0..n - 1, p \in 0..L : p <= c[j] /\ x = X(j, p)
  <2> HIDE DEF X
  <2> QED OBVIOUS
<1>6. Z \in S /\ m[Z] = 0
  OBVIOUS
<1> DEFINE F(x, b) == IF x \in E THEN ReadMore(x, b) = Z
                      ELSE ReadMore(x, b) = Z \/ (ReadMore(x, b) \in S /\ (ReadMore(x, b) \notin E => m[ReadMore(x, b)] < m[x]))
<1>7. m \in [S -> Nat]
  <2> HIDE DEF X
  <2>1. ASSUME NEW x \in S PROVE m[x] \in Nat
    <3>1. CASE x \in E
      <4> HIDE DEF m, S
      <4>1. x = Z
        BY <3>1
      <4> QED BY <1>6, <4>1
    <3>2. CASE x \notin E
      <4>1. PICK j \in 0..n - 1, p \in 0..L : p <= c[j] /\ x = X(j, p)
        BY <1>5, <3>2
      <4> HIDE DEF S, E, m, go
      <4> QED BY <1>4, <3>2, <4>1
    <3> QED
      BY <3>1, <3>2
  <2> HIDE DEF S
  <2> QED
    BY <2>1
<1>8. ASSUME NEW x \in S, NEW b \in Nat \ {0} PROVE F(x, b)
  <2>1. CASE x \in E
    <3>1. ReadMore(x, b) = x
      <4>1. x = Z
        BY <2>1
      <4> DEFINE nil == <<>>
      <4> HIDE DEF nil
      <4>2. ReadMore(St("sideband", nil, nil, file, "flush"), b) = St("sideband", nil, nil, file, "flush")
        BY ReadMoreIs
      <4> QED
        BY <4>1, <4>2 DEF nil
    <3> QED
      BY <2>1, <3>1
  <2>2. CASE x \notin E
    <3>1. PICK j \in 0..n - 1, p \in 0..L : p <= c[j] /\ x = X(j, p)
      BY <1>5, <2>2
    <3> HIDE DEF X, S, E, m, go
    <3>2. m[x] = go(j, p) /\ go(j, p) \in Nat
      BY <1>4, <2>2, <3>1
    <3>3. c[j] \in 0..L
      BY <1>1
    <3>4. CASE p < c[j]
      <4>1. PICK k \in 1..c[j] - p : ReadMore(x, b) = X(j, p + k)
        <5>1. p \in 0..c[j]
          BY <3>1, <3>3
        <5>2. \E k \in 1..c[j] - p : ReadMore(At(T, file, c, j, p), b) = At(T, file, c, j, p + k)
          <6> DEFINE e == c[j]
          <6>1. e = c[j] /\ e \in 0..Len(file) /\ p \in 0..e /\ p < e
            BY <3>3, <3>4, <5>1
          <6> HIDE DEF e
          <6>2. Further(T, file, c, j, p, b)
            BY <6>1, UnderStep
          <6> QED
            BY <6>1, <6>2 DEF Further
        <5> QED
          BY <3>1, <5>2 DEF X
      <4>2. p + k \in 0..L /\ p + k <= c[j]
        BY <1>1, <3>3, <3>4
      <4>3. X(j, p + k) \in S /\ (X(j, p + k) \notin E => m[X(j, p + k)] = go(j, p + k)) /\ go(j, p + k) \in Nat
        BY <1>4, <4>2
      <4>4. go(j, p + k) < go(j, p)
        <5>1. PICK y \in Nat : y = (n - j) * K
          <6>1. n - j \in Nat
            BY <1>1
          <6>2. PICK z \in Nat : z = n - j
            BY <6>1
          <6>3. z * K \in Nat
            BY <1>3
          <6> QED BY <6>2, <6>3
        <5> QED
          BY <3>3, <4>2, <5>1 DEF go
      <4> QED
        BY <2>2, <3>2, <4>1, <4>3, <4>4
    <3>5. CASE ~ (p < c[j])
      <4>1. p = c[j]
        BY <3>1, <3>3, <3>5
      <4>2. CASE ReadMore(x, b) = Z
        BY <2>2, <4>2
      <4>3. CASE ReadMore(x, b) # Z
        <5>1. PICK k \in j + 1..n - 1, q \in 0..L : q <= c[k] /\ c[k] - q <= Len(T[k].of) /\ ReadMore(x, b) = X(k, q)
          BY <3>1, <4>1, <4>3, PacketStep DEF X
        <5>2. k \in 0..n - 1 /\ k \in 1..n /\ n - k \in Nat /\ n - j \in Nat /\ n - k < n - j
          BY <1>1
        <5>3. X(k, q) \in S /\ (X(k, q) \notin E => m[X(k, q)] = go(k, q)) /\ go(k, q) \in Nat
          BY <1>4, <5>1, <5>2
        <5>4. go(k, q) < go(j, p)
          <6>1. c[k] - q \in Nat /\ c[k] - q < K
            <7>1. c[k] \in 0..L /\ Len(T[k].of) < K
              BY <1>1, <1>3, <5>2
            <7>2. Len(T[k].of) \in Nat
              BY <5>2, CutsHold
            <7>3. q <= c[k] /\ c[k] - q <= Len(T[k].of) /\ q \in 0..L
              BY <5>1
            <7>4. q \in Nat /\ c[k] \in Nat /\ K \in Nat
              BY <1>1, <1>3, <7>1, <7>3
            <7> QED
              BY SMTT(30), <7>1, <7>2, <7>3, <7>4
          <6> DEFINE u == c[k] - q
                     a == n - j
                     e == n - k
                     o == c[j] - p
          <6>2. o = 0 /\ 0 \in Nat /\ u \in Nat /\ u < K /\ a \in Nat /\ e \in Nat /\ e < a
            BY <3>3, <4>1, <5>2, <6>1
          <6> HIDE DEF u, a, e, o
          <6>3. o \in Nat
            BY <6>2
          <6>4. e * K + u < a * K + o
            BY <1>3, <6>2, <6>3, LessLeft
          <6> QED
            BY <6>4 DEF go, u, a, e, o
        <5> QED
          BY <2>2, <3>2, <5>1, <5>3, <5>4
      <4> QED
        BY <4>2, <4>3
    <3> QED
      BY <3>4, <3>5
  <2> HIDE DEF F
  <2> QED
    BY <2>1, <2>2
<1>9. ReadsOn(S, E, m)
  <2> SUFFICES ASSUME NEW x \in S, NEW b \in Nat \ {0}
               PROVE  /\ ReadMore(x, b) \in S
                      /\ x \in E => ReadMore(x, b) \in E
                      /\ x \notin E => ReadMore(x, b) \in E \/ m[ReadMore(x, b)] < m[x]
    BY DEF ReadsOn
  <2>1. F(x, b)
    BY <1>8
  <2> HIDE DEF S, m, Z
  <2> QED
    BY <1>6, <2>1
<1>10. 0 \in 0..n - 1 /\ 0 \in 0..L /\ 0 <= c[0]
  BY <1>1
<1>11. X(0, 0) = Got(r, <<>>)
  <2>1. Slice(T, 0, n) = T
    BY SliceAll
  <2>2. Slice(file, 0, 0) = <<>>
    <3>1. 0 \in Nat /\ 0 \in 0..Len(file)
      BY <1>1
    <3> QED BY <3>1, SliceIs
  <2>3. X(0, 0) = St("sideband", T, <<>>, <<>>, "none")
    BY <1>1, <2>1, <2>2 DEF At
  <2> QED
    BY <2>3 DEF St, Got
<1>12. X(0, 0) \in S /\ m[X(0, 0)] < Most(r)
  <2> HIDE DEF X, S, m, E
  <2>1. X(0, 0) \in S /\ (X(0, 0) \notin E => m[X(0, 0)] = go(0, 0)) /\ go(0, 0) \in Nat
    BY <1>4, <1>10
  <2>2. go(0, 0) = n * K
    BY <1>1, <1>3
  <2>3. X(0, 0) \in E => m[X(0, 0)] = 0
    BY <1>6 DEF E
  <2> QED
    BY <1>3, <2>1, <2>2, <2>3
<1>13. ReadAll(r, ns) \in E
  <2>1. E \in SUBSET S
    OBVIOUS
  <2> DEFINE a == X(0, 0)
  <2> HIDE DEF X, S, m, E, r, a
  <2>2. a \in S /\ a = Got(r, <<>>) /\ m[a] < Most(r)
    BY <1>11, <1>12 DEF a
  <2> QED
    BY <1>3, <1>7, <1>9, <2>1, <2>2, ReadsThrough
<1>14. Z.data = file
  BY DEF St
<1> QED
  BY <1>13, <1>14

\* How much of the file the first k pieces are.
Upto(k, size, L) == IF k * size < L THEN k * size ELSE L

\* The pieces a file is split into.
LEMMA SplitIs ==
  ASSUME NEW B, NEW file \in Seq(B), NEW size \in Nat \ {0}
  PROVE  \E m \in Nat :
           /\ Len(Split(file, size)) = m /\ Upto(0, size, Len(file)) = 0 /\ Upto(m, size, Len(file)) = Len(file)
           /\ \A k \in 0..m : Upto(k, size, Len(file)) \in 0..Len(file)
           /\ \A k \in 1..m :
                /\ Split(file, size)[k] = Slice(file, Upto(k - 1, size, Len(file)), Upto(k, size, Len(file)))
                /\ Upto(k - 1, size, Len(file)) <= Upto(k, size, Len(file))
<1> DEFINE L == Len(file)
           m == (L + size - 1) \div size
           e(k) == Upto(k, size, L)
<1>1. L \in Nat /\ L + size - 1 \in Nat
  OBVIOUS
<1>2. m \in Nat /\ m * size <= L + size - 1 /\ L + size - 1 < m * size + size
  BY <1>1, DivIs
<1>3. Split(file, size) = [k \in 1..m |-> SubSeq(file, (k - 1) * size + 1, e(k))]
  BY DEF Split, Upto
<1> HIDE DEF L, m
<1>4. Len(Split(file, size)) = m /\ \A k \in 1..m : Split(file, size)[k] = SubSeq(file, (k - 1) * size + 1, e(k))
  <2> DEFINE p(k) == SubSeq(file, (k - 1) * size + 1, e(k))
             t == [k \in 1..m |-> p(k)]
  <2>1. Split(file, size) = t
    BY <1>3
  <2> HIDE DEF p
  <2>2. Len(t) = m /\ \A k \in 1..m : t[k] = p(k)
    BY <1>2
  <2> QED
    BY <2>1, <2>2 DEF p
<1>5. \A k \in Nat : k * size \in Nat
  OBVIOUS
<1>6. e(0) = 0
  <2>1. 0 * size = 0
    OBVIOUS
  <2> QED
    BY <1>1, <2>1 DEF Upto
<1>7. e(m) = L
  <2>1. PICK y \in Nat : y = m * size
    BY <1>2, <1>5
  <2>2. ~ (y < L)
    BY <1>1, <1>2, <2>1
  <2> QED
    BY <2>1, <2>2 DEF Upto
<1>8. ASSUME NEW k \in 0..m PROVE e(k) \in 0..L
  <2>1. PICK y \in Nat : y = k * size
    BY <1>2, <1>5
  <2> QED
    BY <1>1, <2>1 DEF Upto
<1>9. ASSUME NEW k \in 1..m PROVE e(k - 1) = (k - 1) * size /\ e(k - 1) <= e(k) /\ Split(file, size)[k] = Slice(file, e(k - 1), e(k))
  <2>1. k \in Nat /\ k - 1 \in Nat /\ k <= m /\ m - k \in Nat
    BY <1>2
  <2>2. PICK y \in Nat : y = (k - 1) * size
    BY <2>1, <1>5
  <2>3. PICK z \in Nat : z = m * size
    BY <1>2, <1>5
  <2>4. PICK d \in Nat : d = (m - k) * size
    BY <2>1, <1>5
  <2>5. z = y + size + d /\ k * size = y + size
    BY <1>2, <2>1, <2>2, <2>3, <2>4
  <2>6. y < L \/ L = 0
    BY <1>1, <1>2, <2>3, <2>5
  <2>7. y < L
    BY <1>1, <1>2, <2>3, <2>5
  <2>8. e(k - 1) = y
    BY <2>2, <2>7 DEF Upto
  <2>9. e(k) \in 0..L /\ y <= e(k)
    BY <1>1, <2>5, <2>7 DEF Upto
  <2>10. Split(file, size)[k] = SubSeq(file, y + 1, e(k))
    BY <1>4, <2>2
  <2> QED
    BY <2>2, <2>8, <2>9, <2>10 DEF Slice
<1> QED
  BY <1>2, <1>4, <1>6, <1>7, <1>8, <1>9 DEF L

\* The packets of an answer with a sideband.
Packets(progress, size, file) ==
  [k \in 1..progress |-> Progress]
  \o [k \in 1..Len(Split(file, size)) |-> [type |-> "data", of |-> Split(file, size)[k]]] \o <<Flush>>

\* They cut the file.
LEMMA AnswerCuts ==
  ASSUME NEW B, NEW file \in Seq(B), NEW size \in Nat \ {0}, NEW g \in Nat
  PROVE  \E P, c : Packets(g, size, file) \in Seq(P) /\ Cuts(Packets(g, size, file), file, c)
<1> DEFINE L == Len(file)
           s == Split(file, size)
           e(k) == Upto(k, size, L)
<1>1. PICK m \in Nat :
           /\ Len(s) = m /\ e(0) = 0 /\ e(m) = L
           /\ \A k \in 0..m : e(k) \in 0..L
           /\ \A k \in 1..m : s[k] = Slice(file, e(k - 1), e(k)) /\ e(k - 1) <= e(k)
  BY SplitIs
<1> HIDE DEF e, s
<1> DEFINE P == {Progress, Flush} \cup {Data(s[k]) : k \in 1..m}
           u == [k \in 1..g |-> Progress]
           v == [k \in 1..m |-> Data(s[k])]
           w == <<Flush>>
           T == (u \o v) \o w
           c == [j \in 0..g + m |-> IF j <= g THEN 0 ELSE e(j - g)]
<1>2. u \in Seq(P) /\ v \in Seq(P) /\ w \in Seq(P) /\ Len(u) = g /\ Len(v) = m /\ Len(w) = 1
  OBVIOUS
<1>3. Packets(g, size, file) = T
  BY <1>1 DEF Packets, Data, s
<1>4. (\A k \in 1..g : u[k] = Progress) /\ (\A k \in 1..m : v[k] = Data(s[k])) /\ w[1] = Flush
  OBVIOUS
<1> HIDE DEF u, v, w, P
<1>5. T \in Seq(P) /\ Len(T) = g + m + 1
  <2> DEFINE x == u \o v
  <2>1. x \in Seq(P) /\ Len(x) = g + m
    BY SMTT(30), <1>2
  <2> HIDE DEF x
  <2>2. x \o w \in Seq(P) /\ Len(x \o w) = g + m + 1
    <3>1. x \o w \in Seq(P) /\ Len(x \o w) = Len(x) + 1
      BY <1>2, <2>1, AtTheEnd
    <3> QED
      BY <2>1, <3>1
  <2> QED
    BY <2>2 DEF x
<1>6. /\ \A k \in 1..g : T[k] = Progress
      /\ \A k \in g + 1..g + m : T[k] = Data(s[k - g])
      /\ T[g + m + 1] = Flush
  <2>1. u \o v \in Seq(P) /\ Len(u \o v) = g + m
    BY SMTT(30), <1>2
  <2>2. \A k \in 1..g + m : T[k] = (u \o v)[k]
    <3> DEFINE x == u \o v
    <3> HIDE DEF x
    <3>1. x \in Seq(P) /\ Len(x) = g + m
      BY <2>1 DEF x
    <3> QED
      BY <1>2, <3>1 DEF x
  <2>3. T[g + m + 1] = w[1]
    <3> DEFINE x == u \o v
    <3> HIDE DEF x
    <3>1. x \in Seq(P) /\ Len(x) = g + m
      BY <2>1 DEF x
    <3>2. (x \o w)[g + m + 1] = w[1]
      <4>1. (x \o w)[Len(x) + 1] = w[1]
        BY <1>2, <3>1, AtTheEnd
      <4> QED
        BY <3>1, <4>1
    <3> QED
      BY <3>2 DEF x
  <2>4. \A k \in 1..g : (u \o v)[k] = u[k]
    BY <1>2
  <2>5. \A k \in g + 1..g + m : (u \o v)[k] = v[k - g]
    BY <1>2
  <2> HIDE DEF T
  <2>6. \A k \in 1..g : T[k] = Progress
    <3>1. \A k \in 1..g : k \in 1..g + m
      OBVIOUS
    <3> QED
      BY <1>4, <2>2, <2>4, <3>1
  <2>7. \A k \in g + 1..g + m : T[k] = Data(s[k - g])
    <3>1. \A k \in g + 1..g + m : k \in 1..g + m /\ k - g \in 1..m
      OBVIOUS
    <3> QED
      BY <1>4, <2>2, <2>5, <3>1
  <2> QED
    BY <1>4, <2>3, <2>6, <2>7
<1> HIDE DEF T
<1>7. L \in Nat
  OBVIOUS
<1>8. c \in [0..Len(T) - 1 -> 0..L]
  <2>1. Len(T) - 1 = g + m
    BY <1>5
  <2>2. ASSUME NEW j \in 0..g + m PROVE c[j] \in 0..L
    <3>1. CASE j <= g
      BY <1>7, <3>1
    <3>2. CASE ~ (j <= g)
      <4>1. j - g \in 0..m
        BY <3>2
      <4> HIDE DEF L
      <4> QED
        BY <1>1, <3>2, <4>1
    <3> QED
      BY <3>1, <3>2
  <2> HIDE DEF L
  <2> QED
    BY <2>1, <2>2
<1>9. c[0] = 0 /\ c[Len(T) - 1] = L
  <2>1. Len(T) - 1 = g + m /\ 0 \in 0..g + m /\ g + m \in 0..g + m /\ g + m - g = m
    BY <1>5
  <2>2. c[g + m] = IF g + m <= g THEN 0 ELSE e(g + m - g)
    BY <2>1
  <2> HIDE DEF c, L
  <2>3. c[0] = 0
    BY <2>1 DEF c
  <2>4. CASE g + m <= g
    <3>1. m = 0
      BY <2>4
    <3> QED
      BY <1>1, <2>1, <2>2, <2>3, <2>4, <3>1
  <2> QED
    BY <1>1, <2>1, <2>2, <2>3, <2>4
<1>10. ASSUME NEW k \in 1..Len(T) - 1
       PROVE  \/ T[k] = Progress /\ c[k] = c[k - 1]
              \/ T[k] = Data(Slice(file, c[k - 1], c[k])) /\ c[k - 1] <= c[k]
  <2>1. k \in 1..g + m /\ k \in 0..g + m /\ k - 1 \in 0..g + m
    BY <1>5
  <2>2. CASE k <= g
    <3>1. c[k] = 0 /\ c[k - 1] = 0 /\ T[k] = Progress
      BY <1>6, <2>1, <2>2
    <3> QED
      BY <3>1
  <2>3. CASE ~ (k <= g)
    <3> DEFINE i == k - g
    <3>1. k \in g + 1..g + m /\ i \in 1..m /\ k - 1 - g = i - 1
      BY <2>1, <2>3
    <3>2. c[k] = e(i)
      BY <2>1, <2>3
    <3>3. c[k - 1] = e(i - 1)
      <4>1. CASE k - 1 <= g
        <5>1. i - 1 = 0
          BY <2>3, <3>1, <4>1
        <5>2. c[k - 1] = 0
          BY <2>1, <4>1
        <5> HIDE DEF i, c
        <5> QED
          BY <1>1, <5>1, <5>2
      <4>2. CASE ~ (k - 1 <= g)
        <5>1. c[k - 1] = e(k - 1 - g)
          BY <2>1, <4>2
        <5> HIDE DEF i, c
        <5> QED
          BY <3>1, <5>1
      <4> QED
        BY <4>1, <4>2
    <3>4. T[k] = Data(s[i])
      BY <1>6, <3>1
    <3> HIDE DEF i, c
    <3>5. s[i] = Slice(file, e(i - 1), e(i)) /\ e(i - 1) <= e(i)
      BY <1>1, <3>1
    <3> QED
      BY <3>2, <3>3, <3>4, <3>5
  <2> QED
    BY <2>2, <2>3
<1> HIDE DEF c, L
<1>11. Cuts(T, file, c)
  <2>1. Len(T) = g + m + 1 /\ Len(T) \in Nat \ {0}
    BY <1>5
  <2>2. T[Len(T)] = Flush
    BY <1>6, <2>1
  <2> QED
    BY <1>8, <1>9, <1>10, <2>1, <2>2 DEF Cuts, L
<1> QED
  BY <1>3, <1>5, <1>11

\* The packets after the line the answer starts with.
Body(sideband, progress, size, file) == IF sideband THEN Packets(progress, size, file) ELSE <<Raw(file)>>
Word(version) == IF version = 2 THEN "packfile" ELSE "NAK"

\* An answer is a line and a body.
LEMMA AnswerIs ==
  ASSUME NEW v, NEW sb, NEW g, NEW size, NEW file
  PROVE  Answer(v, sb, g, size, file) = <<Line(<<Word(v)>>)>> \o Body(sb, g, size, file)
BY DEF Answer, Body, Packets, Word

\* The line is read, and the rest is left.
LEMMA FirstLine ==
  ASSUME NEW P, NEW body \in Seq(P), NEW w
  PROVE  /\ ReadLine(Reader("line", <<Line(<<w>>)>> \o body)).reader = Rd("line", body, <<>>)
         /\ ReadLine(Reader("line", <<Line(<<w>>)>> \o body)).data = <<w>>
         /\ ReadLine(Reader("line", <<Line(<<w>>)>> \o body)).err = "none"
<1> DEFINE l == Line(<<w>>)
           Q == P \cup {l}
           s == <<l>>
           t == s \o body
           r == Rd("line", t, <<>>)
<1>1. l.type = "line" /\ l.of = <<w>>
  BY DEF Line
<1> HIDE DEF l
<1>2. body \in Seq(Q) /\ s \in Seq(Q) /\ s # <<>> /\ Head(s) = l /\ Tail(s) = <<>>
  OBVIOUS
<1>3. t # <<>> /\ Head(t) = l /\ Tail(t) = body
  <2>1. Tail(s) \o body = body
    BY <1>2
  <2> HIDE DEF s, Q
  <2>2. t # <<>> /\ Head(t) = Head(s) /\ Tail(t) = Tail(s) \o body
    BY <1>2, JoinedTail
  <2> QED
    BY <1>2, <2>1, <2>2
<1>4. Reader("line", t) = r
  BY DEF Reader, Rd
<1>5. r.rest = t /\ \A x : WithRest(r, x) = Rd("line", x, <<>>)
  <2>1. r.rest = t
    BY DEF Rd
  <2> DEFINE nil == <<>>
  <2> HIDE DEF nil, t
  <2>2. \A x : WithRest(Rd("line", t, nil), x) = Rd("line", x, nil)
    BY ReaderIs
  <2> QED
    BY <2>1, <2>2 DEF nil
<1> HIDE DEF r, t
<1>6. Past(r) = Rd("line", body, <<>>)
  <2>1. [r EXCEPT !.rest = Tail(@)] = [r EXCEPT !.rest = Tail(t)]
    BY <1>5
  <2> QED
    BY <1>3, <1>5, <2>1 DEF Past, WithRest
<1>7. ReadLine(r) = Got(Past(r), <<w>>)
  BY <1>1, <1>3, <1>5 DEF ReadLine
<1>8. ReadLine(r).reader = Past(r) /\ ReadLine(r).data = <<w>> /\ ReadLine(r).err = "none"
  BY <1>7 DEF Got
<1> QED
  BY <1>4, <1>6, <1>8 DEF t, s, l

\* Version 2 has a sideband, and version 1 not more than one had.
Readable(v, sb, h) == v \in {1, 2} /\ sb \in BOOLEAN /\ (v = 2 => sb) /\ (v = 1 => ~ (h > 1))

\* The pack is what is read then.
LEMMA PackReadIs ==
  ASSUME NEW B, NEW file \in Seq(B), NEW size \in Nat \ {0}, NEW g \in Nat, NEW sb, NEW v, NEW h,
         Readable(v, sb, h), NEW ns \in Seq(Nat \ {0}), ns # <<>>
  PROVE  PackRead(v, sb, h, Answer(v, sb, g, size, file), ns).data = file
<1> DEFINE body == Body(sb, g, size, file)
           w == Word(v)
           a == Answer(v, sb, g, size, file)
           first == ReadLine(Reader("line", a))
           mode == IF v = 2 \/ sb THEN "sideband" ELSE "direct"
           ack == Acknowledged(v, h, Reader("line", a))
<1> USE DEF Readable
<1>1. \E P : body \in Seq(P)
  <2>1. CASE sb
    <3>1. PICK P, c : Packets(g, size, file) \in Seq(P) /\ Cuts(Packets(g, size, file), file, c)
      BY AnswerCuts
    <3> QED
      BY <2>1, <3>1 DEF Body
  <2>2. CASE ~sb
    <3>1. <<Raw(file)>> \in Seq({Raw(file)})
      OBVIOUS
    <3> QED
      BY <2>2, <3>1 DEF Body
  <2> QED
    BY <2>1, <2>2
<1>2. a = <<Line(<<w>>)>> \o body
  BY AnswerIs
<1>3. first.reader = Rd("line", body, <<>>) /\ first.data = <<w>> /\ first.err = "none"
  <2> HIDE DEF body, w, a
  <2> QED BY <1>1, <1>2, FirstLine
<1>4. v = 2 => first.data = <<"packfile">>
  BY <1>3 DEF Word
<1> HIDE DEF body, w, a, first
<1>5. ack = first
  BY <1>3, <1>4 DEF Acknowledged, first
<1> HIDE DEF ack
<1> DEFINE r == Rd(mode, body, <<>>)
<1>6. [ack.reader EXCEPT !.mode = mode] = r
  BY <1>3, <1>5 DEF Rd
<1>7. PackRead(v, sb, h, a, ns) = ReadAll(r, ns)
  <2>1. ack.err = "none"
    BY <1>3, <1>5
  <2>2. PackRead(v, sb, h, a, ns) = IF ack.err = "none" THEN ReadAll([ack.reader EXCEPT !.mode = mode], ns) ELSE ack
    BY DEF PackRead, ack
  <2> QED
    BY <2>1, <2>2, <1>6
<1>8. ReadAll(r, ns).data = file
  <2>1. CASE sb
    <3> DEFINE T == Packets(g, size, file)
    <3>1. PICK P, c : T \in Seq(P) /\ Cuts(T, file, c)
      BY AnswerCuts
    <3>2. r = Rd("sideband", T, <<>>)
      BY <2>1 DEF Body, body
    <3> HIDE DEF T, r
    <3>3. ReadAll(Rd("sideband", T, <<>>), ns).data = file
      BY <3>1, SidebandRead
    <3> QED
      BY <3>2, <3>3
  <2>2. CASE ~sb
    <3>1. r = Rd("direct", <<Raw(file)>>, <<>>)
      BY <2>2 DEF Body, body
    <3> HIDE DEF r
    <3>2. ReadAll(Rd("direct", <<Raw(file)>>, <<>>), ns).data = file
      BY DirectRead
    <3> QED
      BY <3>1, <3>2
  <2> QED
    BY <2>1, <2>2
<1> QED
  BY <1>7, <1>8 DEF a

-----------------------------------------------------------------------------
(* Answers are read.                                                       *)

\* The pack is what is read of it.
LEMMA PackFileRead ==
  ASSUME NEW v, NEW sb, NEW h, Readable(v, sb, h), NEW g \in 0..ProgressMax, NEW size \in Sizes, NEW ns \in Buffers
  PROVE  PackRead(v, sb, h, Answer(v, sb, g, size, PackFile), ns).data = PackFile
<1> DEFINE file == PackFile
           B == Range(PackFile)
<1>1. g \in Nat /\ size \in Nat \ {0} /\ ns \in Seq(Nat \ {0}) /\ ns # <<>> /\ file \in Seq(B)
  BY TransferAssumption
<1> HIDE DEF file, B
<1>2. PackRead(v, sb, h, Answer(v, sb, g, size, file), ns).data = file
  BY <1>1, PackReadIs
<1> QED
  BY <1>2 DEF file

\* The whole exchange goes well but where version 1 reads lines too many.
LEMMA AnswersArrive ==
  ASSUME IInv, NEW c \in Client, NEW sb \in BOOLEAN, cmd[c].version = 2 => sb, NEW g \in 0..ProgressMax,
         NEW size \in Sizes, NEW ns \in Buffers,
         ~ (cmd[c].version = 1 /\ Cardinality(cmd[c].haves) > 1)
  PROVE  Arrives(c, sb, g, size, ns)
<1> DEFINE C == cmd[c]
           conn == Requested(C.http, C.version, C.wants, C.haves)
           asked == [wants |-> C.wants, haves |-> C.haves, done |-> TRUE]
           h == Cardinality(C.haves)
<1>1. C.version \in {1, 2} /\ C.http \in BOOLEAN /\ C.wants \subseteq Commit /\ C.haves \subseteq Commit
  BY DEF IInv, CommandsOK, CmdType
<1>2. IsFiniteSet(C.wants) /\ IsFiniteSet(C.haves) /\ h \in Nat
  BY <1>1, TransferAssumption, FS_Subset, FS_CardinalityType
<1>4. Len(conn.posts) = 1 /\ Understood(conn.posts[1]) = asked
  BY <1>1, <1>2, RequestArrives
<1>5. PackRead(C.version, sb, h, Answer(C.version, sb, g, size, PackFile), ns).data = PackFile
  <2> DEFINE v == C.version
             z == sb
  <2>1. v \in {1, 2} /\ (v = 2 => sb) /\ (v = 1 => ~ (h > 1))
    BY <1>1
  <2>2. Readable(v, z, h)
    BY <2>1 DEF Readable
  <2> HIDE DEF v, z, h
  <2>3. PackRead(v, z, h, Answer(v, z, g, size, PackFile), ns).data = PackFile
    BY <2>2, PackFileRead
  <2> QED
    BY <2>3 DEF v, z
<1> QED
  BY <1>4, <1>5 DEF Arrives

\* A command that was not garbled, unless that is allowed.
Clear(C) == C.said = "garbled" => C.version = 1 /\ Cardinality(C.haves) > 1

\* One client goes on with a clear record.
LEMMA ClearStep ==
  ASSUME IInv, PackArrives, NEW c \in Client, NEW X, cmd' = [cmd EXCEPT ![c] = X], Clear(X)
  PROVE  PackArrives'
<1>1. cmd \in [Client -> CmdType]
  BY DEF IInv, CommandsOK
<1>2. ASSUME NEW d \in Client PROVE Clear(cmd'[d])
  BY <1>1 DEF PackArrives, Clear
<1> QED
  BY <1>2 DEF PackArrives, Clear

\* A command ends without an answer read.
LEMMA StoppedClear ==
  ASSUME IInv, PackArrives, NEW c \in Client, NEW how, how # "garbled", Stopped(c, how)
  PROVE  PackArrives'
<1> DEFINE X == [NoCommand EXCEPT !.op = cmd[c].op, !.said = how]
<1>1. X.said = how
  BY DEF NoCommand
<1>2. Clear(X)
  BY <1>1 DEF Clear
<1>3. cmd' = [cmd EXCEPT ![c] = X]
  BY DEF Stopped
<1> HIDE DEF X
<1> QED
  BY <1>2, <1>3, ClearStep

\* A command goes on, with what it said before.
LEMMA SameClear ==
  ASSUME IInv, PackArrives, NEW c \in Client, NEW X, cmd' = [cmd EXCEPT ![c] = X],
         X.said = cmd[c].said, X.version = cmd[c].version, X.haves = cmd[c].haves
  PROVE  PackArrives'
<1>1. Clear(X)
  BY DEF PackArrives, Clear
<1> QED
  BY <1>1, ClearStep

\* What has closed has said how.
LEMMA ClosedSays ==
  ASSUME NEW C, NEW how
  PROVE  /\ Closed(C, how).said = how /\ Closed(C, how).version = C.version /\ Closed(C, how).haves = C.haves
         /\ how # "garbled" => Clear(Closed(C, how))
<1>1. Closed(C, how).said = how /\ Closed(C, how).version = C.version /\ Closed(C, how).haves = C.haves
  BY DEF Closed, NoCommand
<1> QED
  BY <1>1 DEF Clear

\* A fetch that starts has said nothing.
LEMMA AskingClear ==
  ASSUME NEW c, NEW op, NEW o, NEW seen
  PROVE  Clear(Asking(c, op, o, seen))
<1> DEFINE wants == Named(seen) \ obj[c]
           C == [NoCommand EXCEPT !.op = op, !.version = o.version, !.http = o.http, !.seen = seen,
                   !.wants = wants, !.haves = HavesOf(c, o.version, seen), !.left = Written(seen)]
<1>1. C.said = "nothing" /\ \A x : [C EXCEPT !.at = x].said = "nothing"
  BY DEF NoCommand
<1>2. \A x : Clear([C EXCEPT !.at = x])
  BY <1>1 DEF Clear
<1>3. Clear(Closed(C, "error")) /\ Clear(Closed(C, "ok"))
  BY ClosedSays
<1>4. Asking(c, op, o, seen) \in {Closed(C, "error"), Closed(C, "ok")}
        \cup {[C EXCEPT !.at = x] : x \in {"asked", "config", "track"}}
  BY DEF Asking
<1> HIDE DEF C
<1> QED
  BY <1>2, <1>3, <1>4

\* An answer that is not read is one of those.
LEMMA FetchAnsweredClear ==
  ASSUME IInv, PackArrives, NEW c \in Client, FetchAnswered(c)
  PROVE  PackArrives'
<1> DEFINE C == cmd[c]
<1>1. cmd \in [Client -> CmdType] /\ C \in CmdType
  BY DEF IInv, CommandsOK
<1>2. PICK sb \in {TRUE} \cup {C.version = 2}, g \in 0..ProgressMax, size \in Sizes, ns \in Buffers :
        IF Arrives(c, sb, g, size, ns)
        THEN cmd' = [cmd EXCEPT ![c].at = IF C.op = "clone" THEN "config" ELSE "track"]
        ELSE cmd' = [cmd EXCEPT ![c] = Closed(C, "garbled")]
  BY DEF FetchAnswered
<1>3. CASE Arrives(c, sb, g, size, ns)
  <2> DEFINE X == [C EXCEPT !.at = IF C.op = "clone" THEN "config" ELSE "track"]
  <2>1. X.said = C.said /\ X.version = C.version /\ X.haves = C.haves
    BY <1>1 DEF CmdType
  <2>2. cmd' = [cmd EXCEPT ![c] = X]
    BY <1>2, <1>3
  <2> HIDE DEF X
  <2> QED
    BY <2>1, <2>2, SameClear
<1>4. CASE ~Arrives(c, sb, g, size, ns)
  <2>1. sb \in BOOLEAN /\ (C.version = 2 => sb)
    OBVIOUS
  <2>2. C.version = 1 /\ Cardinality(C.haves) > 1
    BY <1>4, <2>1, AnswersArrive
  <2>3. Clear(Closed(C, "garbled"))
    BY <2>2, ClosedSays DEF Clear
  <2> QED
    BY <1>2, <1>4, <2>3, ClearStep
<1> QED
  BY <1>3, <1>4

\* What a remote has sent is read: however it cuts the pack into packets, with
\* whatever progress between them, and whatever the buffers it is read into, every
\* byte of the pack comes out, in its order, and the request asked for it; only
\* version 1 with two commits or more that were said to be had reads lines too many.
THEOREM PacksArrive == Spec => []PackArrives
<1>1. Init => PackArrives
  BY DEF Init, PackArrives, NoCommand
<1>2. IInv /\ PackArrives /\ [Next]_vars => PackArrives'
  <2> SUFFICES ASSUME IInv, PackArrives, [Next]_vars
               PROVE  PackArrives'
    OBVIOUS
  <2>1. CASE UNCHANGED cmd
    BY <2>1 DEF PackArrives
  <2>2. ASSUME NEW c \in Client, InitRepository(c) \/ RemoteAdd(c) \/ CannotConnect(c)
        PROVE  PackArrives'
    <3>1. CASE InitRepository(c) \/ RemoteAdd(c)
      BY <2>1, <3>1 DEF InitRepository, RemoteAdd
    <3>2. CASE CannotConnect(c)
      <4>1. PICK op \in {"push", "fetch", "clone"} : cmd' = [cmd EXCEPT ![c] = [NoCommand EXCEPT !.op = op, !.said = "error"]]
        BY <3>2 DEF CannotConnect
      <4>2. Clear([NoCommand EXCEPT !.op = op, !.said = "error"])
        BY DEF Clear, NoCommand
      <4> QED
        BY <4>1, <4>2, ClearStep
    <3> QED
      BY <2>2, <3>1, <3>2
  <2>3. ASSUME NEW c \in Client, NEW r \in Ref, NEW k \in Commit, MoveBranch(c, r, k)
        PROVE  PackArrives'
    BY <2>1, <2>3 DEF MoveBranch
  <2>4. ASSUME NEW c \in Client, NEW P \in Pushes, NEW o \in PushOptions, PushRefused(c, P, o) \/ PushSent(c, P, o)
        PROVE  PackArrives'
    <3> DEFINE R == [NoCommand EXCEPT !.op = "push", !.said = "error"]
               D == [NoCommand EXCEPT !.op = "push", !.said = "ok"]
               X(seen) == [NoCommand EXCEPT !.op = "push", !.at = "sent", !.http = o.http, !.force = o.force,
                             !.lines = Lines(c, P, seen), !.pack = PackOf(c, P, seen)]
    <3>1. Clear(R) /\ Clear(D) /\ \A seen : Clear(X(seen))
      BY DEF Clear, NoCommand
    <3>2. \E Y \in {R, D} \cup {X(seen) : seen \in Targets(P)} : cmd' = [cmd EXCEPT ![c] = Y]
      BY <2>4 DEF PushRefused, PushSent
    <3> HIDE DEF R, D, X
    <3> QED
      BY <3>1, <3>2, ClearStep
  <2>5. ASSUME NEW c \in Client, PushAnswered(c) \/ PushLost(c) \/ FetchRefused(c) \/ FetchLost(c) \/ CloneHead(c) \/ Kill(c)
        PROVE  PackArrives'
    <3>1. \E how \in {"ok", "error", "panic", "killed"} : Stopped(c, how)
      BY <2>5 DEF PushAnswered, PushLost, FetchRefused, FetchLost, CloneHead, Kill
    <3> QED
      BY <3>1, StoppedClear
  <2>6. ASSUME NEW c \in Client, NEW o \in FetchOptions, Clone(c, o) \/ \E spec \in {"all", "glob"} \cup Ref : Fetch(c, spec, o)
        PROVE  PackArrives'
    <3>1. \E op, seen : cmd' = [cmd EXCEPT ![c] = Asking(c, op, o, seen)]
      BY <2>6 DEF Clone, Fetch
    <3> QED
      BY <3>1, AskingClear, ClearStep
  <2>7. ASSUME NEW c \in Client, FetchAnswered(c)
        PROVE  PackArrives'
    BY <2>7, FetchAnsweredClear
  <2>8. ASSUME NEW c \in Client, CloneConfig(c) \/ \E r \in Ref : UpdateTrack(c, r)
        PROVE  PackArrives'
    <3> DEFINE C == cmd[c]
               A == [C EXCEPT !.at = "track"]
               L(r) == [C EXCEPT !.left = @ \ {r}]
    <3>1. C \in CmdType
      BY DEF IInv, CommandsOK
    <3>2. A.said = C.said /\ A.version = C.version /\ A.haves = C.haves
      BY <3>1 DEF CmdType
    <3>3. \A r : L(r).said = C.said /\ L(r).version = C.version /\ L(r).haves = C.haves
      BY <3>1 DEF CmdType
    <3>4. CASE CloneConfig(c)
      <4>1. cmd' = [cmd EXCEPT ![c] = A]
        BY <3>4 DEF CloneConfig
      <4> HIDE DEF A
      <4> QED
        BY <3>2, <4>1, SameClear
    <3>5. ASSUME NEW r \in Ref, UpdateTrack(c, r) PROVE PackArrives'
      <4>1. cmd' = [cmd EXCEPT ![c] = Closed(C, "ok")] \/ cmd' = [cmd EXCEPT ![c] = L(r)]
        BY <3>5 DEF UpdateTrack
      <4>2. CASE cmd' = [cmd EXCEPT ![c] = Closed(C, "ok")]
        BY <4>2, ClosedSays, ClearStep
      <4>3. CASE cmd' = [cmd EXCEPT ![c] = L(r)]
        <5> HIDE DEF L
        <5> QED BY <3>3, <4>3, SameClear
      <4> QED
        BY <4>1, <4>2, <4>3
    <3> QED
      BY <2>8, <3>4, <3>5
  <2>9. CASE Prune \/ UNCHANGED vars
    BY <2>1, <2>9 DEF Prune, vars
  <2> QED
    BY <2>2, <2>3, <2>4, <2>5, <2>6, <2>7, <2>8, <2>9 DEF Next
<1> QED
  BY <1>1, <1>2, Invariant, PTL DEF Spec

=============================================================================
