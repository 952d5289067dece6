------------------------------ MODULE Transfer ------------------------------
(***************************************************************************)
(* push, fetch and clone: clients of this program and a repository of git  *)
(* they share (src/git/push.go, sendpack.go, fetch.go, fetchpack.go,       *)
(* clone.go, remote.go and the connections).                               *)
(*                                                                         *)
(* A command reads the refs of the remote and acts on them in a later      *)
(* request; other clients have theirs in between.  Requests and answers    *)
(* may be lost, and a client killed.  The answer of a fetch is read as     *)
(* Wire has it.  A commit stands for its whole content: RevList and        *)
(* ObjectStore have the trees.                                             *)
(***************************************************************************)
EXTENDS Wire, FiniteSets

CONSTANTS
  Client, Ref, Commit,
  None,         \* no commit, and no name
  Master,       \* the branch clone makes
  Parents,      \* of each commit
  History,      \* of each commit: it and what it descends from
  Pushes,       \* what a push may be asked for: sets of [from, to]
  PushOptions,  \* and its options
  Ready,        \* the clients that are linked and have what the remote has: sets to start with
  Tip,          \* the refs of the remote at the start
  Advances,     \* versions of the protocol the remote may choose
  ProgressMax, Sizes, Buffers, \* of an answer: packets of progress, bytes in a packet; buffers read into
  PackFile,     \* the bytes of a pack
  MaxRuns       \* bound: commands run

ASSUME TransferAssumption ==
  /\ None \notin Commit \cup Ref /\ Master \in Ref /\ Ready \subseteq SUBSET Client
  /\ Parents \in [Commit -> SUBSET Commit] /\ History \in [Commit -> SUBSET Commit]
  /\ \A k \in Commit : k \in History[k] /\ \A p \in Parents[k] : History[p] \subseteq History[k]
  /\ \A k \in Commit : History[k] \subseteq {k} \cup UNION {History[p] : p \in Parents[k]}
  /\ \A k \in Commit : \A d \in History[k] : History[d] \subseteq History[k]
  /\ \A P \in Pushes : /\ P \subseteq [from : Ref \cup {None}, to : Ref]
                        /\ \A i, j \in P : i.to = j.to => i = j
  /\ PushOptions \subseteq [force : BOOLEAN, dry : BOOLEAN, setup : BOOLEAN, http : BOOLEAN]
  /\ Tip \in [Ref -> Commit \cup {None}] /\ Advances \subseteq {1, 2} /\ MaxRuns \in Nat
  /\ IsFiniteSet(Commit) /\ ProgressMax \in Nat /\ Sizes \subseteq Nat \ {0}
  /\ Buffers \subseteq Seq(Nat \ {0}) \ {<<>>} /\ PackFile \in Seq(Range(PackFile))

VARIABLES
  rref,   \* the remote: its branches
  robj,   \* the remote: its commits
  head,   \* each client: its branches
  track,  \* each client: refs/remotes/origin
  obj,    \* each client: its commits
  conf,   \* each client: what its config says of the remote
  dir,    \* each client: whether there is a repository
  cmd,    \* each client: its command, the last one when none runs
  ran     \* commands started so far

remote == <<rref, robj>>
local == <<head, track, obj, conf, dir>>
vars == <<remote, local, cmd, ran>>

Reach(S) == UNION {History[k] : k \in S}
Named(refs) == {refs[r] : r \in Ref} \ {None}
NoRefs == [r \in Ref |-> None]

\* linked: remote.origin.url is set; glob: so is its fetch; up: the branches
\* that have a merge, which is always the branch of that name.
NoConf == [linked |-> FALSE, glob |-> FALSE, up |-> {}]

\* lines: old and new value of each ref; seen: the refs of the remote; left: refs
\* still to be written.
NoCommand ==
  [op |-> "none", at |-> "end", said |-> "nothing", version |-> 1, http |-> FALSE, force |-> FALSE,
   lines |-> {}, pack |-> {}, wants |-> {}, haves |-> {}, seen |-> NoRefs, left |-> {}]

Init ==
  /\ rref = Tip /\ robj = Reach(Named(Tip))
  /\ \E ready \in Ready :
       /\ head = [c \in Client |-> IF c \in ready THEN [NoRefs EXCEPT ![Master] = Tip[Master]] ELSE NoRefs]
       /\ track = [c \in Client |-> IF c \in ready THEN Tip ELSE NoRefs]
       /\ obj = [c \in Client |-> IF c \in ready THEN Reach(Named(Tip)) ELSE {}]
       /\ conf = [c \in Client |->
                    IF c \in ready THEN [linked |-> TRUE, glob |-> FALSE, up |-> {Master}] ELSE NoConf]
       /\ dir = [c \in Client |-> c \in ready]
  /\ cmd = [c \in Client |-> NoCommand]
  /\ ran = 0

-----------------------------------------------------------------------------
(* A client alone.                                                         *)

Idle(c) == cmd[c].at = "end" /\ ran < MaxRuns
Run == ran' = ran + 1
\* What is kept of a command that ended is what it said, and of a fetch what
\* it had seen.
Closed(C, how) ==
  [NoCommand EXCEPT !.op = C.op, !.said = how, !.version = C.version, !.haves = C.haves, !.seen = C.seen]
Stopped(c, how) == cmd' = [cmd EXCEPT ![c] = [NoCommand EXCEPT !.op = cmd[c].op, !.said = how]]

\* init, where there is nothing.
InitRepository(c) ==
  /\ Idle(c) /\ Run /\ ~dir[c]
  /\ dir' = [dir EXCEPT ![c] = TRUE]
  /\ UNCHANGED <<remote, head, track, obj, conf, cmd>>

RemoteAdd(c) ==
  /\ Idle(c) /\ Run /\ dir[c] /\ ~conf[c].linked
  /\ conf' = [conf EXCEPT ![c].linked = TRUE, ![c].glob = TRUE]
  /\ UNCHANGED <<remote, head, track, obj, dir, cmd>>

\* commit, merge, reset, branch: a branch moves to a commit that is there or
\* whose parents are.
MoveBranch(c, r, k) ==
  /\ Idle(c) /\ Run /\ dir[c]
  /\ k \in obj[c] \/ (Parents[k] \subseteq obj[c] /\ head[c][r] \in Parents[k] \cup {None})
  /\ head[c][r] # k
  /\ head' = [head EXCEPT ![c][r] = k]
  /\ obj' = [obj EXCEPT ![c] = @ \cup {k}]
  /\ UNCHANGED <<remote, track, conf, dir, cmd>>

-----------------------------------------------------------------------------
(* The refs of the remote, as a connection is told of them.                *)

\* A list that breaks off between two lines, or in the length of one, is taken
\* to end there: any refs may be left out.
Advertised == {[r \in Ref |-> IF r \in told THEN rref[r] ELSE None] : told \in SUBSET Ref}

\* What is asked for of it.  Version 2 without http has an error instead.
Seen(refs, silent) ==
  {[r \in Ref |-> IF r \in refs THEN list[r] ELSE None] : list \in IF silent THEN Advertised ELSE {rref}}

-----------------------------------------------------------------------------
(* Push.                                                                   *)

\* Bug: the two commits are the wrong way round.
FastForward_Swapped(c, i, seen) ==
  i.from # None /\ seen[i.to] # None => head[c][i.from] \in History[seen[i.to]]

FastForward(c, i, seen) ==
  i.from # None /\ seen[i.to] # None => seen[i.to] \in History[head[c][i.from]]

\* Bug: what the client believes the remote to have is left out.
PackOf_Tracked(c, P, seen) ==
  Reach({head[c][i.from] : i \in {i \in P : i.from # None}})
  \ Reach({track[c][i.to] : i \in P} \ {None})

\* rev-list of what is pushed, without what the refs it goes to have.
PackOf(c, P, seen) ==
  Reach({head[c][i.from] : i \in {i \in P : i.from # None}})
  \ Reach({seen[i.to] : i \in P} \cap obj[c])

Lines(c, P, seen) ==
  {[to |-> i.to, old |-> seen[i.to], new |-> IF i.from = None THEN None ELSE head[c][i.from]] : i \in P}

\* The config is written before anything is known of the remote.
Configured(c, P, setup) ==
  conf' = IF setup THEN [conf EXCEPT ![c].up = @ \cup {i.to : i \in P}] ELSE conf

Lacking(c, P) == \E i \in P : i.from # None /\ head[c][i.from] = None
Targets(P) == Seen({i.to : i \in P}, TRUE)
Forwards(c, P, o, seen) == o.force \/ \A i \in P : FastForward(c, i, seen)
HasUpstream(c, P, o) == o.setup \/ \A i \in P : i.to \in conf[c].up
MaySend(c, P, o, seen) == HasUpstream(c, P, o) /\ ~Lacking(c, P) /\ Forwards(c, P, o, seen)

StartPush(c, P, o) ==
  /\ Idle(c) /\ Run /\ conf[c].linked
  /\ Configured(c, P, o.setup)
  /\ UNCHANGED <<remote, head, track, obj, dir>>

\* A branch without upstream, one that does not exist, or one that would not
\* be moved forward: nothing is sent.
PushRefused(c, P, o) ==
  /\ StartPush(c, P, o) /\ \E seen \in Targets(P) : ~MaySend(c, P, o, seen)
  /\ cmd' = [cmd EXCEPT ![c] = [NoCommand EXCEPT !.op = "push", !.said = "error"]]

\* A push up to its one request.  The refs of the remote are those that were
\* seen.
PushSent(c, P, o) ==
  /\ StartPush(c, P, o)
  /\ \E seen \in Targets(P) :
       /\ MaySend(c, P, o, seen)
       /\ cmd' = [cmd EXCEPT ![c] =
            IF o.dry THEN [NoCommand EXCEPT !.op = "push", !.said = "ok"]
            ELSE [NoCommand EXCEPT !.op = "push", !.at = "sent", !.http = o.http, !.force = o.force,
                    !.lines = Lines(c, P, seen), !.pack = PackOf(c, P, seen)]]

\* The remote takes what lines it likes of those whose ref still has the old
\* value and whose commits it has.  What it reports is printed and not read.
Acceptable(l, pack) == rref[l.to] = l.old /\ (l.new = None \/ History[l.new] \subseteq robj \cup pack)
PushAnswered(c) ==
  /\ cmd[c].at = "sent"
  /\ \E L \in SUBSET {l \in cmd[c].lines : Acceptable(l, cmd[c].pack)} :
       /\ rref' = [r \in Ref |-> IF \E l \in L : l.to = r THEN (CHOOSE l \in L : l.to = r).new ELSE rref[r]]
       /\ robj' = robj \cup Reach({l.new : l \in L} \ {None})
  /\ \/ Stopped(c, "ok")
     \/ cmd[c].http /\ Stopped(c, "error")    \* the answer is lost
  /\ UNCHANGED <<local, ran>>

\* The request is lost: http reports it, the others may have written it all.
PushLost(c) ==
  /\ cmd[c].at = "sent"
  /\ Stopped(c, "error") \/ (~cmd[c].http /\ Stopped(c, "ok"))
  /\ UNCHANGED <<remote, local, ran>>

-----------------------------------------------------------------------------
(* Fetch and clone.                                                        *)

\* Which branches a fetch asks for: all; those of the configured refs/heads/*,
\* which version 1 compares as if it were a name; or one by its name, given
\* with the remote branch it is for: a name alone writes no ref.
SelectedV1(spec) == CASE spec = "all" -> Ref [] spec = "glob" -> {} [] OTHER -> {spec}
SelectedV2(spec) == IF spec \in {"all", "glob"} THEN Ref ELSE {spec}
Selected(spec, version) == IF version = 2 THEN SelectedV2(spec) ELSE SelectedV1(spec)
Told(spec, o) == Seen(Selected(spec, o.version), o.version = 1 \/ o.http)

\* Bug: all that were asked for are written.
Written_All(seen) == Ref

Written(seen) == {r \in Ref : seen[r] # None}

\* Bug: what the remote has is said to be had.
LocalRefs_Seen(c, seen) == Named(track[c]) \cup Named(seen)

\* GetLocalRefs.
LocalRefs(c, seen) == Named(track[c])

\* What is said to be had: in version 1 also what is not wanted.
HavesOf(c, version, seen) ==
  LocalRefs(c, seen) \cup IF version = 1 THEN Named(seen) \cap obj[c] ELSE {}

\* FetchPack up to its request, and where the command goes when nothing is
\* wanted: version 2 ends it, version 1 goes on if there are refs.
Asking(c, op, o, seen) ==
  LET wants == Named(seen) \ obj[c]
      C == [NoCommand EXCEPT !.op = op, !.version = o.version, !.http = o.http, !.seen = seen,
              !.wants = wants, !.haves = HavesOf(c, o.version, seen), !.left = Written(seen)]
  IN IF wants # {} THEN [C EXCEPT !.at = "asked"]
     ELSE IF op = "clone" THEN IF o.version = 2 THEN Closed(C, "error") ELSE [C EXCEPT !.at = "config"]
     ELSE IF o.version = 2 \/ seen = NoRefs THEN Closed(C, "ok")
     ELSE [C EXCEPT !.at = "track"]

\* Without a ref, the configured refspec, or all.
Fetch(c, spec, o) ==
  /\ Idle(c) /\ Run /\ conf[c].linked
  /\ spec \in Ref \/ spec = IF conf[c].glob THEN "glob" ELSE "all"
  /\ \E seen \in Told(spec, o) : cmd' = [cmd EXCEPT ![c] = Asking(c, "fetch", o, seen)]
  /\ UNCHANGED <<remote, local>>

\* The directory must not be there; init makes it.
Clone(c, o) ==
  /\ Idle(c) /\ Run /\ ~dir[c]
  /\ dir' = [dir EXCEPT ![c] = TRUE]
  /\ \E seen \in Told("all", o) : cmd' = [cmd EXCEPT ![c] = Asking(c, "clone", o, seen)]
  /\ UNCHANGED <<remote, head, track, obj, conf>>

\* No connection is opened: clone has made the directory, push the config.
CannotConnect(c) ==
  /\ Idle(c) /\ Run
  /\ \E op \in {"push", "fetch", "clone"} :
       /\ IF op = "clone" THEN ~dir[c] /\ dir' = [dir EXCEPT ![c] = TRUE]
          ELSE conf[c].linked /\ UNCHANGED dir
       /\ IF op = "push" THEN \E P \in Pushes, o \in PushOptions : HasUpstream(c, P, o) /\ Configured(c, P, o.setup)
          ELSE UNCHANGED conf
       /\ cmd' = [cmd EXCEPT ![c] = [NoCommand EXCEPT !.op = op, !.said = "error"]]
  /\ UNCHANGED <<remote, head, track, obj>>

\* What is wanted may be gone: by then version 1 has any commit of its refs,
\* over http, or of those it advertised; version 2 whatever it still has.
Refused(c) ==
  LET asked == cmd[c].wants
  IN IF cmd[c].version = 1 /\ cmd[c].http THEN ~(asked \subseteq Reach(Named(rref))) ELSE ~(asked \subseteq robj)

\* git says so in a line, for which version 2 panics.
FetchRefused(c) ==
  /\ cmd[c].at = "asked" /\ Refused(c)
  /\ Stopped(c, IF cmd[c].version = 1 THEN "error" ELSE "panic")
  /\ UNCHANGED <<remote, local, ran>>

\* The whole exchange, as an answer may be cut into packets and read.
Arrives(c, sideband, progress, size, ns) ==
  LET C == cmd[c]
      conn == Requested(C.http, C.version, C.wants, C.haves)
      asked == [wants |-> C.wants, haves |-> C.haves, done |-> TRUE]
      read == PackRead(C.version, sideband, Cardinality(C.haves),
                       Answer(C.version, sideband, progress, size, PackFile), ns)
  IN Len(conn.posts) = 1 /\ Understood(conn.posts[1]) = asked /\ read.data = PackFile

\* The pack is indexed, or cannot be.
FetchAnswered(c) ==
  LET C == cmd[c]
  IN /\ C.at = "asked" /\ ~Refused(c)
     /\ \E sideband \in {TRUE} \cup {C.version = 2}, progress \in 0..ProgressMax, size \in Sizes, ns \in Buffers :
          IF Arrives(c, sideband, progress, size, ns)
          THEN /\ obj' = [obj EXCEPT ![c] = @ \cup (Reach(C.wants) \ Reach(C.haves \cap robj))]
               /\ cmd' = [cmd EXCEPT ![c].at = IF C.op = "clone" THEN "config" ELSE "track"]
          ELSE /\ cmd' = [cmd EXCEPT ![c] = Closed(C, "garbled")]
               /\ UNCHANGED obj
     /\ UNCHANGED <<remote, head, track, conf, dir, ran>>

\* The request or the answer is lost.
FetchLost(c) ==
  /\ cmd[c].at = "asked"
  /\ Stopped(c, "error")
  /\ UNCHANGED <<remote, local, ran>>

\* clone writes the config.  A merge is set for the branch of the clone.
CloneConfig(c) ==
  /\ cmd[c].at = "config"
  /\ conf' = [conf EXCEPT ![c].linked = TRUE, ![c].up = @ \cup {Master}]
  /\ cmd' = [cmd EXCEPT ![c].at = "track"]
  /\ UNCHANGED <<remote, head, track, obj, dir, ran>>

\* One ref after the other, each to what was seen.  That clone makes the file
\* first and writes it then is one step.
UpdateTrack(c, r) ==
  LET C == cmd[c]
      last == C.left = {r} /\ C.op = "fetch"
  IN /\ C.at = "track" /\ r \in C.left
     /\ track' = [track EXCEPT ![c][r] = C.seen[r]]
     /\ cmd' = [cmd EXCEPT ![c] = IF last THEN Closed(C, "ok") ELSE [C EXCEPT !.left = @ \ {r}]]
     /\ UNCHANGED <<remote, head, obj, conf, dir, ran>>

\* clone checks the branch out; without it the clone stays as it is.
CloneHead(c) ==
  /\ cmd[c].at = "track" /\ cmd[c].op = "clone" /\ cmd[c].left = {}
  /\ head' = [head EXCEPT ![c][Master] = track[c][Master]]
  /\ Stopped(c, IF track[c][Master] = None THEN "error" ELSE "ok")
  /\ UNCHANGED <<remote, track, obj, conf, dir, ran>>

Kill(c) ==
  /\ cmd[c].at # "end"
  /\ Stopped(c, "killed")
  /\ UNCHANGED <<remote, local, ran>>

\* The remote collects what no ref reaches.
Prune ==
  /\ robj # Reach(Named(rref))
  /\ robj' = Reach(Named(rref))
  /\ UNCHANGED <<rref, local, cmd, ran>>

FetchOptions == [version : Advances, http : BOOLEAN]

Next ==
  \/ \E c \in Client :
       \/ InitRepository(c) \/ RemoteAdd(c) \/ CannotConnect(c)
       \/ \E r \in Ref, k \in Commit : MoveBranch(c, r, k)
       \/ \E P \in Pushes, o \in PushOptions : PushRefused(c, P, o) \/ PushSent(c, P, o)
       \/ PushAnswered(c) \/ PushLost(c)
       \/ \E o \in FetchOptions : Clone(c, o) \/ \E spec \in {"all", "glob"} \cup Ref : Fetch(c, spec, o)
       \/ FetchAnswered(c) \/ FetchRefused(c) \/ FetchLost(c)
       \/ CloneConfig(c) \/ CloneHead(c) \/ \E r \in Ref : UpdateTrack(c, r)
       \/ Kill(c)
  \/ Prune

Spec == Init /\ [][Next]_vars

-----------------------------------------------------------------------------
(* Properties.                                                             *)

Refs == [Ref -> Commit \cup {None}]
Whole(refs, S) == Reach(Named(refs)) \subseteq S

\* The values of the variables; and a ref that is still to be written is one
\* the remote has (fetch.go:49, clone.go:96).
TypeOK ==
  /\ rref \in Refs /\ robj \subseteq Commit
  /\ head \in [Client -> Refs] /\ track \in [Client -> Refs] /\ obj \in [Client -> SUBSET Commit]
  /\ conf \in [Client -> [linked : BOOLEAN, glob : BOOLEAN, up : SUBSET Ref]]
  /\ dir \in [Client -> BOOLEAN]
  /\ cmd \in [Client ->
       [op : {"none", "push", "fetch", "clone"}, at : {"end", "sent", "asked", "config", "track"},
        said : {"nothing", "ok", "error", "garbled", "panic", "killed"},
        version : {1, 2}, http : BOOLEAN, force : BOOLEAN,
        lines : SUBSET [to : Ref, old : Commit \cup {None}, new : Commit \cup {None}],
        pack : SUBSET Commit, wants : SUBSET Commit, haves : SUBSET Commit, seen : Refs, left : SUBSET Ref]]
  /\ ran \in 0..MaxRuns
  /\ \A c \in Client : \A r \in cmd[c].left : cmd[c].seen[r] # None

\* Whatever a client's branches and remote branches name it has, with all its
\* history: no fetch or clone, cut short, answered late or refused, leaves a
\* ref to what is not there.
ClientWhole == \A c \in Client : Whole(head[c], obj[c]) /\ Whole(track[c], obj[c])

\* The pack of a push completes what the remote has, whatever it has collected
\* and others have pushed, as long as the refs that are pushed to are those
\* the push was made for.
PackSuffices ==
  \A c \in Client :
    cmd[c].at = "sent" /\ (\A l \in cmd[c].lines : rref[l.to] = l.old)
      => \A l \in cmd[c].lines : l.new = None \/ History[l.new] \subseteq robj \cup cmd[c].pack

\* A push that was not forced takes nothing off a branch of the remote,
\* whoever pushed since it looked (sendpack.go:67).
PushForwards ==
  [][\A c \in Client : cmd[c].at = "sent" /\ cmd'[c].at # "sent" /\ ~cmd[c].force =>
       \A l \in cmd[c].lines :
         rref'[l.to] # rref[l.to] /\ l.new # None /\ rref[l.to] # None => rref[l.to] \in History[rref'[l.to]]]_vars

\* A pack that the remote sends is read, however it is cut into packets and
\* whatever buffers it is read into; but for the lines that version 1 reads
\* too many when two commits or more were said to be had (fetchpack.go:344).
PackArrives ==
  \A c \in Client : cmd[c].said = "garbled" => cmd[c].version = 1 /\ Cardinality(cmd[c].haves) > 1

\* After a fetch of all refs that ends well the remote branches are what the
\* remote had.
FetchTracks ==
  \A c \in Client : cmd[c].op = "fetch" /\ cmd[c].said = "ok" =>
    \A r \in Ref : cmd[c].seen[r] # None => track[c][r] = cmd[c].seen[r]

=============================================================================
