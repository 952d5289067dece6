# A verification project for dgit

dgit (`src/`) is a reimplementation of git in Go. One process runs one command
(`main.go` dispatches to `cmd/<command>.go`, which parses flags and calls the
library in `git/`), works on files under `.git/` and in the work tree, and
exits. There is no daemon and no lock: what makes the program hard is that
several commands may run in one repository at a time, that each is a long
sequence of file operations which may stop anywhere, and that the formats and
the algorithms on trees, histories and packs have many cases.

## 1. Inventory

| component | source | state it keeps | operations | what is hard | what makes it correct |
|---|---|---|---|---|---|
| ref store | `git/updateref.go`, `symbolicref.go`, `refspec.go`, `reflog.go`, branches in `client.go` | `HEAD`, `refs/**`, `logs/**` | resolve, update-ref, symbolic-ref, create/rename/delete branch, append to a reflog | no lock, in-place rewriting, two comparisons of the old value, an empty HEAD reads as detached | old value respected, history closed, a made commit recoverable, commands serial = atomic |
| object store | `git/client.go` (`WriteObject`, `HaveObject`), `objects.go`, `packfile.go`, `indexpack.go` | loose objects, packs and their indexes, `objectCache` | write, look up, read, index a pack | a file is visible before it is whole; a lookup trusts existence; a pack is visible before its index | what a ref names can be read |
| index | `git/index.go`, `updateindex.go`, `lsfiles.go`, `add.go`, `rm.go`, `clean.go` | `.git/index`: entries by path and stage | add a stage, remove, list what differs, read, write | stages 0 and 1..3 exclude each other, file against directory, a rewritten file | no path both at stage 0 and in conflict, no path under a file, nothing tracked is cleaned |
| trees | `git/readtree.go`, `writetree.go`, `lstree.go`, `expandtree.go`, `checkoutindex.go` | index, work tree | one-, two- and three-way read-tree, write-tree, checkout-index | the 21 cases of the two-way merge, local changes, untracked files, files where directories are | no local change lost, what is merged is what one side did, staged changes survive |
| history | `git/mergebase.go`, `revlist.go`, ancestors in `sha1.go`, `merge.go` | `ancestorMapCache` | merge-base, rev-list, is-ancestor, fast-forward | order of the search, criss-cross histories, caches | a common ancestor whenever there is one, exactly the reachable commits |
| porcelain | `git/commit.go`, `checkout.go`, `reset.go`, `merge.go`, `revert.go`, `pull.go` | all of the above | compositions | what happened already when a step fails or the process is killed | index, HEAD and work tree agree, HEAD moves last, `reset --hard` restores |
| transfer | `git/fetch.go`, `fetchpack.go`, `sendpack.go`, `push.go`, `clone.go`, `remote.go`, `gitconn.go`, `httpconn.go`, `localconn.go`, `sshconn.go` | a connection, what was advertised, `refs/remotes/*`, `remote.*` and `branch.*` of the config | fetch, push, clone, pkt-line and side-band framing | the remote moves between advertisement and request, lost requests and answers, one request over http, packets larger than the buffer | refs move only after their objects arrived, a pack completes the remote, an unforced push goes forward, a pack is read whole |
| deltas and packs | `git/delta/*`, `packobjects.go`, `packiterator.go` | a pack being read or written | encode, apply and resolve deltas, varints, index and look up | deltas against later objects, boundaries of the encodings, a cache that forgets | what was packed is what is read, an index has the objects of its pack |
| ignore patterns, diff, status, log, config, fsck, apply, grep, archive | `git/ignore.go`, `diff*.go`, `status.go`, `config.go`, `fsck.go`, ... | none | reports | formats | their output |

Components meet on disk. `Commit` writes trees and a commit object, then calls
`UpdateRef`; `Checkout`, `Reset` and `Merge` call `ReadTree`, which rewrites the
index and the work tree, and then `UpdateRef` or `SymbolicRefUpdate`; `Fetch`
stores a pack and then calls `UpdateRefSpec`. Inside a process they share one
`Client`: its `objectCache`, `objcache` and the package's `ancestorMapCache`.

## 2. Plan

Built, in this order because a wrong ref or a missing object loses work and
everything else can be done again:

1. `Refs`, `AtomicRefs`, `RefsAtomic`, `RefsProofs`: the files that every other
   command moves.
2. `ObjectStore`, `ClosedStore`, `ObjectStoreProofs`: writers, readers and
   fetches of one object database.
3. `RevList`, `RevListProofs`: what push sends and fsck calls reachable.
4. `Merge`, `MergeProofs`: merge bases, and the decisions of merge.
5. `Index`, `ReadTree`, `WorkTree`, `WorkTreeProofs`: what an index is and what
   may be done to it, what read-tree decides, and the commands made of it as
   sequences of file operations.
6. `Delta`, `Packs`, `PacksProofs`: how a pack is written, sent, indexed, unpacked
   and looked into.
7. `Wire`, `Transfer`, `TransferProofs`: push, fetch and clone of several clients
   against one remote, and how an answer is read.

`Index` is extended by `ReadTree` and that by `WorkTree`; `Delta` by `Packs`;
`Wire` by `Transfer`. The others stand alone and meet where one takes a step of
another for granted: `Transfer` takes a pack as `Packs` and `ObjectStore` have
it and its contents as `RevList` lists them, `WorkTree` takes HEAD's move as one
step that `Refs` has in detail, and `Merge` decides which of the merges of
`WorkTree` is run.

Abstract specifications: an atomic ref store (`AtomicRefs`) and a closed object
store (`ClosedStore`).

What is left, in the order of what it would add: several processes that rewrite
one index; revert and pull as compositions of what is there; status and diff as
functions of index, tree and work tree; tags.

## 3. Modules

### Refs

State: `file` holds `HEAD` and every `refs/heads/*`, `hasLog` and `log` are
`logs/**`, `obj` and `parents` the commits in the object store. `proc[p]` is a
running command: `pc` is the next file operation, the other fields its local
variables (`tgt` the file it writes, `val` what it writes, `old` the value it
expects, `mklog` whether it creates a reflog, `src` the branch it removes).
`started`, `crashes` count for the bounds and `made` remembers the commits that
were reported as made.

A process does one file operation a step, as in the code: `Deref`, `CheckHead`,
`LogHead`, `CheckSpec`, `LogTarget`, `Create`, `WriteRef` are `UpdateRef` and
`UpdateRefSpec` in their order (updateref.go:68-165). A reflog that `LogHead` or
`LogTarget` finds missing is created first, by `CreateLog`, which truncates what
another process may have made meanwhile, and then appended to
(updateref.go:22-64): three steps, and others may come between. `StartCommit`,
`GetHeadCommit`, `CommitTree` are commit and amend before they call them;
`StartBranch`, `WriteBranch`, `StartRename`, `Remove` the branch commands;
`SymbolicRefLog` and `WriteSymbolicRef` are `SymbolicRefUpdate`. `Crash` ends a
process between any two of them.

Abstractions. Resolving a name is one read of HEAD and the branch it names.
Finding a reflog that exists and appending to it is one step, as no command
removes a reflog (`FirstLogs` are those of earlier commands). The second
truncation of a file by `CreateBranch` is folded into the first. Two processes
that have truncated a file write whole values one after the other, not bytes
across each other. Whether there is something to commit is a choice. The commit
object is stored in one step (`ObjectStore` has its steps). Left out are
`update-ref -d HEAD`, `symbolic-ref -d`, `reflog expire` and tags.

`AtomicRefs` is what a user who runs one command at a time may expect: each
command is one step that moves a ref, or nothing. `RefsAtomic` adds to `Refs`
what is seen between commands and maps it to that specification;
`RefsProofs` shows that the map is one. `RenameKeepsTip` is stated there, of what
lies between: wherever `branch -m` stops, the commit of the branch is under one
of the two names.

### ObjectStore

State: `loose[o]` is the file of an object (absent, partial, whole), `packed[k]`
what a pack holds and `idx[k]` its index (none, torn, whole), `refs` the
commits that refs name. A process has the ids it may publish (`roots`), has
still to store or has in its pack (`todo`), and its `objectCache`.

`HaveObject` is `Found`, `Missing` or `Panics`: the cache first, then the loose
file, which counts whatever it holds, then the indexes, each of which is put in
the cache as it is read. `LookBeforeWrite`, `CreateObject`, `FillObject` are
`WriteObject`; `Eligible` is the order in which write-tree and commit call it,
or any order for unpack-objects. `WantOrHave` to `WriteIndex` are the part of a
fetch that changes the repository: tips that are found are sent as haves, the
remote leaves out what they reach (`PackContents`, the remote's promise), the
pack is renamed into place, its index is created, then written. `Publish` moves
one ref.

`ClosedStore` is what whoever holds a ref needs: objects come with or after what
they refer to, none goes away, and refs move to what is stored.

Abstractions. An object is its id and `Closure`, what it reaches. A lookup is
one step. The writes of an index are one state, torn, in which a lookup may
panic as the code does when tables end early. Deltas, offsets, and what a
damaged object reads as are left out. The remote is external.

### RevList

State: `excludeList`, `callbackCount` and what the callback got, and `todo`: the
commits that the frames of the recursion have still to visit, innermost first.
`Exclude` and `List` are one iteration in each of the two passes, with `Walk`
for `GetAllObjectsExcept`; `Stop` is `maxCountError` inside an iteration and
`Fail` a commit or a tree that cannot be read. The objects of one commit come
in any order but for the commit and its tree. `--verify-objects` is left out,
and what it would read is fsck's. `Reach`, what the command is compared with,
is the least set closed under parents, trees and entries.

### Merge

State: HEAD and whether it is detached, whether another process has moved it
(`raced`), what index and work tree hold, and the position in the command: `level`
and `next` are the two slices of the search by distance (mergebase.go:48-96),
`rest` what the fold of the octopus has left, `base` what was found. `UpToDate`
and `NeedsMerge` are the first loop of `Merge`; `FastPath`, `StartSearch`,
`Found`, `NoneFound`, `Expand`, `NextLevel`, `Unrelated` are `MergeBase`;
`StartFold`, `Fold`, `FoldFails`, `EndFold` are `MergeBaseOctopus`; `CheckOut`,
`CompareHead`, `MoveHead`, `NoFastForward`, `ThreeWay` the rest of `Merge`. `Race`
is another process that moves HEAD forward once, at any time: also between the
comparison with the HEAD that was read and the write, which are two steps of
`UpdateRef`.

The fold takes the first of the sorted ancestors of one commit that is an ancestor
of the other. The comparison of that sort mixes descent and dates and is no order
when clocks disagree, so a result of `sort.Slice` is any arrangement without two
neighbours the wrong way round. How read-tree and merge-file fare is a choice, and
so is a refusal. Of `UpdateRef` there are the comparison that counts and the
write; `Refs` has all steps. `merge-base --is-ancestor` is left out.

`LibraryLemmas` has the facts that several proofs share: on sequences and their
slices, on finite sets, on definition and induction by a measure, and on steps
that come to an end.

### Index, ReadTree, WorkTree

`Index` has no state. An index is a function from paths to what they have at
each of the four stages, a tree one from paths to contents, and a work tree one
to contents or `Dir`; `Below` says which path is under which. `CanAdd`, `Added`
and `RemoveFile` are `AddStage` and `RemoveFile` (index.go), `Made`,
`CheckoutFile`, `RemoveAll` and `RemoveFileClean` what happens to the files,
`Killed`, `Others` and `Modified` what ls-files lists. `Killed` finds a file in the
place of a directory one level above an entry only: further up the path that is
looked for ends in a slash (lsfiles.go:214). `Top` and `Last` are the
entry that is left when a map is made of the entries of a path, of which the
code makes several.

`ReadTree` has the decisions: `FFIndex` and `FFBlocked` are the loop over the
table of `ReadTreeFastForward`, `ThreeIndex`, `ThreeStages` and `ThreeBlocked`
that of `ReadTreeThreeWay`, `Blocked` and `ToCheckOut` the two passes of
`checkMergeAndUpdate` before anything is written.

`WorkTree` runs one command at a time on `index`, `wt` and `head`. At its start
a command computes everything it decides from what it finds (`was`) and the
phases of its plan: for read-tree with `-u`, first the files in the way are
removed (`Kill`), then the new ones written (`Write`) and the old ones removed
(`Prune`), then the index is truncated (`Open`) and written (`Save`). `WriteAll`
is the second pass of `reset --hard`, `Drop` what `resetremovals` removes, `Put`
the staged changes that checkout puts back, `MergeFile` the call of the external
merge, `Unlink` rm, `CleanUp` clean, `Move` the update of HEAD. Each phase goes
through its paths one a step, in any order where the code goes through a map.
`Fail` is a decision that was negative; `Stop` ends a command in the middle.
`Crash` kills it between any two steps, and then one of the `Recovery` commands
follows.

Abstractions. Modes, stat data and sparse checkout are left out: a file is as an
entry has it when the content is the same. `.gitignore` is left out, so there
are no ignored files; paths of which one is a prefix of another without being
its directory are not in the instance (for those `lsfiles.go:59` keeps a
directory that could go). Writing an index is two steps, truncated and
whole. What merge-file makes of three sides is one content (`Conflict`).

### Delta, Packs

`Delta` has no state: a content is a sequence of symbols, a written integer a
sequence of digits, and the bases of the digits (128, 16, 256) and the limits of
the instructions (3, 127) are constants, so that small contents reach them.
`Calculate` is `calculate` with its two searches, `WriteCopy` and `WriteInsert`
the instructions, `ReadCode` `Reader.Read` until it ends, and `Uvarint`,
`ReadVariable`, `WriteVariable`, `ReadHeaderSize`, `ReadDeltaOffset` the
integers. `GitOffset` is how git writes an offset. The longest common prefix is
searched for as the code does, by halves. What calls itself or loops in the code
is a recursive function here, or a function of the number of rounds: `Search`
ends in as many rounds as there are symbols, `Follow` (below) in one more than
there are entries.

`Packs` follows one pack: written here (`PackObject`, `PackPanics`), or one that
git sends; then read entry by entry (`ReadFull`, `ReadRef`, `ReadOfs`, `Cut`,
`ReadTrailer`), then its deltas resolved in their order (`IndexDelta`,
`UnpackDelta`, `SkipDelta`, `NoBase`), and the tables of the index sorted
(`Finish`). An object may fail to be written: a whole one ends the command
(`WriteFails`), and of a delta the error is passed over, what was not written is
in `lost`, and it is no base for what follows (unpackobjects.go:152-168). `prior`
is `priorObjects`, with 0 for a base that was not seen yet; `cache` may keep and
lose anything, as the counts that decide it are left out. `Follow` reads an entry
through its chain of bases; a chain of more deltas than there are entries goes
round and has no end, and so no value. `Meaning` is what a pack stands for whoever
reads it, and what the properties compare with: entry by entry, what follows from
entries whose meaning is known, as often as there are entries. `HasObject`,
`OffsetOf` and `ObjectAt` are the look-ups. The sort of the tables leaves equal
hashes in any order.

What is assumed: a hash stands for one object (`ObjectAssumption`); what is
packed is listed once, and git has the base of a delta by location before it
(`PacksAssumption`); and no copy is so long that it would have to be split, which
the calculator does not do (`CopyAssumption`, and the FIXME in calculator.go:224).

### Wire, Transfer

`Wire` has no state. `Put` is a write to a connection, which over http goes to a
buffer that `HttpWrite` or `HttpFlush` sends, and over the others at once;
`RequestV1` and `RequestV2` are what `fetchPackDone` writes. `Answer` is what git
sends, cut into packets of some size with progress among them, and `PackRead`
what `packProtocolReader` hands on into buffers of some sizes: `ReadLine`,
`ReadSideband` and `ReadDirect` are its modes, and `under` the bytes that did
not fit. `PutAll` and `ReadAll` are loops over the packets of a request and the
reads of an answer; `Most` is more reads than any answer can take.

`Transfer` has a remote (`rref`, `robj`) and clients, each with branches,
`refs/remotes/origin`, commits, what its config says of the remote, and a
command. A push is two steps: `PushSent` reads the advertisement, checks, and
sends lines and pack; `PushAnswered` is the remote, which takes any of the lines
it may take. A fetch or a clone is `Fetch` or `Clone` up to its request, the
answer (`FetchAnswered`, `FetchRefused`, `FetchLost`), and then a step for each
ref (`UpdateTrack`), for the config and the branch of a clone (`CloneConfig`,
`CloneHead`). Between them other clients have their steps, requests and answers
are lost (`PushLost`, `FetchLost`), clients are killed (`Kill`), and the remote
drops what no ref reaches (`Prune`).

A list of refs that breaks off between two lines is taken for a whole one
(retrieve.go:34): what a command sees of the remote (`Advertised`, `Seen`) may
leave refs out, but over version 2 without http, where that is an error.

Abstractions. A commit stands for its trees. A fetch of one ref stands for one
with a full refspec, `src:dst`: given a name alone the code writes no ref. The
creation of a remote branch by clone and the write of its value are one step. The
local steps of a client (`MoveBranch`) are those of `Refs` and `WorkTree`. One
remote, no tags, no passwords. The remote is git and external: it updates a ref
when the old value is right and the objects are there (`Acceptable`), and answers
a fetch unless what is wanted is gone (`Refused`).

## 4. Runs

A run has several processes only where the code has a race. Every bound is a
constant of its configuration.

| run | instance | shows |
|---|---|---|
| `refs_serial` | one process, four commands, two branches, three commits, no reflog at first, every command but one | a rename keeps hold of its commit, each command is a step of `AtomicRefs` |
| `refs_concurrent` | two processes, three commands, one kill, a command of each kind, a repository with reflogs | nothing names a commit that is not stored, what was committed can be found in HEAD's reflog, the other reflog loses entries only while it is being made, only a kill leaves an empty file |
| `objects_closed` | two processes, three commands, one kill, two commits with shared trees and a shared blob, two packs | no published history has a hole, a kill tears one file at most, the store implements `ClosedStore` |
| `objects_fetch` | two fair processes, three commands, two commits of one tree, the same pack twice, no kill | what is published can be read in the end |
| `revlist` | every history of three commits with up to two parents over trees that share entries, something unreadable or nothing, with and without a limit | exactly what was asked for is called back, and once |
| `merge` | every history of four commits with up to two parents and those of five where both sides merge two roots, dates that tie, run against descent or agree with it, another process | bases are common and are found when there are any; the fold takes a nearest one when dates agree with descent; merge decides as ancestry says; HEAD keeps its history when it was moved before the comparison |
| `worktree` | four paths, one two directories down, and trees in which a directory is a file elsewhere; 333 starts, conflicts, local changes and untracked files among them; every command, a kill at any step and then `reset --hard` | an index stays legal; local and staged changes survive; a merge is what the sides did; HEAD moves last; `reset --hard` restores what it can make; clean spares what is tracked |
| `packs` | packs of up to four entries of five objects: written here with windows of 0 to 2 and every choice of deltas, or sent by git with every choice of base, a missing one and a later one included, and any object may fail to be written | what is packed is what was asked for; an index has the objects of its pack and they are read back; unpack-objects stores what the pack holds, but for what it could not write; packs are read to the end |
| `transfer` | two clients, two refs, four commits with a merge, four commands, both versions, http and streams, packets of 1 and 3 bytes with up to two of progress among them, four pairs of buffer sizes, lists of refs that break off anywhere | refs never outrun objects; packs complete the remote; unforced pushes go forward; answers are read whole |

Four commands on two branches are enough for a branch to be made, switched to,
moved and removed again, and for the reflog of HEAD to come into being before a
switch to an unborn branch. Two processes and three commands let one command
end while another is between two of its steps, and a third see what they left.
Two commits, one the parent of the other, are the smallest history in which a
have hides something. Three commits with two trees, one inside the other, make
every way in which histories and trees can share what rev-list has to list
once. Four commits are the fewest with a common ancestor at two distances and
with a merge of unrelated histories. Two sides that each merge two roots, one
of them behind another commit, take five; only there does it show that the
search goes on through second parents.

The code looks at a path, at what is above and at what is below, and removes a
file in the place of a directory one level up only: `a`, `a/x`, `a/x/y` and a
path beside them are what it can tell apart. Three contents make base, ours and
theirs differ. The starts are the indexes of five trees and two with a conflict,
one of them with a file below the path in conflict, each with every work tree
of `a`, `a/x` and `b` and three of the HEADs, and four indexes with the work
trees that have `a/x/y`. A second start after a kill is what
`reset --hard` needs, and no command needs more than one before it. In `packs`
the bases of the digits are 2 and 16 where the code has 16, 128 and 256, and the
widths 18 where it has 2^31: contents of nine symbols then have lengths with two
and three digits, and entries on both sides of every limit. In a pack of four
entries a delta can have a base before and after it that is a delta itself. In
`transfer` four commands let each client push what the other has moved, fetch
it, and be behind; a merge of two sides is the smallest history in which a pack
leaves one side out. Deadlock is not checked where the commands end: every
command stops, and the instances stop with the last of them.

Three runs show that the program does not do what its text says. Each checks one
property and is expected to fail:

| run | text | what the code does |
|---|---|---|
| `refs_lost_update` | an old value that differs is an error (updateref.go:67) | two commits at once: both compare, both write, one drops off the branch |
| `checkout_loses_modified` | "Check if the merge would overwrite any modified files and return an error if so" (readtree.go:653) | each path is looked at alone: a modified `a` goes for the directory of `a/x` |
| `fetch_stays_behind` | `Fetch` fetches refs (fetch.go:13) | over version 2 a fetch that finds every commit ends before it updates any ref |

Other faults are in the premises of properties that hold otherwise, and TLC finds
each of them when the premise is dropped, in the same instance: the loss of a
first reflog (`CommitRecoverable`, in a repository without reflogs), a file that
`reset --hard` cannot make (`HardResetRestores`), deltas that are not unpacked, or
only a part of them (`UnpackTrue`), windows of two and offsets of two bytes
(`PackHoldsObjects`). Section 6 says what the code does.

Only `objects_fetch` assumes fairness: `WF` of what each process does next. A
process runs until it ends and waits for no other, so the scheduler of the
system gives it; no command has to start and none has to be killed.

## 5. Proofs

All theorems hold for every value of the constants under the assumptions named
in the modules, which say no more than that ids, names and markers differ, that
reachability is reflexive and transitive, and that bounds are numbers.

**Refs** (`TypeCorrect`, `HistoryIsClosed`, `LogLeads`, `LogsStaySettled`,
`CommitsRecoverable`, `CrashesTearOneFile`). That a file names only stored commits
is not inductive: what `WriteRef` writes was put in the process record some steps
before. `IInv` adds what a record holds at each program counter (`RecOK`) and is
split by variable, so that each of the steps proves the parts it touches. A second
invariant, for the reflogs, says that a record past `LogHead` has its value in
HEAD's log. Such a log only grows where it is `Safe`: it was there from the start,
or there is one process, which creates no log that it has written. Otherwise the
code loses entries while the log is made, and `LogsStaySettled` says that it does
not later: nobody comes to create a log that is there.

Only a kill tears a file (`CrashesTearOneFile`). What is torn is an empty file that
no process has truncated and not yet written; every step but a kill leaves that
set as it is or makes it smaller, and a kill adds the one file its process was
filling (`TornInv`). The same argument gives `KillsTearOneObject`, where the
invariant also says that who creates a loose file has one object in hand.

**RefsAtomic** (`CommandsAreAtomic`, `RenamesKeepTip`, `OldValuesRespected`). A
command changes files in several steps and is seen at its end, so the invariant
says at each program counter what the running command still owes: what the files
will be when it is done, as a function of what was seen when it began (`Owes`).
Every step keeps the debt, and the last one pays it with a step of `AtomicRefs`.
`RenamesKeepTip` follows from the same debt: what a rename has done so far and
still owes leaves the commit under one of its names. The first theorem is about
one command at a time without kills (`OneAtATime`): with a second process the code
is not atomic, as the run `refs_lost_update` shows, and a kill leaves a command
half done. `OldValuesRespected` needs one process only, and kills do no harm: what
was compared is still there when the file is truncated (`Compared`).

**ObjectStore** (`TypeCorrect`, `NoHoles`, `RefinesClosedStore`,
`KillsTearOneObject`). `Good` says what a
process may rely on at each step, above all that what it stored so far and has
still to store covers what it will publish; it survives the steps of others as
the store only grows. For a fetch this needs the whole store to be closed
(`StoreClosed`), as the remote leaves out the history of a have. unpack-objects
stores in the order of the pack and so does not keep the store closed, and a
pack that arrives twice truncates an index that is in use; `NoHoles` assumes
that no command fetches while others unpack and that no pack repeats
(`Separate`), and the refinement that nothing is unpacked. These are limits of
the code, not of the proof: in an instance with both, TLC finds a ref moved to
a commit whose trees another process has still to unpack, and a kill then
leaves the hole for good.

**RevList** (`TypeCorrect`, `ListsOnlyWanted`, `ListsOnce`, `ListsAll`). During
each pass `excludeList` is closed but for commits in `todo`. At the end of the
first pass it is therefore all that the excludes reach, at the end of the second
it has all that the includes reach as well. As `Reach` is the least closed set the
argument needs no induction over histories.

**Merge** (`TypeCorrect`, `BasesAreCommon`, `SearchIsComplete`, `FastForwardsAreExact`,
`HeadIsKept`). While it searches, every ancestor that two commits share is
behind a commit of the pending levels: one that is no ancestor of the other
side can be replaced by its parents. When the levels are empty nothing was
shared. The fold keeps its base an ancestor of what it has taken. HEAD keeps
its history as `CompareHead` found the HEAD that was read (`HeadInv`) and nothing
has moved it since. A move between comparison and write is excepted: the code
loses it, which is what `refs_lost_update` shows of `UpdateRef`.

**WorkTree**, types (`TypeCorrect`, `WorkTreeShaped`, `IndexStaysLegal`). The index that
`Save` writes was made when the command started, and `Put` adds to it since; the
invariant says of the command that runs what `IndexLegal` says of the file, that
HEAD and the target are trees without a file that is a directory, and that the
work tree is one a file system can have. Each command then has to show that
what it starts with is legal: by the table for three trees (`LegalThree`), by
what is added and what goes with it for add and commit -a (`LegalUpdated`,
which needs the shape of the work tree), and so on. The two-tree merge is
excepted because it fails there (section 6).

**WorkTree**, what commands keep and do. Each invariant follows one kind of command
through its plan: for each number of phases left it says what index, HEAD and
work tree are, and what may be in the paths of the running phase. A step does one
path or begins the next phase, so each phase is proved alone.

- `CleanSparesTracked`: what clean has listed has no entry, and neither has what
  is below a directory it has listed (`SparesInv`). As the listing tells them
  apart by names, the lemma about `Cleaned` is where the proof is.
- `HardResetIsExact` (`HardInv`, over `HardPlan(k)`): the first pass of read-tree
  leaves no file of the old index that was clean and is not in the new tree;
  before the second pass writes a file, a file in the place of its directory is
  removed. One further up stays, and then so does what is below it missing.
  Nothing is assumed about where it starts, so it holds of what any killed command
  left, as long as the index could be read.
- `LocalChangesKept`, `CheckoutKeepsStaged`, `HeadFollowsFiles` (`CarefulInv`, over
  `Course(op, k)`): `Decided` is what the command has made sure of before its
  first step, that is, what `Blocked`, `FFBlocked` and `ThreeBlocked` refuse;
  `Spared` that no step so far has lost a local file; `Carried` that the files
  written so far are those of the new index, and the staged changes those put
  back. One invariant serves all, because what a step keeps for the one is what
  it must not undo for the other.
- `MergesAreRight` has two parts. `MergeTakesTheChange` adds what the table of three
  trees decides for a path (`MergeOptions`) to `CarefulInv`; `ForwardTakesTheRest`
  is the table for two.

The proofs showed two things TLC had not, as its instance then had three paths.
`checkoutFile` removes a file in the place of a directory one level up only, and
an entry that it could not write is printed and passed over: index and HEAD go
on without the file (`Barred`). And merge-file writes its result over an
untracked file where a path in conflict is not in our index (`LocalKept` has
the exception). The instance now has a path two directories down, and both are
in section 6. In the other direction the proofs made two properties stronger:
`HardResetRestores` says that a safe path is as it was or as the tree has it, and
never gone, and `ThreeWayRight` that no path leaves the index that one of the three
trees has.

**Transfer** (`TypeCorrect`, `ClientsAreWhole`, `PacksSuffice`, `PushesForward`). The
invariant says that the commits of each repository are closed under history and
its refs among them, and of each command what its record may rely on: what it
said it has it does have, refs it has still to write name what it has or has
asked for, and the pack of a push, with the history of the old values it names,
covers the new ones. The last is why a push is safe although the remote may
have moved and pruned: it takes a line only when the old value is still there,
and then so is its history. That a push goes forward follows from the
comparison with the advertised value, which the line repeats. The proofs leave
open how an answer is read, and hold whether it arrives or not.

**Transfer**, answers (`PacksArrive`, over `Wire`). A fetch ends as garbled only when
what was read is not the pack. First the request: what `PutAll` sends is the
whole request and once, over http by what the buffer, `posts` and `almostdone`
are after each packet, and the wants and haves are read in it as they were
written (`RequestArrives`). Then the answer, for any pack, packets of any size,
progress anywhere and buffers of any sizes. What is left to read is a cut of what
is left of the pack (`Cuts`), with `under` before it; each read takes a front of
it, and packets and bytes left become fewer, so that `Most` reads are enough
(`DirectRead`, `SidebandRead`, `StepsEnd`). That is `AnswersArrive`. The one case
that is left out, version 1 with more than one have, is the one that fails in the
code (section 6), and the invariant of `Spec` says that no other is garbled.

**Delta** (`DeltaRoundTrip`). Integers are read as they are written
(`VariableRoundTrip`, `HeaderSizeRoundTrip`, and `OffsetRoundTrip` for offsets as git
writes them), by induction over their size. A copy is its bytes that are not
zero, and is read with as many (`CopyReads`); an insert of any length is read as
its pieces (`InsertReads`). What the calculator returns covers the target from
left to right, each copy with a place where the source has it
(`CalculatedReads`), by induction over what remains. A target that makes it slice
past its end is left out, as the program panics there.

**Packs**, types and content (`PacksTyped`, `PacksHoldObjects`). `Typed` adds to
`TypeOK` that entries are formed and follow one another, with sizes that are those
of their data, which is why no two are in one place. With a window of one object
at most, `Packed` says of each entry that it is the object asked for, whole or as
a delta of the one before it, and what the window has; that such a pack means
what was asked for is an induction over its entries, as `Meaning` is a fixed
point: each round knows at least what the one before did, and there are as many
as entries (`MeaningStands`).

**Packs**, reading (`UnpackIsTrue`, `PacksAreAccepted`, `IndexIsTrue`). `Reader`
says what is true of a reader between two steps: deltas wait in the order of the
file, `prior` has locations of settled entries only, each with the hash of what
the entry stands for, the cache has what entries stand for (`KnownRight`), and
what was stored, or could not be, is what settled entries stand for. It is
inductive because of what it does not say: bases that are not settled are not in
the locations that `prior` has, so that a chain stays among settled entries
(`ChainStays`), and whatever the cache has of them, following it reads what is
right or nothing (`FollowSound`). That it reads something needs that each base is
where it is looked for and no other is (`FollowKnows`). This is where `Once` comes
in: in a pack that has an object whole and again as a delta of a delta of it, the
second one takes its place in `prior`, and the chain goes round. For
`PacksAreAccepted` the bases of what waits first are then settled and found. For
`IndexIsTrue`, `Indexed` says that the tables have the offsets of what was read
and the hashes of what is settled, and that each entry of the fanout is the number
of settled entries up to that first byte; sorted, that number is the place of the
last of them (`FanoutIs`), so that the scan finds every entry of a hash
(`ScannedIs`), and chains are followed through the index as they were while it was
made.

Where data is defined by recursion, over contents, digits, packets or entries, the
proofs do not use the library's induction theorems, which take an operator as a
parameter and which no backend can instantiate. `LibraryLemmas` has them for sets
instead: a set that has an element whenever it has all of smaller measure has
all (`MeasureInduction`), a function may be defined at each argument by its
values at smaller ones (`MeasureRecursion`), and the set is named where it is
used.

Proved and not in a run: `LogLeads`, of which `CommitsRecoverable` is what it is for,
and `OldValuesRespected`, whose property is that of `refs_lost_update`, for one
process.

Model-checked only: `PublishedBecomesReadable`, which is liveness,
`FoldTakesNearest`, and the runs that fail.

## 6. What was found

The three runs of section 4 that fail are findings of `PROJECT.json`. The rest
below was met while the code was translated. Where a model has it, the property
that would show it states the limit in its premise, and the name of that property
is given.

Refs:

- Between the truncation and the write of a file its reader has an empty value.
  An empty HEAD reads as detached (updateref.go:124), and the commit is then
  written into HEAD, off every branch.
- `CommitRecoverable`: two processes that find a reflog missing both create it,
  and `os.Create` truncates (updateref.go:23-32, file.go:134): the second one
  empties it of the entry of the first, whose commit was reported as made. The
  comment at updateref.go:66 says "Safely updates ref [...] logging reason in the
  reflog".
- `UpdateRefSpec` may refuse after HEAD's reflog has the change
  (updateref.go:153-156). An update of a detached HEAD ignores the expected old
  value (updateref.go:160), and so does `update-ref -d` (updateref.go:109),
  whose flag is described as verifying it. `update-ref --create-reflog` sets
  `NoDeref` (cmd/updateref.go:25) and so detaches HEAD.
- Two `checkout -b` may both find the name free (checkout.go:132). `branch -m` to
  the name of the branch removes it (cmd/branch.go:89). A symbolic ref is logged
  before it is written and only when a log exists (symbolicref.go:71).

Objects and histories:

- `WriteObject` trusts a file that exists, whole or not. unpack-objects stores in
  the order of the pack (unpackobjects.go:55): killed, it leaves a commit without
  its trees, which every later look-up believes to be complete. A torn or empty
  index makes every look-up panic (indexpack.go:123).
- The nearest common ancestor may be an ancestor of another one
  (mergebase.go:78), and the fold of an octopus goes on from one of several
  common ancestors, so that it may end with none or with an error
  (mergebase.go:109). `merge-base --is-ancestor` asks in the reverse order
  (cmd/mergebase.go:39).
- A merge of several heads whose base is HEAD goes forward to the first of them
  only (merge.go:113). It moves index and work tree before a ref update that may
  fail (merge.go:120). One without conflicts is not committed (merge.go:229), and
  a path without one of its sides makes it panic (merge.go:184-188).
- rev-list leaves out subtrees of mode 40755 and lists the commits of gitlinks
  (sha1.go:709-712).

Index and work tree:

- `ForwardKeepsStaged`, `IndexLegal`: a fast-forward never looks above or below a
  path, and may keep a staged file where the new tree has a directory
  (readtree.go:442). A three-way merge drops a staged change of a path that
  theirs did not touch (readtree.go:211).
- `HeadMovedLast`, `ThreeWayRight`: a file two directories above a path of the new tree
  is not removed for it (checkoutindex.go:127-136), and the error is printed
  only (checkoutindex.go:324): the command succeeds without the file.
- `HardResetRestores`: neither does `reset --hard`, although the comment at
  lsfiles.go:188 says that `--killed` goes through each parent "until we find a
  directory". The next directory up ends in a slash (lsfiles.go:214), and `Lstat`
  of `a/` is an error when `a` is a file.
- `LocalKept`: a merge that leaves a path in conflict which ours has not writes the
  result of merge-file over an untracked file of that name (merge.go:213).
- `StagedKept`: checkout reads the staged changes before it moves the tree, and a
  path it cannot put back ends it (checkout.go:210). Checkout of some paths
  leaves an index of the whole tree (checkout.go:306-311).
- `reset --mixed` reads the tree with `Update` set and so overwrites local
  changes (reset.go:119). reset moves HEAD before it reads the tree, which may
  refuse (reset.go:115). The files that were in conflict are removed after the
  new ones were written (readtree.go:902); only `--hard` writes them again.
  reset of paths stops at the first path that is not in the work tree
  (reset.go:149).
- A command killed while it moves a tree leaves local changes that make its
  repetition refuse. A torn index cannot be read by `reset --hard` either.
- rm returns from inside its loop: the first path is removed, the others stay,
  and with `--cached` the index is not written at all (rm.go:96-106). A commit of
  named files leaves the index on disk as it was (commit.go:88-103).
- Every command reads the index, changes its copy and writes the file in place
  (add.go:132): of two at once one is lost. `update-index --index-info` starts
  from an empty index (updateindex.go:69). `write-tree --prefix=foo` takes
  `foobar` as well (writetree.go:32).
- clean: `-X` ignores `OnlyExcluded`, negated patterns exclude, and `-d` removes a
  directory with the ignored files in it.

Packs:

- `PackHoldsObjects`: the base of a delta is the address of the loop variable
  (packobjects.go:88, with the Go 1.14 of go.mod), so that with a window of more
  than one object the entry names the last one tried. An offset is written lowest
  digit first (packobjects.go:107) and read highest first, with one added for
  each: they agree below 128.
- `UnpackTrue`: without `-r`, unpack-objects looks at neither the error of reading a
  delta nor that of writing it (unpackobjects.go:152-168): it stores what could be
  read, or nothing, and ends well. With `-r`, which is to "continue when dealing
  with a corrupt packfile" (cmd/unpackobjects.go:25), every delta is left out, of
  good packs too.
- `Accepts`, `IndexTrue`: when an object is resolved a second time, its place in
  `priorObjects` is overwritten (indexpack.go:703). In a pack that has an object
  whole and again as a delta of a delta of it, chains then go round, and the
  reader recurses without end once the cache has forgotten it.
- `calculate` looks for the next prefix in the whole content instead of what
  remains, and panics when it lies beyond it (calculator.go:101-107). The search
  of the longest prefix by halves may miss it. A copy of more than 0xffffff bytes
  is not written as it should be; the source has a FIXME for it.
- `IndexTrue`: an offset past 2^31 has its flag cleared and tested again
  (indexpack.go:140), and the table of such offsets is not read. A delta by hash
  whose base is a later delta, or missing, is refused. `GetObject` runs below the
  table when an object that would be the first is missing (indexpack.go:454).

Transfer:

- Version 1 fetches nothing and succeeds when the config says
  `refs/heads/*`, which remote-add writes. It reads one line more than the
  remote sends for each have when there are several (fetchpack.go:303-311), so
  that the pack has lost its start. Version 2 panics when the first line is not
  `packfile` (fetchpack.go:193).
- The report of a push is copied to the terminal and not read (sendpack.go:158):
  a push that was refused succeeds. `--set-upstream` writes the config before the
  push is tried (push.go:70). A new config is created after the old one was
  removed (config.go:341), and the last character is lost of a config that does
  not end with a line.
- A clone that fails leaves its directory, and the repetition refuses to write
  into it. A clone of a remote without branches fails.

## 7. What is not modelled

- **Revert** is a diff of two trees, turned round, and applied by an external
  program, after REVERT_HEAD was written; **pull** is a fetch and a merge. Both
  are calls, one after the other, of what the modules have, and stop at the first
  that fails.
- **Tags** are refs that nothing in the code moves; **reflog expire**,
  `symbolic-ref -d` and `update-ref -d HEAD` are left out of `Refs`.
- **Names of revisions and lists of refs**, **diff, status, log, show, ls-files,
  cat-file, grep, fsck, archive** read one state and print it.
- **Ignore patterns, the config file, the text of an advertisement** are matching
  and parsing of characters. What follows from a match or from a value is in
  `WorkTree` and `Transfer`.
- **apply, merge-file and diff3** call external programs on copies of files.
- **Sparse checkout, modes, stat data, forbidden names** are conditions that take
  paths out of what read-tree does; the paths of `WorkTree` are those they leave.
- **Checksums and compression**: a stream is whole or cut; a hash is an identity.
- **Files, passwords, ssh, editor, terminal, progress, flags and the vendored
  zlib** are calls of the system, dispatch, or code of others.

Two limits of the models are worth knowing. A rename and the write of a short
file are one step and are durable at once: nothing in the code calls `fsync`, and
a crash of the machine, as against a kill, may undo more than any model here has.
And `WorkTree` runs one command at a time: two that share an index lose one of
two changes, as section 6 says, and no property would hold of them.

Out of the prover's reach is the liveness of `objects_fetch`; TLC checks it on
the instance above.
