------------------------------- MODULE Packs -------------------------------
(***************************************************************************)
(* A pack file as it is written and read: pack-objects                     *)
(* (src/git/packobjects.go), index-pack (indexpack.go, packiterator.go),   *)
(* unpack-objects (unpackobjects.go), and the look-ups in an index.        *)
(*                                                                         *)
(* The pack is one that this program writes (own) or that git sends.  It   *)
(* is read entry by entry; deltas wait in a queue until all entries are    *)
(* known and are then resolved in the order of the file, from the locations*)
(* that `prior' has for hashes (priorObjects) and through a cache that may *)
(* lose what it has at any time.  ObjectStore has the files this leaves.   *)
(***************************************************************************)
EXTENDS Delta

CONSTANTS
  Object,     \* the hashes of objects, numbered in their order
  Unknown,    \* the hash of anything else, after all of them
  Kind, Content, First,  \* of each object; First is the first byte of a hash
  LastByte,   \* the last value of a byte: 255
  HeaderLen,  \* where the first entry is: 12
  HashLen,    \* the bytes of a hash: 20
  Far,        \* the first location four bytes of an index cannot have: 2^31
  Window,     \* sizes of the window of pack-objects
  Wanted,     \* sequences of objects to pack
  Sent        \* packs that git sends, as sequences of [id, how, of]

ASSUME ObjectAssumption ==
  /\ Object \in SUBSET Nat /\ IsFiniteSet(Object) /\ Unknown \in Nat /\ \A o \in Object : o < Unknown
  /\ DOMAIN Kind = Object /\ Range(Kind) \cap {"ref", "ofs", "none"} = {}
  /\ Content \in [Object -> Seq(Nat)]
  /\ \A a, b \in Object : Kind[a] = Kind[b] /\ Content[a] = Content[b] => a = b
  /\ LastByte \in Nat /\ First \in [Object \cup {Unknown} -> 0..LastByte]
  /\ \A a, b \in Object \cup {Unknown} : a <= b => First[a] <= First[b]

\* What is packed is listed once, and git has the bases of deltas by location
\* before them; no pack is empty.
ASSUME PacksAssumption ==
  /\ Window \in SUBSET Nat /\ HeaderLen \in Nat \ {0} /\ HashLen \in Nat /\ Far \in Nat
  /\ \A w \in Wanted : /\ w \in Seq(Object) /\ w # <<>>
                       /\ \A j, k \in 1..Len(w) : j # k => w[j] # w[k]
  /\ \A s \in Sent : /\ s \in Seq([id : Object, how : {"full", "ref", "ofs"}, of : Object]) /\ s # <<>>
                     /\ \A k \in 1..Len(s) : s[k].how = "ofs" => \E j \in 1..k - 1 : s[j].id = s[k].of

\* The calculator does not split a copy: no Byte^3 symbols of one content are
\* in another.
ASSUME CopyAssumption ==
  \A a, b \in Object : a # b =>
    /\ Len(Content[a]) <= Byte * Byte * Byte * Byte
    /\ \A i \in Byte * Byte * Byte..Len(Content[b]) :
         ~Occurs(Content[a], SubSeq(Content[b], i - Byte * Byte * Byte + 1, i))

VARIABLES
  opts,       \* the options of the commands
  phase,      \* pack, read, resolve, done
  outcome,    \* how it ended
  todo,       \* objects not packed yet
  window,     \* packWindow
  pack,       \* the entries of the file
  read,       \* how many of them were read
  deltas,     \* those of them that wait
  prior,      \* priorObjects: hash to location, 0 for a base not seen yet
  cache,      \* ocache: the deltas it has resolved, by location
  failed,     \* the error unpack-objects -r goes on from
  index,      \* PackfileIndexV2
  stored,     \* objects unpack-objects wrote
  lost        \* objects it could not write and went on without

vars == <<opts, phase, outcome, todo, window, pack, read, deltas, prior, cache, failed, index, stored, lost>>

-----------------------------------------------------------------------------
(* Entries.                                                                *)

Kinds == Range(Kind)
ObjectOf(o) == [kind |-> Kind[o], content |-> Content[o]]
Nothing == [kind |-> "none", content |-> Bad]

\* HashReaderWithSize and WriteObject: the hash of an object.
IdOf(v) == IF \E o \in Object : ObjectOf(o) = v THEN CHOOSE o \in Object : ObjectOf(o) = v ELSE Unknown

IsDelta(e) == e.type \notin Kinds
SizeOf(e) == IF IsDelta(e) THEN Len(e.data.size) + Len(e.data.code) ELSE Len(e.data)

\* What is added to pos for an entry; deflating adds one at most.
Length(e) ==
  Len(e.size) + (CASE e.type = "ref" -> HashLen [] e.type = "ofs" -> Len(e.back) [] OTHER -> 0) + SizeOf(e) + 1

End(p) == IF p = <<>> THEN HeaderLen ELSE Last(p).loc + Length(Last(p))

Sized(e) == [e EXCEPT !.size = WriteVariable(SizeOf(e))]
Entry(at, type, ref, back, data) ==
  Sized([loc |-> at, type |-> type, size |-> <<>>, ref |-> ref, back |-> back, data |-> data])
Full(at, o) == Entry(at, Kind[o], Unknown, <<>>, Content[o])

Locations == {pack[k].loc : k \in 1..Len(pack)}
EntryAt(loc) == pack[CHOOSE k \in 1..Len(pack) : pack[k].loc = loc]
Before(e) == e.loc - ReadDeltaOffset(e.back)

\* What git sends: deltas of its own making, with offsets as it writes them.
SentDelta(from, to) ==
  IF Panics(Content[from], Content[to])
  THEN [size |-> Uvarint[Len(Content[to])], code |-> WriteInsert[Content[to]]]
  ELSE WriteDelta(Content[from], Content[to])
SentPack(plan) ==
  LET Place(p, id) == CHOOSE k \in 1..Len(p) : plan[k].id = id
      Add(p, s) ==
        CASE s.how = "full" -> Full(End(p), s.id)
          [] s.how = "ref" -> Entry(End(p), "ref", s.of, <<>>, SentDelta(s.of, s.id))
          [] s.how = "ofs" -> Entry(End(p), "ofs", Unknown, GitOffset[End(p) - p[Place(p, s.of)].loc],
                                    SentDelta(s.of, s.id))
      Upto[k \in 0..Len(plan)] ==
        IF k = 0 THEN <<>> ELSE LET p == Upto[k - 1] IN Append(p, Add(p, plan[k]))
  IN Upto[Len(plan)]

\* What a delta makes of its base.
Made(e, base, content) == IF SizeIsRight(e.data, content) THEN [base EXCEPT !.content = content] ELSE Nothing
Applied(e, base) == Made(e, base, ReadAll(e.data, base.content))

\* What an entry of p stands for when it is known what some of them do: a
\* delta follows its base, by location or by hash.
StandsFor(p, e, known) ==
  LET right == {b \in {known[j] : j \in {j \in 1..Len(p) : e.type = "ofs" => p[j].loc = Before(e)}} :
                  b # Nothing /\ (e.type = "ref" => IdOf(b) = e.ref)}
  IN IF ~IsDelta(e) THEN [kind |-> e.type, content |-> e.data]
     ELSE IF right = {} THEN Nothing ELSE Applied(e, CHOOSE b \in right : TRUE)

\* What the entries stand for, whoever reads them and wherever the bases are:
\* deltas of deltas are known one round later.
MeaningOf(p) ==
  LET Known[n \in 0..Len(p)] ==
        [k \in 1..Len(p) |-> IF n = 0 THEN Nothing ELSE StandsFor(p, p[k], Known[n - 1])]
  IN Known[Len(p)]
Meaning == MeaningOf(pack)
Holds == {IdOf(Meaning[k]) : k \in 1..Len(pack)} \ {Unknown}

-----------------------------------------------------------------------------
(* pack-objects.                                                           *)

Init ==
  /\ opts \in [own : BOOLEAN, use : {"index", "unpack"}, recover : BOOLEAN, window : Window, ofs : BOOLEAN]
  /\ opts.recover => opts.use = "unpack"
  /\ IF opts.own THEN todo \in Wanted /\ pack = <<>>
     ELSE /\ todo = <<>> /\ pack \in {SentPack(s) : s \in Sent}
          /\ ~opts.ofs /\ opts.window = 0
  /\ phase = "pack" /\ outcome = "running" /\ window = <<>> /\ read = 0 /\ deltas = <<>>
  /\ prior = <<>> /\ cache = <<>> /\ failed = FALSE /\ stored = {} /\ lost = {}
  /\ index = [ids |-> <<>>, four |-> <<>>, eight |-> <<>>, fanout |-> [b \in 0..LastByte |-> 0]]

Stop(how) == phase' = "done" /\ outcome' = how

\* Bug: the kinds are not compared.
Tried_Any(o) == Range(window)

\* The window objects a delta is calculated against.
Tried(o) == {w \in Range(window) : Kind[w.id] = Kind[o]}

\* ref is the address of the loop's variable, which goes on to the last object
\* of the window; the offset is written as any other integer.
DeltaEntry(o, w) ==
  LET ref == Last(window)
      delta == WriteDelta(Content[w.id], Content[o])
  IN IF opts.ofs THEN Entry(End(pack), "ofs", Unknown, Uvarint[End(pack) - ref.loc], delta)
     ELSE Entry(End(pack), "ref", ref.id, <<>>, delta)

Slide(item) ==
  IF Len(pack) < opts.window THEN Append(window, item)
  ELSE IF opts.window = 0 THEN window
  ELSE [window EXCEPT ![(Len(pack) % opts.window) + 1] = item]

\* One object: whole, or as any of the deltas that are shorter.  Which are
\* shorter depends on bytes this leaves out.
PackObject ==
  /\ phase = "pack" /\ todo # <<>>
  /\ \E e \in {Full(End(pack), Head(todo))} \cup
              {DeltaEntry(Head(todo), w) : w \in {w \in Tried(Head(todo)) : ~Panics(Content[w.id], Content[Head(todo)])}} :
       pack' = Append(pack, e)
  /\ window' = Slide([id |-> Head(todo), loc |-> End(pack)])
  /\ todo' = Tail(todo)
  /\ UNCHANGED <<opts, phase, outcome, read, deltas, prior, cache, failed, index, stored, lost>>

\* The calculator slices past the end of what remains.
PackPanics ==
  /\ phase = "pack" /\ todo # <<>>
  /\ \E w \in Tried(Head(todo)) : Panics(Content[w.id], Content[Head(todo)])
  /\ Stop("panic")
  /\ UNCHANGED <<opts, todo, window, pack, read, deltas, prior, cache, failed, index, stored, lost>>

-----------------------------------------------------------------------------
(* Reading the entries.                                                    *)

\* iteratePack reads the header; the callback makes the tables.
Open ==
  /\ phase = "pack" /\ todo = <<>>
  /\ phase' = "read"
  /\ index' = IF opts.use = "index" THEN [index EXCEPT !.ids = [k \in 1..Len(pack) |-> Unknown]] ELSE index
  /\ UNCHANGED <<opts, outcome, todo, window, pack, read, deltas, prior, cache, failed, stored, lost>>

Reading(types) == phase = "read" /\ read < Len(pack) /\ pack[read + 1].type \in types
This == pack[read + 1]

\* FourByteOffsets and EightByteOffsets.
Located(i, loc) ==
  IF loc < Far THEN [i EXCEPT !.four = Append(@, [far |-> FALSE, val |-> loc])]
  ELSE [i EXCEPT !.four = Append(@, [far |-> TRUE, val |-> Len(i.eight)]), !.eight = Append(@, loc)]

\* Bug: the count of the first byte itself is left as it is.
Hashed_Above(i, k, id) ==
  [i EXCEPT !.ids[k] = id, !.fanout = [b \in 0..LastByte |-> @[b] + (IF b > First[id] THEN 1 ELSE 0)]]

\* updateFanout, of the k-th entry.
Hashed(i, k, id) ==
  [i EXCEPT !.ids[k] = id, !.fanout = [b \in 0..LastByte |-> @[b] + (IF b >= First[id] THEN 1 ELSE 0)]]

Noted == index' = IF opts.use = "index" THEN Located(index, This.loc) ELSE index

\* Bug: where the entry ends, not where it starts.
Placed_End(id, loc) ==
  [h \in DOMAIN prior \cup {id} |-> IF h = id THEN loc + Length(EntryAt(loc)) ELSE prior[h]]
\* Bug: a placeholder stays one.
Placed_First(id, loc) == [h \in DOMAIN prior \cup {id} |-> IF h \in DOMAIN prior THEN prior[h] ELSE loc]

\* A placeholder gets its location.
Placed(id, loc) == [h \in DOMAIN prior \cup {id} |-> IF h = id THEN loc ELSE prior[h]]

ReadFull ==
  /\ Reading(Kinds)
  /\ LET v == [kind |-> This.type, content |-> This.data]
     IN /\ prior' = Placed(IdOf(v), This.loc)
        /\ IF opts.use = "index"
           THEN index' = Hashed(Located(index, This.loc), read + 1, IdOf(v)) /\ UNCHANGED stored
           ELSE stored' = stored \cup {v} /\ UNCHANGED index
  /\ read' = read + 1
  /\ UNCHANGED <<opts, phase, outcome, todo, window, pack, deltas, cache, failed, lost>>

\* A whole object that unpack-objects cannot write is an error.
WriteFails ==
  /\ Reading(Kinds) /\ opts.use = "unpack"
  /\ Stop("unwritten")
  /\ UNCHANGED <<opts, todo, window, pack, read, deltas, prior, cache, failed, index, stored, lost>>

\* A base that was not seen gets a placeholder.
ReadRef ==
  /\ Reading({"ref"})
  /\ prior' = [h \in DOMAIN prior \cup {This.ref} |-> IF h \in DOMAIN prior THEN prior[h] ELSE 0]
  /\ deltas' = Append(deltas, read + 1)
  /\ read' = read + 1
  /\ Noted
  /\ UNCHANGED <<opts, phase, outcome, todo, window, pack, cache, failed, stored, lost>>

\* A base that was not seen is a panic.
ReadOfs ==
  /\ Reading({"ofs"})
  /\ Noted
  /\ IF \E k \in 1..read : pack[k].loc = Before(This)
     THEN deltas' = Append(deltas, read + 1) /\ read' = read + 1 /\ UNCHANGED <<phase, outcome>>
     ELSE Stop("panic") /\ UNCHANGED <<deltas, read>>
  /\ UNCHANGED <<opts, todo, window, pack, prior, cache, failed, stored, lost>>

\* The stream ends early, in an entry or before the trailer.
Cut ==
  /\ phase = "read"
  /\ Stop("cut")
  /\ UNCHANGED <<opts, todo, window, pack, read, deltas, prior, cache, failed, index, stored, lost>>

ReadTrailer ==
  /\ phase = "read" /\ read = Len(pack)
  /\ phase' = "resolve"
  /\ UNCHANGED <<opts, outcome, todo, window, pack, read, deltas, prior, cache, failed, index, stored, lost>>

-----------------------------------------------------------------------------
(* Resolving the deltas.                                                   *)

BaseOf(e) == IF e.type = "ofs" THEN Before(e) ELSE prior[e.ref]

\* What is read at a location: nothing where no entry is, as at location 0,
\* where the file has its signature.
At(values, loc) == IF loc \in Locations THEN values[loc] ELSE Nothing

\* An entry that is read to its end, on the base that is read.
Resolved(e, base) ==
  LET content == ReadAll(e.data, base.content)
  IN IF ~IsDelta(e) THEN [kind |-> e.type, content |-> IF ReadHeaderSize(e.size) = 0 THEN <<>> ELSE e.data]
     ELSE IF base = Nothing \/ content = Bad THEN Nothing
     ELSE [base EXCEPT !.content = content]

\* A chain of deltas is followed from base to base, to what is known or whole.
\* One of more deltas than there are entries has no end, and no value.
Follow(loc, known, bases) ==
  LET Value[n \in 0..Len(pack) + 1] ==
        [l \in Locations |-> IF l \in DOMAIN known THEN known[l]
                             ELSE IF n = 0 THEN Nothing
                             ELSE Resolved(EntryAt(l), At(Value[n - 1], bases[l]))]
  IN At(Value[Len(pack) + 1], loc)

\* getObjectAtOffsetForIndexing.
ValueAt(loc) == Follow(loc, cache, [l \in Locations |-> BaseOf(EntryAt(l))])

\* The deltas that are resolved on the way.
Chain(loc) ==
  LET Unread(l) == l \in Locations \ DOMAIN cache /\ IsDelta(EntryAt(l))
      Way[n \in 0..Len(pack)] ==
        IF n = 0 THEN loc ELSE IF Unread(Way[n - 1]) THEN BaseOf(EntryAt(Way[n - 1])) ELSE Way[n - 1]
  IN {l \in {Way[n] : n \in 0..Len(pack)} : Unread(l)}

\* What of those the counts of deltas have it cache, and what it drops, may be
\* anything.
Cached(locs) ==
  \E kept \in SUBSET (DOMAIN cache \cup {l \in locs : ValueAt(l) # Nothing}) :
    cache' = [l \in kept |-> ValueAt(l)]

Resolving == phase = "resolve" /\ deltas # <<>>
Waiting == pack[Head(deltas)]
BaseValue == ValueAt(BaseOf(Waiting))
\* What is read of the delta, and whether without an error.
Result == ReadCode(Waiting.data.code, BaseValue.content)
ResultValue == [BaseValue EXCEPT !.content = Result.content]

\* The base has an error.  With -r the next delta is tried.
NoBase ==
  /\ Resolving /\ BaseValue = Nothing
  /\ IF opts.recover THEN failed' = TRUE /\ deltas' = Tail(deltas) /\ UNCHANGED <<phase, outcome>>
     ELSE Stop("error") /\ UNCHANGED <<failed, deltas>>
  /\ Cached(Chain(BaseOf(Waiting)))
  /\ UNCHANGED <<opts, todo, window, pack, read, prior, index, stored, lost>>

\* index-pack: the size is checked, the hash is known from now on.
IndexDelta ==
  /\ Resolving /\ opts.use = "index" /\ BaseValue # Nothing
  /\ IF Result.ok /\ SizeIsRight(Waiting.data, Result.content)
     THEN /\ index' = Hashed(index, Head(deltas), IdOf(ResultValue))
          /\ prior' = Placed(IdOf(ResultValue), Waiting.loc)
          /\ deltas' = Tail(deltas)
          /\ Cached(Chain(Waiting.loc))
          /\ UNCHANGED <<phase, outcome>>
     ELSE Stop("error") /\ UNCHANGED <<index, prior, deltas, cache>>
  /\ UNCHANGED <<opts, todo, window, pack, read, failed, stored, lost>>

\* Bug: what priorObjects knows is thought to be stored, placeholders too.
UnpackDelta_Known ==
  /\ Resolving /\ opts.use = "unpack" /\ ~opts.recover /\ BaseValue # Nothing
  /\ stored' = IF IdOf(ResultValue) \in DOMAIN prior THEN stored ELSE stored \cup {ResultValue}
  /\ prior' = Placed(IdOf(ResultValue), Waiting.loc)
  /\ deltas' = Tail(deltas)
  /\ Cached(Chain(BaseOf(Waiting)))
  /\ UNCHANGED <<opts, phase, outcome, todo, window, pack, read, failed, index, lost>>

\* unpack-objects: an error of the last reading is not looked at, and neither
\* is one of writing, after which no base is noted.
UnpackDelta ==
  /\ Resolving /\ opts.use = "unpack" /\ ~opts.recover /\ BaseValue # Nothing
  /\ \/ /\ stored' = stored \cup {ResultValue}
        /\ prior' = Placed(IdOf(ResultValue), Waiting.loc)
        /\ UNCHANGED lost
     \/ /\ lost' = lost \cup {ResultValue}
        /\ UNCHANGED <<stored, prior>>
  /\ deltas' = Tail(deltas)
  /\ Cached(Chain(BaseOf(Waiting)))
  /\ UNCHANGED <<opts, phase, outcome, todo, window, pack, read, failed, index>>

\* unpack-objects -r goes on whether or not there was an error, and forgets
\* an earlier one.
SkipDelta ==
  /\ Resolving /\ opts.recover /\ BaseValue # Nothing
  /\ failed' = ~Result.ok
  /\ deltas' = Tail(deltas)
  /\ Cached(Chain(BaseOf(Waiting)))
  /\ UNCHANGED <<opts, phase, outcome, todo, window, pack, read, prior, index, stored, lost>>

\* The tables are sorted by hash, all but the eight-byte one, and written; the
\* sort may leave equal ones in any order.
Finish ==
  /\ phase = "resolve" /\ deltas = <<>>
  /\ Stop(IF failed THEN "error" ELSE "ok")
  /\ IF opts.use = "unpack" THEN UNCHANGED index
     ELSE \E order \in Bijection(1..Len(pack), 1..Len(pack)) :
            /\ \A a, b \in 1..Len(pack) : a < b => index.ids[order[a]] <= index.ids[order[b]]
            /\ index' = [index EXCEPT !.ids = [k \in 1..Len(pack) |-> index.ids[order[k]]],
                                      !.four = [k \in 1..Len(pack) |-> index.four[order[k]]]]
  /\ UNCHANGED <<opts, todo, window, pack, read, deltas, prior, cache, failed, stored, lost>>

Next ==
  \/ PackObject \/ PackPanics \/ Open
  \/ ReadFull \/ WriteFails \/ ReadRef \/ ReadOfs \/ Cut \/ ReadTrailer
  \/ NoBase \/ IndexDelta \/ UnpackDelta \/ SkipDelta \/ Finish

Spec == Init /\ [][Next]_vars

-----------------------------------------------------------------------------
(* Looking up an object in the index that was written.                     *)

\* The entries of the table with the first byte of s, from the last back.
Scanned(s) ==
  LET fanout == index.fanout[First[s]]
      start == IF fanout = 0 THEN 1 ELSE fanout
  IN {k \in 1..start : \A j \in k..start : First[index.ids[j]] = First[s]}
HasObject(s) == \E k \in Scanned(s) : index.ids[k] = s

\* GetObject: the last entry of s.
Found(s) == CHOOSE k \in Scanned(s) : index.ids[k] = s /\ \A j \in Scanned(s) : index.ids[j] = s => j <= k

\* v2PackIndexHasSha1 takes the flag off and looks at it again: the eight-byte
\* table is not read, and a far object is thought to be at 0.
OffsetOf(s) == IF index.four[Found(s)].far THEN 0 ELSE index.four[Found(s)].val

\* getObjectAtOffset.
ObjectAt(loc) ==
  Follow(loc, <<>>, [l \in Locations |-> LET e == EntryAt(l) IN IF e.type = "ofs" THEN Before(e) ELSE OffsetOf(e.ref)])

-----------------------------------------------------------------------------
(* What should hold.                                                       *)

Done(use) == phase = "done" /\ outcome = "ok" /\ opts.use = use

\* Types; and what `prior' and the cache know are entries that were read.
TypeOK ==
  /\ phase \in {"pack", "read", "resolve", "done"}
  /\ outcome \in {"running", "ok", "error", "panic", "cut", "unwritten"}
  /\ (outcome = "running") = (phase # "done")
  /\ read \in 0..Len(pack) /\ Range(deltas) \subseteq 1..read
  /\ DOMAIN prior \subseteq Object \cup {Unknown}
  /\ Range(prior) \subseteq {0} \cup {pack[k].loc : k \in 1..read}
  /\ DOMAIN cache \subseteq {pack[k].loc : k \in 1..read}
  /\ \A k \in 1..Len(pack) - 1 : pack[k].loc < pack[k + 1].loc
  /\ stored \cup lost \subseteq [kind : Kinds, content : Seq(Nat)]

\* Whoever reads a pack this program wrote finds in it the objects asked for,
\* entry by entry ("Writes a packfile to w of the objects objects").
PackFaithful ==
  (opts.own /\ phase \in {"read", "resolve"})
    => \E w \in Wanted : Len(w) = Len(pack) /\ \A k \in 1..Len(pack) : Meaning[k] = ObjectOf(w[k])

\* It holds with a window of at most one object, which is what send-pack asks
\* for, as long as the offsets in the pack are below Group: later ones are
\* written in one encoding and read in another.
PackHoldsObjects ==
  (opts.window <= 1 /\ \A k \in 1..Len(pack) : \A d \in Range(pack[k].back) : ~d.more) => PackFaithful

\* No object is in the pack twice.  With a delta of what it is itself the base
\* of, the chains of deltas may have no end.
Once == LET m == Meaning IN \A j, k \in 1..Len(pack) : j # k => m[j] # m[k]

\* An index that index-pack wrote has exactly the objects of the pack, and
\* what is looked up in it is read back as it was: any object of a pack that
\* has each once and ends before Far, and whole ones that start before.
IndexTrue ==
  Done("index") =>
    /\ \A o \in Object : HasObject(o) <=> o \in Holds
    /\ Once =>
         \A k \in 1..Len(pack) :
           (IdOf(Meaning[k]) # Unknown /\ pack[k].loc < Far /\ (~IsDelta(pack[k]) \/ End(pack) <= Far))
             => ObjectAt(OffsetOf(IdOf(Meaning[k]))) = Meaning[k]

\* unpack-objects stores only what the pack holds, and when it ends well, -r
\* apart, each object it has not stored is one it could not write: the error of
\* WriteObject for a delta is not looked at (unpackobjects.go:158).  Neither is the
\* error of reading one, so that of a pack some entry of which has no meaning
\* parts of a delta may be stored: such packs are not meant.
UnpackTrue ==
  (opts.use = "unpack" /\ Nothing \notin Range(Meaning)) =>
    /\ stored \subseteq Range(Meaning)
    /\ (Done("unpack") /\ ~opts.recover) => stored \cup lost = Range(Meaning)

\* A pack that has each object once is read to its end, wherever the bases of
\* its deltas are, whole ones after them included; with -r deltas are skipped,
\* and what could not be written is no base.
\* A base that is itself a delta must come first.
Accepts ==
  (/\ phase = "done" /\ outcome \notin {"cut", "unwritten"} /\ lost = {} /\ todo = <<>> /\ ~opts.recover
   /\ Nothing \notin Range(Meaning) /\ Once
   /\ \A k \in 1..Len(pack) :
        pack[k].type = "ref" =>
          \E j \in 1..Len(pack) : IdOf(Meaning[j]) = pack[k].ref /\ (j < k \/ ~IsDelta(pack[j])))
    => outcome = "ok"

=============================================================================
