-------------------------------- MODULE Wire --------------------------------
(***************************************************************************)
(* The framing of a fetch: the request as a connection writes it           *)
(* (src/git/httpconn.go, gitconn.go, localconn.go, sshconn.go) and the     *)
(* answer as packProtocolReader reads it (fetchpack.go).                   *)
(*                                                                         *)
(* What goes over a connection is a sequence of packets; bytes matter only *)
(* where a packet has more of them than the buffer of the reader.          *)
(***************************************************************************)
EXTENDS Naturals, SequencesExt

Flush == [type |-> "flush", of |-> <<>>]
Delim == [type |-> "delim", of |-> <<>>]
Line(l) == [type |-> "line", of |-> l]
Progress == [type |-> "progress", of |-> <<>>]
Raw(d) == [type |-> "raw", of |-> d]    \* bytes that are in no packet
Done == Line(<<"done">>)

-----------------------------------------------------------------------------
(* Writing.                                                                *)

\* http collects what is written in buf; posts are the requests it has made.
\* The others have no buffer: what they write is sent.
Connection(http, version) ==
  [http |-> http, version |-> version, buf |-> <<>>, posts |-> <<>>, almostdone |-> FALSE]

SendRequest(conn) == [conn EXCEPT !.posts = Append(@, conn.buf)]

\* Version 1 ends with "done", version 2 with a flush after it.
HttpWrite(conn, p) ==
  LET w == [conn EXCEPT !.buf = Append(@, p)]
  IN IF conn.version # 2 /\ p = Done THEN [SendRequest(w) EXCEPT !.almostdone = FALSE] ELSE w

\* Bug: almostdone is not looked at.
HttpFlush_Always(conn) == SendRequest([conn EXCEPT !.buf = Append(@, Flush)])

HttpFlush(conn) ==
  LET w == [conn EXCEPT !.buf = Append(@, Flush)]
  IN IF conn.almostdone /\ conn.version = 1 THEN w ELSE SendRequest(w)

StreamWrite(conn, p) == [conn EXCEPT !.posts = <<Append(conn.buf, p)>>, !.buf = Append(@, p)]

Put(conn, p) ==
  IF ~conn.http THEN StreamWrite(conn, p) ELSE IF p = Flush THEN HttpFlush(conn) ELSE HttpWrite(conn, p)

\* What fetchPackDone writes.
Wants(W) == [k \in 1..Len(SetToSeq(W)) |-> Line(<<"want", SetToSeq(W)[k]>>)]
Haves(H) == [k \in 1..Len(SetToSeq(H)) |-> Line(<<"have", SetToSeq(H)[k]>>)]
RequestV2(W, H) ==
  <<Line(<<"fetch">>), Delim, Line(<<"ofs-delta">>)>> \o Wants(W) \o Haves(H) \o <<Done, Flush>>
RequestV1(W, H) == Wants(W) \o <<Flush>> \o Haves(H) \o <<Done>>

\* The connection after packets were written.
PutAll(conn, packets) ==
  LET after[k \in 0..Len(packets)] == IF k = 0 THEN conn ELSE Put(after[k - 1], packets[k])
  IN after[Len(packets)]

\* The connection after the request.
Requested(http, version, W, H) ==
  IF version = 2 THEN PutAll(Connection(http, 2), RequestV2(W, H))
  ELSE PutAll([Connection(http, 1) EXCEPT !.almostdone = http], RequestV1(W, H))

-----------------------------------------------------------------------------
(* The answer of git.                                                      *)

\* What git reads in a request.
Understood(post) ==
  LET lines == {post[k].of : k \in {k \in 1..Len(post) : post[k].type = "line"}}
      Ids(word) == {l[2] : l \in {l \in lines : l[1] = word}}
  IN [wants |-> Ids("want"), haves |-> Ids("have"), done |-> Done \in {post[k] : k \in 1..Len(post)}]

Split(d, size) ==
  [k \in 1..((Len(d) + size - 1) \div size) |->
     SubSeq(d, (k - 1) * size + 1, IF k * size < Len(d) THEN k * size ELSE Len(d))]

\* One line, whatever was had, for a client that has not asked for multi_ack;
\* progress when git likes; the pack in packets of some size, or, without a
\* sideband, as it is.
Answer(version, sideband, progress, size, file) ==
  LET pieces == Split(file, size)
      packets == [k \in 1..Len(pieces) |-> [type |-> "data", of |-> pieces[k]]]
  IN <<Line(<<IF version = 2 THEN "packfile" ELSE "NAK">>)>>
     \o IF sideband THEN [k \in 1..progress |-> Progress] \o packets \o <<Flush>> ELSE <<Raw(file)>>

-----------------------------------------------------------------------------
(* Reading.                                                                *)

Reader(mode, packets) == [mode |-> mode, rest |-> packets, under |-> <<>>]
Got(r, data) == [reader |-> r, data |-> data, err |-> "none"]
Fails(r, err) == [reader |-> r, data |-> <<>>, err |-> err]

\* Bug: what does not fit is dropped when the buffer is full.
ReadUnder_Once(r, n) ==
  IF n > Len(r.under) THEN Got([r EXCEPT !.under = <<>>], r.under)
  ELSE Got([r EXCEPT !.under = <<>>], SubSeq(r.under, 1, n))

\* underreadBuf has what the last buffer was too small for.
ReadUnder(r, n) ==
  IF n > Len(r.under) THEN Got([r EXCEPT !.under = <<>>], r.under)
  ELSE Got([r EXCEPT !.under = SubSeq(@, n + 1, Len(@))], SubSeq(r.under, 1, n))

Past(r) == [r EXCEPT !.rest = Tail(@)]

ReadDirect(r, n) ==
  LET d == Head(r.rest).of
  IN IF r.rest = <<>> THEN Fails(r, "eof")
     ELSE IF n >= Len(d) THEN Got(Past(r), d)
     ELSE Got([r EXCEPT !.rest = <<Raw(SubSeq(d, n + 1, Len(d)))>> \o Tail(@)], SubSeq(d, 1, n))

\* In both modes: what a packet is that has no data, or is none.
Ends(r) ==
  IF r.rest = <<>> THEN Fails(r, "eof")
  ELSE IF Head(r.rest).type = "raw" THEN Fails(r, "size")
  ELSE Fails(Past(r), Head(r.rest).type)

\* A packet with its channel, if it has one.  The buffer has room for any.
ReadLine(r) ==
  IF r.rest = <<>> \/ Head(r.rest).type \in {"raw", "flush", "delim"} THEN Ends(r)
  ELSE Got(Past(r), Head(r.rest).of)

\* Progress is printed, and the next packet read.
ReadSideband(r, n) ==
  LET first == SelectInSeq(r.rest, LAMBDA p : p.type # "progress")
      at == [r EXCEPT !.rest = IF first = 0 THEN <<>> ELSE SubSeq(@, first, Len(@))]
      d == Head(at.rest).of
  IN IF at.rest = <<>> \/ Head(at.rest).type # "data" THEN Ends(at)
     ELSE IF n < Len(d) THEN Got([Past(at) EXCEPT !.under = SubSeq(d, n + 1, Len(d))], SubSeq(d, 1, n))
     ELSE Got(Past(at), d)

Read(r, n) ==
  IF r.under # <<>> THEN ReadUnder(r, n)
  ELSE CASE r.mode = "direct" -> ReadDirect(r, n)
         [] r.mode = "line" -> ReadLine(r)
         [] r.mode = "sideband" -> ReadSideband(r, n)

\* k lines, for what they hold.
ReadLines(r, k) ==
  LET read[i \in 0..k] ==
        IF i = 0 THEN Got(r, <<>>) ELSE IF read[i - 1].err = "none" THEN ReadLine(read[i - 1].reader) ELSE read[i - 1]
  IN read[k]

\* One read more, into a buffer of n bytes, of what was read into x.
ReadMore(x, n) ==
  LET y == Read(x.reader, n) IN IF x.err = "none" THEN [y EXCEPT !.data = x.data \o @] ELSE x

\* Every read but the last takes a packet or a byte of one.
Longest(r) == Max({0} \cup {Len(r.rest[k].of) : k \in 1..Len(r.rest)})
Most(r) == Len(r.rest) * (Longest(r) + 1) + 1

\* All there is, into buffers of the sizes ns, taken in turn.
ReadAll(r, ns) ==
  LET read[i \in 0..Most(r)] == IF i = 0 THEN Got(r, <<>>) ELSE ReadMore(read[i - 1], ns[(i % Len(ns)) + 1])
  IN read[Most(r)]

\* The lines before the pack.  Version 1: one, and if anything was said to be
\* had, one more for each.
Acknowledged(version, haves, r) ==
  LET first == ReadLine(r)
      all == IF first.err = "none" /\ haves > 1 THEN ReadLines(first.reader, haves) ELSE first
  IN IF version = 1 THEN all
     ELSE IF first.err = "none" /\ first.data # <<"packfile">> THEN Fails(r, "panic") ELSE first

\* The pack as index-pack reads it, and how reading ended.
PackRead(version, sideband, haves, packets, ns) ==
  LET ack == Acknowledged(version, haves, Reader("line", packets))
      r == [ack.reader EXCEPT !.mode = IF version = 2 \/ sideband THEN "sideband" ELSE "direct"]
  IN IF ack.err = "none" THEN ReadAll(r, ns) ELSE ack

=============================================================================
