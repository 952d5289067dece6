------------------------------- MODULE Delta -------------------------------
(***************************************************************************)
(* The integers and deltas of a pack file as values: how they are written  *)
(* (src/git/packfile.go, packobjects.go, delta/calculator.go) and how they *)
(* are read (packfile.go, delta/reader.go).                                *)
(*                                                                         *)
(* A content is a sequence of symbols.  What is written is a sequence of   *)
(* digits, in bases that are constants here: a byte of the code is a       *)
(* digit, and the flag that more follow is a field of it.                  *)
(***************************************************************************)
EXTENDS Integers, Sequences, SequencesExt

CONSTANTS
  Nibble,     \* what the first byte of an entry has of its size: 16
  Group,      \* what a byte of a variable-length integer has of it: 128
  Byte,       \* what a byte of a copy instruction has: 256
  MinCopy,    \* the least that is copied: 3
  InsertMax   \* the most that one insert instruction has: 127

ASSUME WidthAssumption ==
  /\ Nibble \in Nat /\ Group \in Nat /\ Byte \in Nat /\ MinCopy \in Nat /\ InsertMax \in Nat
  /\ Nibble > 1 /\ Group > 1 /\ Byte > 1 /\ MinCopy > 0 /\ InsertMax > 0

-----------------------------------------------------------------------------
(* Variable-length integers.                                               *)

Part == [digit : Nat, more : BOOLEAN]
LastPart(n) == [digit |-> n, more |-> FALSE]
NextPart(n) == [digit |-> n, more |-> TRUE]

\* PutUvarint: digits of base Group, the lowest first.
Uvarint[n \in Nat] ==
  IF n < Group THEN <<LastPart(n)>> ELSE <<NextPart(n % Group)>> \o Uvarint[n \div Group]

\* What readers take of a stream: all up to the first digit without the flag.
Taken(s) == CHOOSE k \in 1..Len(s) : ~s[k].more /\ \A j \in 1..k - 1 : s[j].more

\* readVariable.
ReadVariable[s \in Seq(Part)] ==
  IF s = <<>> THEN 0 ELSE Head(s).digit + (IF Head(s).more THEN Group * ReadVariable[Tail(s)] ELSE 0)

\* WriteVariable: the first byte has the type and Nibble of the size.
WriteVariable(n) ==
  IF n < Nibble THEN <<LastPart(n)>> ELSE <<NextPart(n % Nibble)>> \o Uvarint[n \div Nibble]

\* ReadHeaderSize.
ReadHeaderSize(s) ==
  Head(s).digit + (IF Head(s).more THEN Nibble * ReadVariable[Tail(s)] ELSE 0)

\* ReadDeltaOffset: the highest digit first, one more for each that follows.
ReadDeltaOffset(s) ==
  LET Read[k \in 0..Taken(s)] == IF k = 0 THEN -1 ELSE (Read[k - 1] + 1) * Group + s[k].digit
  IN Read[Taken(s)]

\* How git writes such an offset.
GitOffset[n \in Nat] ==
  IF n < Group THEN <<LastPart(n)>>
  ELSE LET high == GitOffset[(n \div Group) - 1]
       IN [k \in 1..Len(high) |-> NextPart(high[k].digit)] \o <<LastPart(n % Group)>>

-----------------------------------------------------------------------------
(* The calculator.                                                         *)

\* Lookup in the suffix array: where s is in src, or nowhere.
Places(src, s) == {k \in 0..Len(src) - Len(s) : SubSeq(src, k + 1, k + Len(s)) = s}
Occurs(src, s) == Places(src, s) # {}
Prefix(s, n) == SubSeq(s, 1, n)
From(s, n) == SubSeq(s, n + 1, Len(s))

\* The binary search of longestPrefix, which tries the prefix of length i: it
\* ends in fewer rounds than dst has symbols.
Search(src, dst) ==
  LET Round[k \in 0..Len(dst)] ==
        IF k = 0 THEN [i |-> MinCopy, min |-> MinCopy, max |-> Len(dst), length |-> -1]
        ELSE LET r == Round[k - 1]
             IN IF r.max - r.min <= 1 THEN r
                ELSE IF Occurs(src, Prefix(dst, r.i))
                THEN [r EXCEPT !.i = (r.max - r.i) \div 2 + r.i, !.min = r.i, !.length = r.i]
                ELSE [r EXCEPT !.i = (r.i - 1 - r.min) \div 2 + r.min, !.max = r.i - 1]
  IN Round[Len(dst)].length

\* longestPrefix: the length of a prefix of dst that is in src, or -1.
LongestPrefix(src, dst) ==
  IF Len(dst) < MinCopy \/ ~Occurs(src, Prefix(dst, MinCopy)) THEN -1
  ELSE IF Occurs(src, dst) THEN Len(dst)
  ELSE Search(src, dst)

\* nextPrefixStart.
NextPrefixStart(src, dst) ==
  LET starts == {i \in 1..Len(dst) - 1 :
                   Occurs(src, SubSeq(dst, i + 1, IF i + MinCopy > Len(dst) THEN Len(dst) ELSE i + MinCopy))}
  IN IF starts = {} THEN -1 ELSE CHOOSE i \in starts : \A j \in starts : i <= j

Instruction == [op : {"copy", "insert", "panic"}, offset : Nat, length : Nat, data : Seq(Nat)]
CopyOf(offset, length) == [op |-> "copy", offset |-> offset, length |-> length, data |-> <<>>]
Insert(data) == [op |-> "insert", offset |-> 0, length |-> 0, data |-> data]
Panic == [op |-> "panic", offset |-> 0, length |-> 0, data |-> <<>>]

\* calculate: where the next copy starts is looked for in all of dst, and may
\* be past the end of what remains.
Calculate(src, dst) ==
  LET next == NextPrefixStart(src, dst)
      Of[remaining \in Seq(Nat)] ==
        LET n == LongestPrefix(src, remaining)
        IN IF remaining = <<>> THEN <<>>
           ELSE IF n > 0
           THEN <<CopyOf(CHOOSE k \in Places(src, Prefix(remaining, n)) : TRUE, n)>> \o Of[From(remaining, n)]
           ELSE IF Len(remaining) <= MinCopy \/ next < 0 THEN <<Insert(remaining)>>
           ELSE IF next > Len(remaining) THEN <<Panic>>
           ELSE <<Insert(Prefix(remaining, next))>> \o Of[From(remaining, next)]
  IN Of[dst]

Panics(src, dst) == Panic \in Range(Calculate(src, dst))

-----------------------------------------------------------------------------
(* Instructions as they are written and read.                              *)

\* A byte of the code: a value, or the bits of a copy, the highest of which
\* says that it is one.
Coded == [value : Nat, bits : SUBSET (0..7)]
Plain(n) == [value |-> n, bits |-> {}]
CopyByte(bits) == [value |-> 0, bits |-> bits \cup {7}]

\* What is above the lowest byte, and the bytes of offset (0 to 3) and length
\* (4 to 6).  A length of Byte^2 is written as none.
Up(n) == n \div Byte
Digits(i) ==
  LET length == IF i.length = Byte * Byte THEN 0 ELSE i.length
  IN [k \in 0..6 |-> (CASE k = 0 -> i.offset [] k = 1 -> Up(i.offset) [] k = 2 -> Up(Up(i.offset))
                        [] k = 3 -> Up(Up(Up(i.offset)))
                        [] k = 4 -> length [] k = 5 -> Up(length) [] k = 6 -> Up(Up(length))) % Byte]

\* Which of them follow: a length of Byte^3 is not split.
CopyBits(i) == {k \in 0..6 : Digits(i)[k] # 0 /\ (k > 3 => i.length < Byte * Byte * Byte)}

\* copyinst.write.
WriteCopy(i) ==
  LET Put[k \in 0..7] ==
        IF k = 0 THEN <<>>
        ELSE (IF Digits(i)[7 - k] = 0 THEN <<>> ELSE <<Plain(Digits(i)[7 - k])>>) \o Put[k - 1]
  IN <<CopyByte(CopyBits(i))>> \o Put[7]

\* insert.write.
WriteInsert[data \in Seq(Nat)] ==
  IF data = <<>> THEN <<>>
  ELSE LET n == IF Len(data) <= InsertMax THEN Len(data) ELSE InsertMax
       IN (<<Plain(n)>> \o [k \in 1..n |-> Plain(data[k])]) \o WriteInsert[From(data, n)]

\* The instructions one after the other.
WriteAll[c \in Seq(Instruction)] ==
  IF c = <<>> THEN <<>>
  ELSE (IF Head(c).op = "copy" THEN WriteCopy(Head(c)) ELSE WriteInsert[Head(c).data]) \o WriteAll[Tail(c)]

\* CalculateWithIndex: both lengths, then the instructions.
WriteDelta(src, dst) == [size |-> Uvarint[Len(dst)], code |-> WriteAll[Calculate(src, dst)]]

\* The bytes of a copy are read as far as there are any: what is left before
\* the k-th is read.
Left(code, k) ==
  LET Read[j \in 0..7] ==
        IF j = 0 THEN Tail(code)
        ELSE IF j - 1 \in Head(code).bits /\ Read[j - 1] # <<>> THEN Tail(Read[j - 1]) ELSE Read[j - 1]
  IN Read[k]
CutShort(code) == \E k \in 0..6 : k \in Head(code).bits /\ Left(code, k) = <<>>
Field(code, k) == IF k \in Head(code).bits THEN Head(Left(code, k)).value ELSE 0
OffsetIn(code) == Field(code, 0) + Byte * (Field(code, 1) + Byte * (Field(code, 2) + Byte * Field(code, 3)))
LengthIn(code) ==
  LET n == Field(code, 4) + Byte * (Field(code, 5) + Byte * Field(code, 6)) IN IF n = 0 THEN Byte * Byte ELSE n

DataIn(code, n) == [k \in 1..n |-> code[k + 1].value]
CopyIn(code, base) == SubSeq(base, OffsetIn(code) + 1, OffsetIn(code) + LengthIn(code))

Failed(content) == [content |-> content, ok |-> FALSE]
Ended(content) == [content |-> content, ok |-> TRUE]
After(content, read) == [read EXCEPT !.content = content \o @]

\* Reader.Read until the instructions end: what was read, and whether no error
\* was met.  Data that is cut short is an error.  A copy that is, and one from
\* the end of base or past it, end the reading as an end of file does.
ReadCode(codes, base) ==
  LET Of[code \in Seq(Coded)] ==
        IF code = <<>> THEN Ended(<<>>)
        ELSE IF 7 \notin Head(code).bits
        THEN LET n == Head(code).value
             IN IF n >= Len(code) THEN Failed(DataIn(code, Len(code) - 1))
                ELSE After(DataIn(code, n), Of[From(code, n + 1)])
        ELSE IF CutShort(code) \/ OffsetIn(code) >= Len(base) THEN Ended(<<>>)
        ELSE IF OffsetIn(code) + LengthIn(code) > Len(base) THEN Failed(From(base, OffsetIn(code)))
        ELSE After(CopyIn(code, base), Of[Left(code, 7)])
  IN Of[codes]

\* No content: symbols are positive.
Bad == <<-1>>

\* ioutil.ReadAll of a Reader: Bad when it returns an error.
WithoutError(read) == IF read.ok THEN read.content ELSE Bad
ReadAll(delta, base) == WithoutError(ReadCode(delta.code, base))

\* HashReaderWithSize, of a Reader: what is read must be as long as the delta says.
SizeIsRight(delta, content) == content # Bad /\ Len(content) = ReadVariable[delta.size]

=============================================================================
