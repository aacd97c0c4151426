------------------------------ MODULE BitFile ------------------------------
(***************************************************************************)
(* The bit file library of LZSS/Serial (bitfile.c): a FILE that is written *)
(* and read bit by bit, with a byte of bits that wait in between.          *)
(*                                                                         *)
(* A program writes, with any mix of the Put operations; it may end and    *)
(* append to the file in a second run; then a program that makes the same  *)
(* sequence of Get operations reads it.  The runs may be on machines of    *)
(* different endianness.  `put` and `got` are what the programs know: the  *)
(* operations with their bits, and the bits that came back.                *)
(*                                                                         *)
(* A byte is the sequence of its bits, the most significant first.  The    *)
(* device takes `capacity` bytes; then fputc fails.                        *)
(***************************************************************************)
EXTENDS Integers, Sequences, SequencesExt

CONSTANTS ByteBits,    \* bits of a byte: 8
          Size,        \* the size argument: bytes of a number
          Counts,      \* bound: the count arguments
          Data,        \* bound: the bits a program may have to write
          Capacities,  \* bound: the bytes a device may take
          MaxPuts      \* bound: the operations of the writers

ASSUME BitFileAssumption ==
    /\ {ByteBits, Size, MaxPuts} \subseteq Nat \ {0}
    /\ Counts \subseteq 1 .. Size * ByteBits
    /\ Data \subseteq Seq({0, 1}) /\ Capacities \subseteq Nat

VARIABLES
    host,                 \* what DetermineEndianess finds
    mode,                 \* of the bit file, "none" if there is none
    fp,                   \* the FILE: "closed", "fresh" from fopen, or "used"
    bytes,                \* the file
    at,                   \* bytes of it that were read
    bitBuffer, bitCount,
    put, got,
    data, capacity,
    status                \* of the last program: "running", "stopped" by an
                          \* error of a Get, or "over"

stream == <<bytes, at, bitBuffer, bitCount>>
bfVars == <<host, mode, fp, stream, put, got, data, capacity, status>>

Hosts == {"little", "big", "unknown"}
Empty == [k \in 1 .. ByteBits |-> 0]
Bytes == [1 .. ByteBits -> {0, 1}]

\* The state of the bit file as a value, with the result of the last call.
Now == [bytes |-> bytes, at |-> at, buffer |-> bitBuffer, count |-> bitCount,
        ok |-> TRUE, bits |-> <<>>]

Becomes(s) == /\ bytes' = s.bytes /\ at' = s.at
              /\ bitBuffer' = s.buffer /\ bitCount' = s.count

FrontBits(b, n) == SubSeq(b, 1, n)
LowBits(b, n) == SubSeq(b, ByteBits - n + 1, ByteBits)

-----------------------------------------------------------------------------
(* Putting.                                                                *)

fputc(s, b) == IF Len(s.bytes) < capacity THEN [s EXCEPT !.bytes = Append(@, b)]
               ELSE [s EXCEPT !.ok = FALSE]

\* BitFilePutChar: the bits that wait go out with the front of c.
PutChar(s, c) ==
    LET t == fputc(s, IF s.count = 0 THEN c
                      ELSE LowBits(s.buffer, s.count)
                               \o FrontBits(c, ByteBits - s.count))
    IN  IF s.count > 0 /\ t.ok THEN [t EXCEPT !.buffer = c] ELSE t

\* Mistake: the count is not reset.
PutBitNotReset(s, bit) ==
    LET b == Append(Tail(s.buffer), bit)
    IN  IF s.count + 1 < ByteBits
          THEN [s EXCEPT !.buffer = b, !.count = s.count + 1]
          ELSE [fputc(s, b) EXCEPT !.count = s.count + 1]

\* BitFilePutBit: the buffer is emptied even if the byte cannot be written.
PutBit(s, bit) ==
    LET b == Append(Tail(s.buffer), bit)
    IN  IF s.count + 1 < ByteBits
          THEN [s EXCEPT !.buffer = b, !.count = s.count + 1]
          ELSE [fputc(s, b) EXCEPT !.buffer = Empty, !.count = 0]

Shifted(b, n) == SubSeq(b, n + 1, ByteBits) \o FrontBits(Empty, n)

\* Mistake: the waiting bits are forgotten.
DrainNever(s, fill) == s

\* The waiting bits are shifted to the front of a byte, which is written.
Drain(s, fill) ==
    IF s.count = 0 THEN s
    ELSE fputc(s, LowBits(s.buffer, s.count)
                      \o [k \in 1 .. ByteBits - s.count |-> fill])

Aligned(s) == [s EXCEPT !.buffer = Empty, !.count = 0]

ThenChar(t, b) == IF t.ok THEN PutChar(t, b) ELSE t
ThenBit(t, bit) == IF t.ok THEN PutBit(t, bit) ELSE t

\* The loops of BitFilePutBits and of BitFilePutBitsLE and BE: whole bytes as
\* long as there are enough bits, then bit by bit; the first error ends it.
PutWhole(s, bs) ==
    LET t[k \in 0 .. Len(bs)] ==
            IF k = 0 THEN s ELSE ThenChar(t[k - 1], bs[k])
    IN  t[Len(bs)]
PutEach(s, bits) ==
    LET t[k \in 0 .. Len(bits)] ==
            IF k = 0 THEN s ELSE ThenBit(t[k - 1], bits[k])
    IN  t[Len(bits)]

\* The memory m, an array of bytes; the last has its bits in front.
PutBits(s, m, count) ==
    LET whole == count \div ByteBits
        rest == count % ByteBits
    IN  PutEach(PutWhole(s, SubSeq(m, 1, whole)),
                IF rest = 0 THEN <<>> ELSE FrontBits(m[whole + 1], rest))

\* Where the memory of a number holds its k-th byte, k = 0 the least
\* significant: the way of offset in the functions for little and big endian.
CellLE == [k \in 0 .. Size - 1 |-> k + 1]
CellBE == [k \in 0 .. Size - 1 |-> Size - k]

\* The loops of both functions.
PutNumber(s, m, count, cell) ==
    LET whole == count \div ByteBits
        rest == count % ByteBits
        b == m[cell[IF rest = 0 THEN 0 ELSE whole]]
    IN  PutEach(PutWhole(s, [k \in 1 .. whole |-> m[cell[k - 1]]]),
                IF rest = 0 THEN <<>>
                ELSE FrontBits(Shifted(b, ByteBits - rest), rest))

BitFilePutBitsLE(s, m, count) == PutNumber(s, m, count, CellLE)
BitFilePutBitsBE(s, m, count) == PutNumber(s, m, count, CellBE)

-----------------------------------------------------------------------------
(* Getting.                                                                *)

\* BitFileGetChar: at the end of the file the bits that wait stay.
GetChar(s) ==
    IF s.at = Len(s.bytes) THEN [s EXCEPT !.ok = FALSE]
    ELSE LET b == s.bytes[s.at + 1]
         IN  IF s.count = 0 THEN [s EXCEPT !.at = @ + 1, !.bits = b]
             ELSE [s EXCEPT !.at = @ + 1, !.buffer = b,
                            !.bits = LowBits(s.buffer, s.count)
                                         \o FrontBits(b, ByteBits - s.count)]

\* BitFileGetBit.
GetBit(s) ==
    IF s.count = 0 /\ s.at = Len(s.bytes) THEN [s EXCEPT !.ok = FALSE]
    ELSE LET b == IF s.count = 0 THEN s.bytes[s.at + 1] ELSE s.buffer
             n == (IF s.count = 0 THEN ByteBits ELSE s.count) - 1
         IN  [s EXCEPT !.at = IF s.count = 0 THEN @ + 1 ELSE @,
                       !.buffer = b, !.count = n, !.bits = <<b[ByteBits - n]>>]

NextChar(acc) ==
    IF ~acc.s.ok THEN acc
    ELSE LET t == GetChar(acc.s) IN [s |-> t, m |-> Append(acc.m, t.bits)]
NextBit(acc) ==
    IF ~acc.s.ok THEN acc
    ELSE LET t == GetBit(acc.s)
         IN [s |-> t, b |-> IF t.ok THEN Append(Tail(acc.b), t.bits[1]) ELSE acc.b]

\* The loops of the three functions that get bits: what each call returns.
GetWhole(s, n) ==
    LET acc[k \in 0 .. n] ==
            IF k = 0 THEN [s |-> s, m |-> <<>>] ELSE NextChar(acc[k - 1])
    IN  acc[n]

\* The byte b with the next n bits shifted in from below.
GetEach(s, b, n) ==
    LET acc[k \in 0 .. n] ==
            IF k = 0 THEN [s |-> s, b |-> b] ELSE NextBit(acc[k - 1])
    IN  acc[n]

\* BitFileGetBits clears the last byte before it shifts bits into it.
GetBits(s, count) ==
    LET rest == count % ByteBits
        w == GetWhole(s, count \div ByteBits)
        e == GetEach(w.s, Empty, rest)
    IN  IF ~e.s.ok THEN e.s
        ELSE [e.s EXCEPT !.bits = FlattenSeq(w.m)
                                 \o FrontBits(Shifted(e.b, ByteBits - rest), rest)]

\* Mistake: the caller does not clear its variable.
NotCleared == [k \in 1 .. Size |-> [j \in 1 .. ByteBits |-> 1]]

\* The caller's variable, which DecodeLZSS clears before each call.
Cleared == [k \in 1 .. Size |-> Empty]

\* The number, as its bytes from the least significant on.  The last byte is
\* not cleared before bits are shifted into it.
GetNumber(s, count, cell) ==
    LET rest == count % ByteBits
        whole == count \div ByteBits
        w == GetWhole(s, whole)
        e == GetEach(w.s, Cleared[IF rest = 0 THEN 1 ELSE cell[whole]], rest)
        memory == [c \in 1 .. Size |->
                    IF \E k \in 1 .. Len(w.m) : c = cell[k - 1]
                      THEN w.m[CHOOSE k \in 1 .. Len(w.m) : c = cell[k - 1]]
                    ELSE IF rest > 0 /\ c = cell[whole] THEN e.b ELSE Cleared[c]]
    IN  IF ~e.s.ok THEN e.s
        ELSE [e.s EXCEPT !.bits = FlattenSeq([k \in 1 .. Size |-> memory[cell[k - 1]]])]

BitFileGetBitsLE(s, count) == GetNumber(s, count, CellLE)
BitFileGetBitsBE(s, count) == GetNumber(s, count, CellBE)

BitFileNotSupported(s) == [s EXCEPT !.ok = FALSE]

-----------------------------------------------------------------------------
(* The program.                                                            *)

BFInit ==
    /\ host \in Hosts
    /\ mode = "none" /\ fp = "closed"
    /\ bytes = <<>> /\ at = 0
    /\ bitBuffer = Empty /\ bitCount = 0
    /\ put = <<>> /\ got = <<>>
    /\ data \in Data /\ capacity \in Capacities
    /\ status = "running"

MorePuts == Len(SelectSeq(put, LAMBDA p : p.op # "close")) < MaxPuts
Written == \E k \in DOMAIN put : put[k].op = "close"

\* A bit file on the FILE: first to write, then to append or to read.
Made(m) ==
    /\ mode = "none" /\ status = "running"
    /\ IF Written THEN m # "write" ELSE m = "write"
    /\ m = "append" => MorePuts
    /\ mode' = m /\ fp' = "used"
    /\ bitBuffer' = Empty /\ bitCount' = 0
    /\ host' \in IF m = "read" THEN Hosts ELSE {host}
    /\ UNCHANGED <<bytes, at, put, got, data, capacity, status>>

BitFileOpen(m) == fp = "closed" /\ Made(m)

\* The program opens the FILE itself.
fopen ==
    /\ mode = "none" /\ status = "running"
    /\ fp = "closed" /\ fp' = "fresh"
    /\ UNCHANGED <<host, mode, stream, put, got, data, capacity, status>>

MakeBitFile(m) == fp = "fresh" /\ Made(m)

\* malloc or fopen fails: there is no bit file, and every call returns EOF.
OpenFails ==
    /\ mode = "none" /\ fp # "used" /\ status = "running"
    /\ status' = "over"
    /\ UNCHANGED <<host, mode, fp, stream, put, got, data, capacity>>

Writing == mode \in {"write", "append"}

\* How many of the program's bits the writers have used.
Used ==
    LET used[k \in 0 .. Len(put)] == IF k = 0 THEN 0 ELSE used[k - 1] + put[k].n
    IN  used[Len(put)]

NextBits(n) == SubSeq(data, Used + 1, Used + n)

\* The n bits of s as the memory of PutBits, and as the bytes of a number, the
\* first bits in its least significant byte.
AsMemory(s, n) ==
    [k \in 1 .. Size |->
        [j \in 1 .. ByteBits |->
            IF (k - 1) * ByteBits + j <= n THEN s[(k - 1) * ByteBits + j] ELSE 0]]
LeastFirst(s, n) ==
    [k \in 1 .. Size |->
        LET have == n - (k - 1) * ByteBits
        IN  IF have >= ByteBits THEN SubSeq(s, (k - 1) * ByteBits + 1, k * ByteBits)
            ELSE IF have <= 0 THEN Empty
            ELSE FrontBits(Empty, ByteBits - have) \o SubSeq(s, n - have + 1, n)]

\* The memory of the number, in the order of its host.
AsNumber(s, n) ==
    IF host = "big" THEN Reverse(LeastFirst(s, n)) ELSE LeastFirst(s, n)

Note(op, n) == put' = Append(put, [op |-> op, n |-> n, bits |-> NextBits(n)])

PutOne(op, n, s) ==
    /\ Writing /\ MorePuts
    /\ Used + n <= Len(data)
    /\ Becomes(s) /\ Note(op, n)
    /\ UNCHANGED <<host, mode, fp, got, data, capacity, status>>

BitFilePutBit == PutOne("bit", 1, PutBit(Now, data[Used + 1]))
BitFilePutChar == PutOne("char", ByteBits, PutChar(Now, NextBits(ByteBits)))
BitFilePutBits(n) == PutOne("bits", n, PutBits(Now, AsMemory(NextBits(n), n), n))

\* On a host of unknown endianness nothing is written.
BitFilePutBitsNum(n) ==
    LET m == AsNumber(NextBits(n), n)
    IN  \/ host = "little" /\ PutOne("num", n, BitFilePutBitsLE(Now, m, n))
        \/ host = "big" /\ PutOne("num", n, BitFilePutBitsBE(Now, m, n))

BitFileFlushOutput(onesFill) == PutOne("align", 0, Aligned(Drain(Now, onesFill)))
BitFileByteAlign == PutOne("align", 0, Aligned(Drain(Now, 0)))

\* The last waiting bits are written; an error is not noticed.
Ended ==
    /\ mode # "none"
    /\ Writing => put # <<>> /\ Last(put).op # "close"
    /\ mode = "read" => status = "stopped" \/ Len(got) = Len(put)
    /\ mode' = "none"
    /\ Becomes(Aligned(IF Writing THEN Drain(Now, 0) ELSE Now))
    /\ IF Writing THEN Note("close", 0) ELSE UNCHANGED put
    /\ status' = IF mode = "read" THEN "over" ELSE status
    /\ UNCHANGED <<host, got, data, capacity>>

BitFileClose == Ended /\ fp' = "closed"

\* The FILE is the program's again, which closes it.
BitFileToFILE == Ended /\ UNCHANGED fp
fclose ==
    /\ mode = "none" /\ fp # "closed"
    /\ fp = "fresh" => status = "over"
    /\ fp' = "closed"
    /\ UNCHANGED <<host, mode, stream, put, got, data, capacity, status>>

\* The next operation of the reader is that of the writer; where the writer
\* has filled up a byte, the reader aligns.
Getting(ops, s) ==
    /\ mode = "read" /\ status = "running"
    /\ Len(got) < Len(put)
    /\ put[Len(got) + 1].op \in ops
    /\ Becomes(s)
    /\ IF s.ok THEN got' = Append(got, s.bits) /\ UNCHANGED status
       ELSE UNCHANGED got /\ status' = "stopped"
    /\ UNCHANGED <<host, mode, fp, put, data, capacity>>

Wanted == put[Len(got) + 1].n

BitFileGetBit == Getting({"bit"}, GetBit(Now))
BitFileGetChar == Getting({"char"}, GetChar(Now))
BitFileGetBits == Getting({"bits"}, GetBits(Now, Wanted))
BitFileGetBitsNum ==
    \/ host = "little" /\ Getting({"num"}, BitFileGetBitsLE(Now, Wanted))
    \/ host = "big" /\ Getting({"num"}, BitFileGetBitsBE(Now, Wanted))
    \/ host = "unknown" /\ Getting({"num"}, BitFileNotSupported(Now))
BitFileAlignReader == Getting({"align", "close"}, Aligned(Now))

BFNext ==
    \/ \E m \in {"write", "append", "read"} : BitFileOpen(m) \/ MakeBitFile(m)
    \/ fopen \/ fclose \/ OpenFails
    \/ BitFilePutBit \/ BitFilePutChar
    \/ \E n \in Counts : BitFilePutBits(n) \/ BitFilePutBitsNum(n)
    \/ \E onesFill \in {0, 1} : BitFileFlushOutput(onesFill)
    \/ BitFileByteAlign \/ BitFileClose \/ BitFileToFILE
    \/ BitFileGetBit \/ BitFileGetChar \/ BitFileGetBits \/ BitFileGetBitsNum
    \/ BitFileAlignReader

BFSpec == BFInit /\ [][BFNext]_bfVars

-----------------------------------------------------------------------------
(* Properties.                                                             *)

\* Between two calls the buffer never holds a whole byte of waiting bits.
BFTypeOK ==
    /\ host \in Hosts
    /\ mode \in {"none", "write", "append", "read"}
    /\ IF mode # "none" THEN fp = "used" ELSE fp \in {"closed", "fresh", "used"}
    /\ bytes \in Seq(Bytes) /\ at \in 0 .. Len(bytes)
    /\ bitBuffer \in Bytes /\ bitCount \in 0 .. ByteBits - 1
    /\ Len(got) <= Len(put)

\* What a Get should return for an entry of put.
Expected(p) == IF p.op # "num" THEN p.bits
               ELSE LET n == AsNumber(p.bits, p.n)
                    IN FlattenSeq(IF host = "big" THEN Reverse(n) ELSE n)

\* Whatever mix of operations wrote the bits, and whatever the endianness of
\* the machines and the bits that waited in the buffer then, the same
\* operations read the same bits; if the device was full, up to some point.
ReadsWhatWasPut ==
    \A k \in DOMAIN got : put[k].op \in {"align", "close"} \/ got[k] = Expected(put[k])

\* If the device had room, all of it is read: no bits are lost between two
\* operations, nor when the file is closed and appended to.  What follows the
\* last of them is less than a byte, of zeros: too little for another token.
AllIsRead ==
    /\ status = "stopped" =>
          \/ host = "unknown" /\ put[Len(got) + 1].op = "num"
          \/ Len(bytes) = capacity
    /\ mode = "read" /\ Len(got) = Len(put) - 1 /\ Len(bytes) < capacity =>
          /\ at = Len(bytes)
          /\ LowBits(bitBuffer, bitCount) = FrontBits(Empty, bitCount)
=============================================================================
