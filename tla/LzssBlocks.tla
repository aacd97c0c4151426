----------------------------- MODULE LzssBlocks -----------------------------
(***************************************************************************)
(* The host of the OpenCL LZSS programs (LZSS/OpenCL/lzss.c): it splits a  *)
(* file into blocks, has a work-item compress each, and writes them behind *)
(* each other with their lengths as text; and the way back.                *)
(*                                                                         *)
(* What a work-item does with its block is in module Lzss.  Here a block   *)
(* is a number, its compressed form a row of cells of any length, which    *)
(* may be larger than the block was, or none at all.  The blocks FIFO of   *)
(* the output lie behind each other in one buffer, and the work-items      *)
(* write theirs cell by cell, in any order.                                *)
(***************************************************************************)
EXTENDS Integers, Sequences, SequencesExt

CONSTANTS BlockSize,  \* BLOCKSIZE: 102400
          MaxCoded,   \* MAX_CODED, the symbols in a lookahead: 18
          LocalSize,  \* localSize: 256
          Base,       \* of the numbers in the file: 10
          MaxSize,    \* bound: the largest input
          MaxGrowth   \* bound: how much larger a block may become

ASSUME LzssBlocksAssumption ==
    /\ {BlockSize, LocalSize, MaxSize} \subseteq Nat \ {0}
    /\ Base \in Nat \ {0, 1} /\ MaxGrowth \in Nat /\ MaxCoded \in Nat

VARIABLES
    totalSize,     \* of the input
    phase,         \* "split", "encode", "write", "parse", "decode", "done";
                   \* "refused", "failed", or "undefined"
    outfifo,       \* the buffer with the output blocks, cell by cell
    item,          \* how far each work-item is, and the length it will write
    file,
    infifo,        \* the blocks read back
    out            \* the blocks written at last

vars == <<totalSize, phase, outfifo, item, file, infifo, out>>

NoOfBlocks == (totalSize + BlockSize - 1) \div BlockSize

\* Mistake: rounded down.
GlobalSizeDown == (NoOfBlocks \div LocalSize) * LocalSize

\* The work-items: a multiple of localSize.
GlobalSize == ((NoOfBlocks + LocalSize - 1) \div LocalSize) * LocalSize

-----------------------------------------------------------------------------
(* The buffer: an id, a len and BlockSize symbols for each block.          *)

IdCell(i) == (i - 1) * (BlockSize + 2)
LenCell(i) == IdCell(i) + 1

\* Mistake: the header is left out of the account.
StringCellNoHeader(i, k) == IdCell(i) + k

\* string[k - 1] of block i.
StringCell(i, k) == IdCell(i) + 1 + k

Cells == 0 .. NoOfBlocks * (BlockSize + 2) - 1

\* What is in a cell: who wrote it, and what it is.
Nothing == [by |-> 0, is |-> "none", n |-> 0]
Id(i) == [by |-> i, is |-> "id", n |-> 0]
Length(i, n) == [by |-> i, is |-> "len", n |-> n]
Symbol(i, k) == [by |-> i, is |-> "symbol", n |-> k]

-----------------------------------------------------------------------------
(* Numbers as text: the digits, preceded by their number.                  *)

\* Mistake: the digits from the last to the first.
DigitsReversed(n) ==
    LET text[k \in 0 .. n] ==
            IF k < Base THEN <<k>> ELSE <<k % Base>> \o text[k \div Base]
    IN  text[n]

\* sprintf of "%d".
Digits(n) ==
    LET text[k \in 0 .. n] ==
            IF k < Base THEN <<k>> ELSE text[k \div Base] \o <<k % Base>>
    IN  text[n]

\* atoi.
ValueOf(text) ==
    LET value[k \in 0 .. Len(text)] ==
            IF k = 0 THEN 0 ELSE value[k - 1] * Base + text[k]
    IN  value[Len(text)]

AsText(n) == <<Len(Digits(n))>> \o Digits(n)

\* The number at f's cell p, and where it ends.
TextAt(f, p) == [value |-> ValueOf(SubSeq(f, p + 1, p + f[p])), next |-> p + 1 + f[p]]

-----------------------------------------------------------------------------
(* EncodeLZSS.                                                             *)

Init ==
    /\ totalSize \in 1 .. MaxSize
    /\ phase = "split"
    /\ outfifo = <<>> /\ item = <<>>
    /\ file = <<>> /\ infifo = <<>> /\ out = <<>>

\* A file of less than a block is not compressed at all.
Refuse ==
    /\ phase = "split"
    /\ totalSize < BlockSize
    /\ phase' = "refused"
    /\ UNCHANGED <<totalSize, outfifo, item, file, infifo, out>>

\* The blocks are read and the buffers are made; nobody has filled outfifo.
Split ==
    /\ phase = "split"
    /\ totalSize >= BlockSize
    /\ phase' = "encode"
    /\ outfifo' = [c \in Cells |-> Nothing]
    /\ item' = [i \in 1 .. GlobalSize |-> [at |-> "start", len |-> 0, k |-> 0]]
    /\ UNCHANGED <<totalSize, file, infifo, out>>

\* A block cannot be read: the program exits.
ReadFails ==
    /\ phase = "split"
    /\ totalSize >= BlockSize
    /\ phase' = "failed"
    /\ UNCHANGED <<totalSize, outfifo, item, file, infifo, out>>

\* main of sample.c leaves before it has called EncodeLZSS or, in a second run,
\* DecodeLZSS: for -h, an option given twice, a file that does not open.
DriverStops ==
    /\ phase \in {"split", "parse"}
    /\ phase' = "failed"
    /\ UNCHANGED <<totalSize, outfifo, item, file, infifo, out>>

\* callKernel exits if there is no kernel to load.
NoKernel ==
    /\ phase \in {"encode", "decode"}
    /\ \A i \in DOMAIN item : item[i].at = "start"
    /\ phase' = "failed"
    /\ UNCHANGED <<totalSize, outfifo, item, file, infifo, out>>

\* Any other failure it prints and returns from, and the host goes on with
\* what malloc gave it for outfifo.
CallFails ==
    /\ phase \in {"encode", "decode"}
    /\ \A i \in DOMAIN item : item[i].at = "start"
    /\ phase' = "undefined"
    /\ UNCHANGED <<totalSize, outfifo, item, file, infifo, out>>

\* A cell behind the buffer is not there to be written.
Write(cell, value) ==
    IF cell \in DOMAIN outfifo
      THEN outfifo' = [outfifo EXCEPT ![cell] = value] /\ UNCHANGED phase
      ELSE phase' = "undefined" /\ UNCHANGED outfifo

\* id < n.
HasBlock(i) == i - 1 < NoOfBlocks

\* What is left of the input for block i: the last may be short.
BlockLength(i) ==
    IF i < NoOfBlocks THEN BlockSize ELSE totalSize - (NoOfBlocks - 1) * BlockSize

\* The lookahead takes all of block i, and the loop of encode.cl, which goes on
\* as long as there is something to read, is not entered.
NeverEncoded(i) == BlockLength(i) <= MaxCoded

\* How long block i can become; which of these is up to its content.
CompressedLengths(i) == IF NeverEncoded(i) THEN {0} ELSE 1 .. BlockSize + MaxGrowth

\* Work-item i begins.
BeginBlock(i) ==
    /\ phase = "encode"
    /\ item[i].at = "start" /\ HasBlock(i)
    /\ \E n \in CompressedLengths(i) :
          item' = [item EXCEPT ![i] = [at |-> "string", len |-> n, k |-> 0]]
    /\ Write(IdCell(i), Id(i))
    /\ UNCHANGED <<totalSize, file, infifo, out>>

\* The next symbol of the compressed block, whatever len_out is by now.
WriteSymbol(i) ==
    /\ phase = "encode"
    /\ item[i].at = "string" /\ item[i].k < item[i].len
    /\ item' = [item EXCEPT ![i].k = @ + 1]
    /\ Write(StringCell(i, item[i].k + 1), Symbol(i, item[i].k + 1))
    /\ UNCHANGED <<totalSize, file, infifo, out>>

EndBlock(i) ==
    /\ phase = "encode"
    /\ item[i].at = "string" /\ item[i].k = item[i].len
    /\ item' = [item EXCEPT ![i].at = "end"]
    /\ Write(LenCell(i), Length(i, item[i].len))
    /\ UNCHANGED <<totalSize, file, infifo, out>>

KernelEnded == \A i \in DOMAIN item : HasBlock(i) => item[i].at = "end"

\* clFinish, and the buffer is read: it must hold lengths where they belong
\* and as many symbols behind them.
Finished ==
    /\ phase = "encode"
    /\ KernelEnded
    /\ phase' = IF \A i \in 1 .. NoOfBlocks :
                      /\ outfifo[LenCell(i)].is = "len"
                      /\ StringCell(i, outfifo[LenCell(i)].n) \in Cells
                  THEN "write" ELSE "undefined"
    /\ UNCHANGED <<totalSize, outfifo, item, file, infifo, out>>

\* The file: the number of blocks, then length and symbols of each.
WriteFile ==
    /\ phase = "write"
    /\ file' = AsText(NoOfBlocks) \o FlattenSeq([i \in 1 .. NoOfBlocks |->
            LET n == outfifo[LenCell(i)].n
            IN  AsText(n) \o [k \in 1 .. n |-> outfifo[StringCell(i, k)]]])
    /\ phase' = "parse"
    /\ outfifo' = <<>> /\ item' = <<>>
    /\ UNCHANGED <<totalSize, infifo, out>>

-----------------------------------------------------------------------------
(* DecodeLZSS.                                                             *)

\* Position of the blocks, and what is read from position p on.
BlockAt(p) ==
    LET len == TextAt(file, p)
    IN  [symbols |-> SubSeq(file, len.next, len.next + len.value - 1),
         next |-> len.next + len.value]

\* The number of blocks is read from an array that is not terminated: digits
\* that lie behind it by chance count as well, and then the table is read over
\* its end.  The part of a block that is larger than a FIFO is overwritten by
\* the header of the next; that of the last runs off the end.
ParseFile ==
    /\ phase = "parse"
    /\ LET count == TextAt(file, 1)
           block[b \in 1 .. count.value] ==
               BlockAt(IF b = 1 THEN count.next ELSE block[b - 1].next)
       IN  \/ /\ Len(block[count.value].symbols) <= BlockSize
              /\ infifo' = [b \in 1 .. count.value |->
                    [k \in DOMAIN block[b].symbols |->
                        IF k <= BlockSize THEN block[b].symbols[k] ELSE Nothing]]
              /\ phase' = "decode"
              /\ item' = [b \in 1 .. count.value |-> [at |-> "start", block |-> 0]]
           \/ phase' = "undefined" /\ UNCHANGED <<infifo, item>>
    /\ UNCHANGED <<totalSize, outfifo, file, out>>

\* What decode.cl writes for b: the block that was compressed to b, nothing if b
\* is empty, or what nobody has compressed.
NoBlock == 0
Garbage == NoOfBlocks + 1
Decompressed(b) ==
    IF b = <<>> THEN NoBlock
    ELSE IF \E i \in 1 .. NoOfBlocks : b = [k \in DOMAIN b |-> Symbol(i, k)]
      THEN b[1].by ELSE Garbage

DecodeBlock(i) ==
    /\ phase = "decode"
    /\ item[i].at = "start"
    /\ item' = [item EXCEPT ![i] = [at |-> "end", block |-> Decompressed(infifo[i])]]
    /\ UNCHANGED <<totalSize, phase, outfifo, file, infifo, out>>

\* clFinish, and the blocks are written in their order.
WriteOutput ==
    /\ phase = "decode"
    /\ \A i \in DOMAIN item : item[i].at = "end"
    /\ out' = [i \in DOMAIN item |-> item[i].block]
    /\ phase' = "done"
    /\ UNCHANGED <<totalSize, outfifo, item, file, infifo>>

Next ==
    \/ DriverStops \/ Refuse \/ Split \/ ReadFails \/ NoKernel \/ CallFails
    \/ \E i \in DOMAIN item :
          BeginBlock(i) \/ WriteSymbol(i) \/ EndBlock(i) \/ DecodeBlock(i)
    \/ Finished \/ WriteFile \/ ParseFile \/ WriteOutput

Spec == Init /\ [][Next]_vars

-----------------------------------------------------------------------------
(* Properties.                                                             *)

\* Every work-item that writes has a block, and there is one for every block.
TypeOK ==
    /\ phase \in {"split", "encode", "write", "parse", "decode", "done",
                  "refused", "failed", "undefined"}
    /\ phase = "encode" =>
          /\ DOMAIN outfifo = Cells
          /\ 1 .. NoOfBlocks \subseteq DOMAIN item
          /\ \A i \in DOMAIN item : item[i].at # "start" => i \in 1 .. NoOfBlocks

Fit == \A i \in DOMAIN item : phase = "encode" => item[i].len <= BlockSize

\* As long as no block outgrows its place, every work-item finds in the buffer
\* what it has written, however the others write theirs: the blocks do not
\* overlap.  (An incompressible one grows by an eighth.)
BlocksApart ==
    phase = "encode" /\ Fit =>
        \A i \in 1 .. NoOfBlocks :
            /\ item[i].at # "start" => outfifo[IdCell(i)] = Id(i)
            /\ \A k \in 1 .. item[i].k : outfifo[StringCell(i, k)] = Symbol(i, k)
            /\ item[i].at = "end" => outfifo[LenCell(i)] = Length(i, item[i].len)

\* What is to come back of block i: nothing of a last one that was never encoded.
Remains(i) == IF NeverEncoded(i) THEN NoBlock ELSE i

\* A block never comes back as another one, or in another's place; and all come
\* back if none had outgrown its place, though their lengths are text of any
\* length between symbols of any value.  All but a short last one: of a block of
\* MAX_CODED bytes or less nothing is written and nothing comes back.
BlocksRestored ==
    phase = "done" =>
        /\ Len(out) = NoOfBlocks
        /\ \A i \in 1 .. NoOfBlocks : out[i] \in {Remains(i), Garbage}
        /\ (\A i \in 1 .. NoOfBlocks : Len(infifo[i]) <= BlockSize)
              => \A i \in 1 .. NoOfBlocks : out[i] = Remains(i)
=============================================================================
