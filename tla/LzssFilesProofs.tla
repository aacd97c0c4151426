-------------------------- MODULE LzssFilesProofs --------------------------
(***************************************************************************)
(* Proofs about the files of the LZSS programs, of modules LzssBlocks and  *)
(* BitFile.                                                                *)
(*                                                                         *)
(* LzssBlocks: the buffer that the work-items fill together without a      *)
(* lock; every block has its part of it, whatever its length as long as it *)
(* fits, and the kernel has a work-item for every block.  The file written *)
(* from it gives the blocks back, whatever their number, their lengths and *)
(* the symbols between these.                                              *)
(*                                                                         *)
(* BitFile: whatever operations write a bit file, in however many runs,    *)
(* the same operations read the same bits from it.                         *)
(***************************************************************************)
EXTENDS LzssBlocks, BitFile, SequenceTheorems, WellFoundedInduction, TLAPS

-----------------------------------------------------------------------------
(* The inductive invariant.                                                *)

Phases == {"split", "encode", "write", "parse", "decode", "done",
           "refused", "failed", "undefined"}

\* A work-item that has not begun has nothing to write.
ItemsOK ==
    phase = "encode" =>
        /\ item \in [1 .. GlobalSize ->
                        [at : {"start", "string", "end"}, len : Nat, k : Nat]]
        /\ \A i \in DOMAIN item :
              /\ item[i].k <= item[i].len
              /\ item[i].at = "start" => item[i].len = 0

IInv ==
    /\ totalSize \in Nat \ {0}
    /\ TypeOK /\ ItemsOK /\ BlocksApart

-----------------------------------------------------------------------------
(* Numbers of blocks and work-items.                                       *)

LEMMA RoundedUp ==
    ASSUME NEW n \in Nat, NEW m \in Nat \ {0}
    PROVE  /\ (n + m - 1) \div m \in Nat
           /\ n <= ((n + m - 1) \div m) * m
<1> DEFINE s == n + m - 1
           q == s \div m
<1>1. s \in Nat
  OBVIOUS
<1>2. s = m * q + (s % m) /\ s % m \in 0 .. m - 1 /\ q \in Int
  BY <1>1
<1> HIDE DEF q
<1>3. q >= 0
  <2>1. SUFFICES ASSUME q <= -1 PROVE FALSE
    BY <1>2
  <2>2. m * q <= -m
    BY <1>2, <2>1
  <2> QED
    BY <1>1, <1>2, <2>2
<1>4. m * q \in Int /\ m * q = q * m
  BY <1>2
<1>5. n <= q * m
  BY <1>2, <1>4
<1> QED
  BY <1>2, <1>3, <1>5 DEF q

LEMMA EnoughItems ==
    ASSUME totalSize \in Nat
    PROVE  /\ NoOfBlocks \in Nat /\ GlobalSize \in Nat
           /\ NoOfBlocks <= GlobalSize
<1>1. BlockSize \in Nat \ {0} /\ LocalSize \in Nat \ {0}
  BY LzssBlocksAssumption
<1>2. NoOfBlocks \in Nat
  BY <1>1, RoundedUp DEF NoOfBlocks
<1>3. (NoOfBlocks + LocalSize - 1) \div LocalSize \in Nat /\ NoOfBlocks <= GlobalSize
  BY <1>1, <1>2, RoundedUp DEF GlobalSize
<1>4. GlobalSize \in Nat
  BY <1>1, <1>3 DEF GlobalSize
<1> QED
  BY <1>2, <1>3, <1>4

-----------------------------------------------------------------------------
(* The blocks' parts of the buffer.                                        *)

\* Cell a of a block's part is never cell b of another's.
LEMMA PartsApart ==
    ASSUME NEW i \in Nat \ {0}, NEW j \in Nat \ {0},
           NEW a \in 0 .. BlockSize + 1, NEW b \in 0 .. BlockSize + 1,
           IdCell(i) + a = IdCell(j) + b
    PROVE  i = j /\ a = b
<1> DEFINE w == BlockSize + 2
<1>1. w \in Nat \ {0} /\ a \in 0 .. w - 1 /\ b \in 0 .. w - 1
  BY LzssBlocksAssumption
<1>2. IdCell(i) = (i - 1) * w /\ IdCell(j) = (j - 1) * w
  BY DEF IdCell
<1> HIDE DEF w
<1>3. ASSUME NEW x \in Nat \ {0}, NEW y \in Nat \ {0}, x < y
      PROVE  (y - 1) * w >= (x - 1) * w + w
  <2>1. y - x - 1 \in Nat
    BY <1>3
  <2>2. (y - x - 1) * w >= 0
    BY <1>1, <2>1
  <2>3. (y - 1) * w = (x - 1) * w + w + (y - x - 1) * w
    BY <1>1
  <2>4. (x - 1) * w \in Int /\ (y - x - 1) * w \in Int
    BY <1>1
  <2> QED
    BY <1>1, <2>2, <2>3, <2>4
<1>4. (i - 1) * w \in Int /\ (j - 1) * w \in Int
  BY <1>1
<1>5. ~ (i < j)
  <2> SUFFICES ASSUME i < j PROVE FALSE
    OBVIOUS
  <2>1. (j - 1) * w >= (i - 1) * w + w
    BY <1>3
  <2> QED
    BY <1>1, <1>2, <1>4, <2>1
<1>6. ~ (j < i)
  <2> SUFFICES ASSUME j < i PROVE FALSE
    OBVIOUS
  <2>1. (i - 1) * w >= (j - 1) * w + w
    BY <1>3
  <2> QED
    BY <1>1, <1>2, <1>4, <2>1
<1>7. i = j
  BY <1>5, <1>6
<1> QED
  BY <1>1, <1>2, <1>4, <1>7

LEMMA InCells ==
    ASSUME totalSize \in Nat, NEW i \in 1 .. NoOfBlocks, NEW a \in 0 .. BlockSize + 1
    PROVE  IdCell(i) + a \in Cells
<1> DEFINE w == BlockSize + 2
           n == NoOfBlocks
<1>1. w \in Nat \ {0} /\ a \in 0 .. w - 1 /\ n \in Nat
  BY LzssBlocksAssumption, EnoughItems
<1>2. IdCell(i) = (i - 1) * w /\ Cells = 0 .. n * w - 1
  BY DEF IdCell, Cells
<1> HIDE DEF w, n
<1>3. i - 1 \in Nat /\ n - i \in Nat
  BY <1>1 DEF n
<1>4. (i - 1) * w >= 0 /\ (n - i) * w >= 0 /\ (i - 1) * w \in Int /\ (n - i) * w \in Int
  BY <1>1, <1>3
<1>5. n * w = (i - 1) * w + w + (n - i) * w
  BY <1>1, <1>3
<1> QED
  BY <1>1, <1>2, <1>4, <1>5
\* What a write to a cell of one's own part does to all the parts.
LEMMA BlocksWritten ==
    ASSUME IInv, phase = "encode", NEW i \in 1 .. NoOfBlocks, NEW a \in Nat,
           NEW value, Write(IdCell(i) + a, value), phase' # "undefined"
    PROVE  /\ phase' = "encode" /\ DOMAIN outfifo' = Cells
           /\ a \in 0 .. BlockSize + 1 =>
                 /\ outfifo'[IdCell(i) + a] = value
                 /\ \A j \in 1 .. NoOfBlocks, b \in 0 .. BlockSize + 1 :
                       j # i \/ b # a => outfifo'[IdCell(j) + b] = outfifo[IdCell(j) + b]
<1>1. /\ phase' = phase /\ DOMAIN outfifo = Cells
      /\ outfifo' = [outfifo EXCEPT ![IdCell(i) + a] = value]
  BY DEF IInv, TypeOK, Write
<1>2. NoOfBlocks \in Nat /\ totalSize \in Nat
  BY EnoughItems DEF IInv
<1>3. ASSUME a \in 0 .. BlockSize + 1
      PROVE  outfifo'[IdCell(i) + a] = value
  BY <1>1, <1>2, <1>3, InCells
<1>4. ASSUME a \in 0 .. BlockSize + 1,
             NEW j \in 1 .. NoOfBlocks, NEW b \in 0 .. BlockSize + 1, j # i \/ b # a
      PROVE  outfifo'[IdCell(j) + b] = outfifo[IdCell(j) + b]
  <2>1. IdCell(j) + b \in Cells
    BY <1>2, InCells
  <2>2. IdCell(i) + a # IdCell(j) + b
    <3>1. i \in Nat \ {0} /\ j \in Nat \ {0}
      BY <1>2
    <3> QED
      BY <1>4, <3>1, PartsApart
  <2> QED
    BY <1>1, <2>1, <2>2
<1> QED
  BY <1>1, <1>3, <1>4

\* Where the cells of a block are in its part.
LEMMA CellsOfPart ==
    ASSUME NEW i \in Nat \ {0}
    PROVE  /\ IdCell(i) \in Int /\ IdCell(i) = IdCell(i) + 0 /\ LenCell(i) = IdCell(i) + 1
           /\ \A k \in Nat : StringCell(i, k) = IdCell(i) + (1 + k)
<1>1. IdCell(i) \in Int
  BY LzssBlocksAssumption DEF IdCell
<1> QED
  BY <1>1 DEF LenCell, StringCell

\* BlocksApart for one block.
Apart(i) ==
    /\ item[i].at # "start" => outfifo[IdCell(i)] = Id(i)
    /\ \A k \in 1 .. item[i].k : outfifo[StringCell(i, k)] = Symbol(i, k)
    /\ item[i].at = "end" => outfifo[LenCell(i)] = Length(i, item[i].len)

\* A work-item's write leaves the other blocks apart.
LEMMA OthersApart ==
    ASSUME IInv, phase = "encode", Fit, NEW i \in 1 .. NoOfBlocks,
           NEW a \in 0 .. BlockSize + 1,
           NEW value, Write(IdCell(i) + a, value), phase' # "undefined",
           NEW j \in 1 .. NoOfBlocks, j # i, item'[j] = item[j]
    PROVE  Apart(j)'
<1>1. \A b \in 0 .. BlockSize + 1 : outfifo'[IdCell(j) + b] = outfifo[IdCell(j) + b]
  BY BlocksWritten
<1>2. /\ IdCell(j) \in Int /\ IdCell(j) = IdCell(j) + 0 /\ LenCell(j) = IdCell(j) + 1
      /\ \A k \in Nat : StringCell(j, k) = IdCell(j) + (1 + k)
  <2>1. j \in Nat \ {0}
    BY EnoughItems DEF IInv
  <2> QED
    BY <2>1, CellsOfPart
<1>3. Apart(j)
  BY DEF IInv, BlocksApart, Apart
<1>4. BlockSize \in Nat /\ item[j].k \in Nat /\ item[j].k <= item[j].len /\ item[j].len <= BlockSize
      /\ item[j].len \in Nat
  <2>1. j \in 1 .. GlobalSize /\ item \in [1 .. GlobalSize ->
                [at : {"start", "string", "end"}, len : Nat, k : Nat]]
    BY EnoughItems DEF IInv, ItemsOK
  <2> QED
    BY <2>1, LzssBlocksAssumption DEF IInv, ItemsOK, Fit
<1>5. outfifo'[IdCell(j)] = outfifo[IdCell(j)] /\ outfifo'[LenCell(j)] = outfifo[LenCell(j)]
  <2>1. 0 \in 0 .. BlockSize + 1 /\ 1 \in 0 .. BlockSize + 1
    BY <1>4
  <2> QED
    BY <1>1, <1>2, <2>1
<1>6. ASSUME NEW k \in 1 .. item[j].k
      PROVE  outfifo'[StringCell(j, k)] = outfifo[StringCell(j, k)]
  <2>1. k \in Nat /\ 1 + k \in 0 .. BlockSize + 1
    BY <1>4
  <2> QED
    BY <1>1, <1>2, <2>1
<1> QED
  BY <1>3, <1>5, <1>6 DEF Apart, IdCell, LenCell, StringCell, Id, Length, Symbol
-----------------------------------------------------------------------------
(* The steps.                                                              *)

Items == [at : {"start", "string", "end"}, len : Nat, k : Nat]

\* A step of work-item i that writes a cell, in its part if all blocks fit.
LEMMA WriteStep ==
    ASSUME IInv, phase = "encode", NEW i \in 1 .. NoOfBlocks, NEW a \in Nat, NEW value,
           Write(IdCell(i) + a, value), phase' # "undefined", totalSize' = totalSize,
           NEW r \in Items, item' = [item EXCEPT ![i] = r],
           r.at # "start", r.k <= r.len, item[i].len \in {0, r.len},
           r.len <= BlockSize => a <= BlockSize + 1,
           Fit' => Apart(i)'
    PROVE  IInv'
<1>1. /\ NoOfBlocks \in Nat /\ i \in 1 .. GlobalSize /\ GlobalSize \in Nat
      /\ \A j \in 1 .. NoOfBlocks : j \in 1 .. GlobalSize
      /\ NoOfBlocks' = NoOfBlocks /\ GlobalSize' = GlobalSize /\ Cells' = Cells
      /\ BlockSize \in Nat
  BY EnoughItems, LzssBlocksAssumption DEF IInv, NoOfBlocks, GlobalSize, Cells
<1>2. /\ item \in [1 .. GlobalSize -> Items]
      /\ \A j \in DOMAIN item : /\ item[j].k <= item[j].len
                                /\ item[j].at = "start" => item[j].len = 0
      /\ \A j \in DOMAIN item : item[j].at # "start" => j \in 1 .. NoOfBlocks
  BY DEF IInv, ItemsOK, TypeOK, Items
<1>3. /\ item' \in [1 .. GlobalSize -> Items] /\ item'[i] = r
      /\ \A j \in 1 .. GlobalSize : j # i => item'[j] = item[j]
  BY <1>1, <1>2
<1>4. phase' = "encode" /\ DOMAIN outfifo' = Cells
  BY BlocksWritten
<1>5. TypeOK'
  BY <1>1, <1>2, <1>3, <1>4 DEF TypeOK
<1>6. ItemsOK'
  BY <1>1, <1>2, <1>3 DEF ItemsOK, Items
<1>7. ASSUME Fit' PROVE \A j \in 1 .. NoOfBlocks : Apart(j)'
  <2>1. \A j \in 1 .. GlobalSize : item'[j].len <= BlockSize
    BY <1>3, <1>4, <1>7 DEF Fit
  <2>2. a \in 0 .. BlockSize + 1
    BY <1>1, <1>3, <2>1
  <2>3. Fit
    <3> SUFFICES ASSUME NEW j \in 1 .. GlobalSize PROVE item[j].len <= BlockSize
      BY <1>2 DEF Fit
    <3>1. CASE j = i
      BY <1>1, <1>3, <2>1, <3>1
    <3>2. CASE j # i
      BY <1>3, <2>1, <3>2
    <3> QED
      BY <3>1, <3>2
  <2>4. ASSUME NEW j \in 1 .. NoOfBlocks, j # i PROVE Apart(j)'
    BY <1>1, <1>3, <2>2, <2>3, <2>4, OthersApart
  <2> QED
    BY <1>7, <2>4
<1>8. BlocksApart'
  BY <1>1, <1>7 DEF BlocksApart, Apart
<1> QED
  BY <1>5, <1>6, <1>8 DEF IInv

\* A work-item with its block is in its place among the work-items.
LEMMA ItemHasBlock ==
    ASSUME IInv, phase = "encode", NEW i \in DOMAIN item, HasBlock(i) \/ item[i].at # "start"
    PROVE  i \in 1 .. NoOfBlocks /\ item[i] \in Items /\ item \in [1 .. GlobalSize -> Items]
<1>1. item \in [1 .. GlobalSize -> Items] /\ NoOfBlocks \in Nat /\ GlobalSize \in Nat
  BY EnoughItems DEF IInv, ItemsOK, Items
<1>2. HasBlock(i) => i \in 1 .. NoOfBlocks
  BY <1>1 DEF HasBlock
<1>3. item[i].at # "start" => i \in 1 .. NoOfBlocks
  BY DEF IInv, TypeOK
<1> QED
  BY <1>1, <1>2, <1>3

\* A write behind the buffer ends what is said of it.
LEMMA Undefined ==
    ASSUME IInv, phase' \notin {"split", "encode"}, phase' \in Phases,
           totalSize' = totalSize
    PROVE  IInv'
BY DEF IInv, TypeOK, Phases, ItemsOK, BlocksApart

LEMMA CompressedIs ==
    ASSUME NEW i
    PROVE  \A n \in CompressedLengths(i) : n \in Nat /\ (n = 0 <=> NeverEncoded(i))
BY LzssBlocksAssumption DEF CompressedLengths

LEMMA BeginStep == ASSUME IInv, NEW i \in DOMAIN item, BeginBlock(i) PROVE IInv'
<1>1. /\ phase = "encode" /\ item[i].at = "start" /\ HasBlock(i)
      /\ Write(IdCell(i), Id(i)) /\ totalSize' = totalSize
  BY DEF BeginBlock
<1>2. PICK n \in Nat :
         item' = [item EXCEPT ![i] = [at |-> "string", len |-> n, k |-> 0]]
  BY CompressedIs DEF BeginBlock
<1>3. i \in 1 .. NoOfBlocks /\ item[i] \in Items /\ item \in [1 .. GlobalSize -> Items]
  BY <1>1, ItemHasBlock
<1>4. CASE phase' = "undefined"
  BY <1>1, <1>4, Undefined DEF Phases
<1>5. CASE phase' # "undefined"
  <2> DEFINE r == [at |-> "string", len |-> n, k |-> 0]
  <2>1. n \in Nat /\ BlockSize \in Nat
    BY LzssBlocksAssumption
  <2>2. r \in Items /\ r.at # "start" /\ r.k <= r.len /\ r.k = 0 /\ r.at # "end"
    BY <2>1 DEF Items
  <2>3. item[i].len = 0
    BY <1>1 DEF IInv, ItemsOK
  <2>4. i \in Nat \ {0}
    BY <1>3, EnoughItems DEF IInv
  <2>5. Write(IdCell(i) + 0, Id(i)) /\ IdCell(i) = IdCell(i) + 0
    <3>1. IdCell(i) = IdCell(i) + 0
      BY <2>4, CellsOfPart
    <3> QED
      BY <1>1, <3>1
  <2>6. outfifo'[IdCell(i)] = Id(i)
    <3>1. 0 \in 0 .. BlockSize + 1 /\ 0 \in Nat
      BY <2>1
    <3>2. outfifo'[IdCell(i) + 0] = Id(i)
      BY <1>1, <1>3, <1>5, <2>5, <3>1, BlocksWritten
    <3> QED
      BY <2>5, <3>2
  <2>7. item'[i] = r
    BY <1>2, <1>3
  <2>8. Apart(i)'
    BY <2>2, <2>6, <2>7 DEF Apart, IdCell, Id
  <2> HIDE DEF r
  <2>9. item' = [item EXCEPT ![i] = r]
    BY <1>2 DEF r
  <2>10. /\ item[i].len \in {0, r.len} /\ (r.len <= BlockSize => 0 <= BlockSize + 1)
         /\ 0 \in Nat /\ (Fit' => Apart(i)') /\ Write(IdCell(i) + 0, Id(i))
    BY <2>1, <2>3, <2>5, <2>8
  <2> QED
    BY <1>1, <1>3, <1>5, <2>2, <2>9, <2>10, WriteStep, Zenon
<1> QED
  BY <1>4, <1>5

LEMMA SymbolStep == ASSUME IInv, NEW i \in DOMAIN item, WriteSymbol(i) PROVE IInv'
<1> DEFINE j == item[i].k + 1
           a == 1 + j
           r == [item[i] EXCEPT !.k = j]
<1>1. /\ phase = "encode" /\ item[i].at = "string" /\ item[i].k < item[i].len
      /\ item' = [item EXCEPT ![i].k = @ + 1]
      /\ Write(StringCell(i, j), Symbol(i, j)) /\ totalSize' = totalSize
  BY DEF WriteSymbol
<1>2. i \in 1 .. NoOfBlocks /\ item[i] \in Items /\ item \in [1 .. GlobalSize -> Items]
  BY <1>1, ItemHasBlock
<1>3. CASE phase' = "undefined"
  BY <1>1, <1>3, Undefined DEF Phases
<1>4. CASE phase' # "undefined"
  <2>1. item[i].k \in Nat /\ item[i].len \in Nat /\ j \in Nat /\ a \in Nat /\ BlockSize \in Nat
    BY <1>2, LzssBlocksAssumption DEF Items
  <2>2. /\ r \in Items /\ r.at = "string" /\ r.k = j /\ r.len = item[i].len
        /\ r.k <= r.len /\ (r.len <= BlockSize => a <= BlockSize + 1)
    BY <1>1, <1>2, <2>1 DEF Items
  <2>3. item' = [item EXCEPT ![i] = r]
    BY <1>1
  <2>4. i \in Nat \ {0}
    BY <1>2, EnoughItems DEF IInv
  <2>5. /\ IdCell(i) = IdCell(i) + 0
        /\ \A k \in Nat : StringCell(i, k) = IdCell(i) + (1 + k)
    BY <2>4, CellsOfPart
  <2>6. Write(IdCell(i) + a, Symbol(i, j))
    BY <1>1, <2>1, <2>5
  <2>7. item'[i] = r
    BY <1>2, <2>3
  <2> HIDE DEF r
  <2>8. ASSUME Fit' PROVE Apart(i)'
    <3>1. phase' = "encode" /\ r.len <= BlockSize
      <4>1. phase' = "encode"
        BY <1>1, <1>2, <1>4, <2>1, <2>6, BlocksWritten
      <4>2. i \in DOMAIN item'
        BY <1>2, <2>3
      <4> QED
        BY <2>7, <2>8, <4>1, <4>2 DEF Fit
    <3>2. a \in 0 .. BlockSize + 1 /\ 0 \in 0 .. BlockSize + 1
          /\ \A k \in 1 .. item[i].k : k \in Nat /\ 1 + k \in 0 .. BlockSize + 1 /\ 1 + k # a
      BY <2>1, <2>2, <3>1
    <3> HIDE DEF a, j
    <3>3. outfifo'[IdCell(i) + a] = Symbol(i, j)
          /\ \A b \in 0 .. BlockSize + 1 :
                b # a => outfifo'[IdCell(i) + b] = outfifo[IdCell(i) + b]
      BY <1>1, <1>2, <1>4, <2>1, <2>6, <3>2, BlocksWritten
    <3>4. Fit
      <4>1. \A x \in 1 .. GlobalSize : item[x].len <= BlockSize
        <5> SUFFICES ASSUME NEW x \in 1 .. GlobalSize PROVE item[x].len <= BlockSize
          OBVIOUS
        <5>1. CASE x = i
          BY <2>2, <3>1, <5>1
        <5>2. CASE x # i
          <6>1. item'[x] = item[x] /\ x \in DOMAIN item'
            BY <1>2, <2>3, <5>2
          <6> QED
            BY <2>8, <3>1, <6>1 DEF Fit
        <5> QED
          BY <5>1, <5>2
      <4> QED
        BY <1>2, <4>1 DEF Fit
    <3>5. Apart(i)
      BY <1>1, <1>2, <3>4 DEF IInv, BlocksApart, Apart
    <3>6. outfifo'[IdCell(i)] = Id(i)
      <4>1. 0 # a
        BY <2>1 DEF a, j
      <4> QED
        BY <1>1, <2>5, <3>2, <3>3, <3>5, <4>1 DEF Apart
    <3>7. ASSUME NEW k \in 1 .. j PROVE outfifo'[StringCell(i, k)] = Symbol(i, k)
      <4>1. CASE k = j
        BY <2>1, <2>5, <3>3, <4>1 DEF a
      <4>2. CASE k # j
        <5>1. k \in 1 .. item[i].k
          BY <2>1, <4>2 DEF j
        <5> QED
          BY <2>5, <3>2, <3>3, <3>5, <5>1 DEF Apart
      <4> QED
        BY <4>1, <4>2
    <3> QED
      BY <2>2, <2>7, <3>6, <3>7 DEF Apart, IdCell, StringCell, Id, Symbol
  <2> HIDE DEF a
  <2>9. r.at # "start" /\ item[i].len \in {0, r.len}
    BY <2>2
  <2> QED
    BY <1>1, <1>2, <1>4, <2>1, <2>2, <2>3, <2>6, <2>8, <2>9, WriteStep
<1> QED
  BY <1>3, <1>4

LEMMA EndStep == ASSUME IInv, NEW i \in DOMAIN item, EndBlock(i) PROVE IInv'
<1> DEFINE r == [item[i] EXCEPT !.at = "end"]
           value == Length(i, item[i].len)
<1>1. /\ phase = "encode" /\ item[i].at = "string" /\ item[i].k = item[i].len
      /\ item' = [item EXCEPT ![i].at = "end"]
      /\ Write(LenCell(i), value) /\ totalSize' = totalSize
  BY DEF EndBlock
<1>2. i \in 1 .. NoOfBlocks /\ item[i] \in Items /\ item \in [1 .. GlobalSize -> Items]
  BY <1>1, ItemHasBlock
<1>3. CASE phase' = "undefined"
  BY <1>1, <1>3, Undefined DEF Phases
<1>4. CASE phase' # "undefined"
  <2>1. item[i].k \in Nat /\ item[i].len \in Nat /\ BlockSize \in Nat
    BY <1>2, LzssBlocksAssumption DEF Items
  <2>2. /\ r \in Items /\ r.at = "end" /\ r.k = item[i].k /\ r.len = item[i].len
        /\ r.k <= r.len
    BY <1>1, <1>2, <2>1 DEF Items
  <2>3. item' = [item EXCEPT ![i] = r]
    BY <1>1
  <2>4. i \in Nat \ {0}
    BY <1>2, EnoughItems DEF IInv
  <2>5. /\ IdCell(i) = IdCell(i) + 0 /\ LenCell(i) = IdCell(i) + 1
        /\ \A k \in Nat : StringCell(i, k) = IdCell(i) + (1 + k)
    BY <2>4, CellsOfPart
  <2>6. Write(IdCell(i) + 1, value)
    BY <1>1, <2>5
  <2>7. item'[i] = r
    BY <1>2, <2>3
  <2> HIDE DEF r, value
  <2>8. ASSUME Fit' PROVE Apart(i)'
    <3>1. phase' = "encode" /\ DOMAIN item' = 1 .. GlobalSize
      <4>1. phase' = "encode"
        BY <1>1, <1>2, <1>4, <2>6, BlocksWritten
      <4> QED
        BY <1>2, <2>3, <4>1
    <3>2. Fit /\ item[i].len <= BlockSize
      <4>1. \A x \in 1 .. GlobalSize : item[x].len <= BlockSize
        <5> SUFFICES ASSUME NEW x \in 1 .. GlobalSize PROVE item[x].len <= BlockSize
          OBVIOUS
        <5>1. item'[x].len <= BlockSize
          BY <2>8, <3>1 DEF Fit
        <5>2. CASE x = i
          BY <2>2, <2>7, <5>1, <5>2
        <5>3. CASE x # i
          BY <1>2, <2>3, <5>1, <5>3
        <5> QED
          BY <5>2, <5>3
      <4> QED
        BY <1>2, <4>1 DEF Fit
    <3>3. 1 \in 0 .. BlockSize + 1 /\ 0 \in 0 .. BlockSize + 1
          /\ \A k \in 1 .. item[i].k : k \in Nat /\ 1 + k \in 0 .. BlockSize + 1 /\ 1 + k # 1
      BY <1>1, <2>1, <3>2
    <3>4. outfifo'[IdCell(i) + 1] = value
          /\ \A b \in 0 .. BlockSize + 1 :
                b # 1 => outfifo'[IdCell(i) + b] = outfifo[IdCell(i) + b]
      BY <1>1, <1>2, <1>4, <2>6, <3>3, BlocksWritten
    <3>5. Apart(i)
      BY <1>1, <1>2, <3>2 DEF IInv, BlocksApart, Apart
    <3>6. outfifo'[IdCell(i)] = Id(i)
      BY <1>1, <2>5, <3>3, <3>4, <3>5 DEF Apart
    <3>7. ASSUME NEW k \in 1 .. item[i].k PROVE outfifo'[StringCell(i, k)] = Symbol(i, k)
      BY <2>5, <3>3, <3>4, <3>5 DEF Apart
    <3>8. outfifo'[LenCell(i)] = Length(i, item[i].len)
      BY <2>5, <3>4 DEF value
    <3> QED
      BY <2>2, <2>7, <3>6, <3>7, <3>8
         DEF Apart, IdCell, LenCell, StringCell, Id, Length, Symbol
  <2>9. /\ r.at # "start" /\ item[i].len \in {0, r.len} /\ 1 \in Nat
        /\ r.len <= BlockSize => 1 <= BlockSize + 1
    BY <2>1, <2>2
  <2> QED
    BY <1>1, <1>2, <1>4, <2>2, <2>3, <2>6, <2>8, <2>9, WriteStep
<1> QED
  BY <1>3, <1>4

LEMMA InvInit == Init => IInv
<1> SUFFICES ASSUME Init PROVE IInv
  OBVIOUS
<1>1. totalSize \in Nat \ {0} /\ phase = "split"
  BY LzssBlocksAssumption DEF Init
<1> QED
  BY <1>1 DEF IInv, TypeOK, ItemsOK, BlocksApart

LEMMA SplitStep == ASSUME IInv, Split PROVE IInv'
<1>1. /\ phase' = "encode" /\ totalSize' = totalSize
      /\ outfifo' = [c \in Cells |-> Nothing]
      /\ item' = [i \in 1 .. GlobalSize |-> [at |-> "start", len |-> 0, k |-> 0]]
  BY DEF Split
<1>2. /\ NoOfBlocks \in Nat /\ GlobalSize \in Nat /\ NoOfBlocks <= GlobalSize
      /\ NoOfBlocks' = NoOfBlocks /\ GlobalSize' = GlobalSize /\ Cells' = Cells
  BY <1>1, EnoughItems DEF IInv, NoOfBlocks, GlobalSize, Cells
<1>3. \A i \in 1 .. GlobalSize :
         item'[i].at = "start" /\ item'[i].len = 0 /\ item'[i].k = 0
  BY <1>1
<1>4. DOMAIN item' = 1 .. GlobalSize /\ 1 .. NoOfBlocks \subseteq 1 .. GlobalSize
  BY <1>1, <1>2
<1>5. TypeOK'
  BY <1>1, <1>2, <1>3, <1>4 DEF TypeOK
<1>6. ItemsOK'
  BY <1>1, <1>2, <1>3, <1>4 DEF ItemsOK
<1>7. BlocksApart'
  BY <1>2, <1>3, <1>4 DEF BlocksApart
<1> QED
  BY <1>1, <1>5, <1>6, <1>7 DEF IInv

LEMMA InvStep == IInv /\ [Next]_vars => IInv'
<1> SUFFICES ASSUME IInv, [Next]_vars PROVE IInv'
  OBVIOUS
<1>1. CASE Split
  BY <1>1, SplitStep
<1>2. ASSUME NEW i \in DOMAIN item, BeginBlock(i) PROVE IInv'
  BY <1>2, BeginStep
<1>3. ASSUME NEW i \in DOMAIN item, WriteSymbol(i) PROVE IInv'
  BY <1>3, SymbolStep
<1>4. ASSUME NEW i \in DOMAIN item, EndBlock(i) PROVE IInv'
  BY <1>4, EndStep
<1>5. ASSUME NEW i \in DOMAIN item, DecodeBlock(i) PROVE IInv'
  BY <1>5, Undefined DEF DecodeBlock, Phases
<1>6. CASE DriverStops \/ Refuse \/ ReadFails \/ NoKernel \/ CallFails
  BY <1>6, Undefined DEF DriverStops, Refuse, ReadFails, NoKernel, CallFails, Phases
<1>7. CASE Finished \/ WriteFile \/ ParseFile \/ WriteOutput
  <2>1. phase' \in {"write", "undefined", "parse", "decode", "done"}
        /\ totalSize' = totalSize
    BY <1>7 DEF Finished, WriteFile, ParseFile, WriteOutput
  <2> QED
    BY <2>1, Undefined DEF Phases
<1>8. CASE UNCHANGED vars
  <2>1. NoOfBlocks' = NoOfBlocks /\ GlobalSize' = GlobalSize /\ Cells' = Cells
    BY <1>8 DEF vars, NoOfBlocks, GlobalSize, Cells
  <2> QED
    BY <1>8, <2>1 DEF vars, IInv, TypeOK, ItemsOK, BlocksApart, Fit, IdCell, LenCell,
                      StringCell, Id, Length, Symbol
<1> QED
  BY <1>1, <1>2, <1>3, <1>4, <1>5, <1>6, <1>7, <1>8 DEF Next

-----------------------------------------------------------------------------
(* The theorems.                                                           *)

\* The invariant holds in every reachable state: numbers of blocks and
\* work-items fit together, a work-item that has not begun has nothing to
\* write, and no work-item has written outside its part of encdBuff.
THEOREM InvariantHolds == Spec => []IInv
BY InvInit, InvStep, PTL DEF Spec

\* Every block has a work-item, and no work-item without a block writes, for
\* every size of file, block and work-group.
THEOREM ItemsSuffice == Spec => []TypeOK
<1>1. IInv => TypeOK
  BY DEF IInv
<1> QED
  BY <1>1, InvariantHolds, PTL

\* While no block outgrows its place, each work-item's cells of the shared buffer
\* hold what it has written, for every number of blocks and however the
\* work-items interleave.
THEOREM PartsKept == Spec => []BlocksApart
<1>1. IInv => BlocksApart
  BY DEF IInv
<1> QED
  BY <1>1, InvariantHolds, PTL

LEMMA LeastExists ==
    ASSUME NEW S \in SUBSET Nat, S # {}
    PROVE  \E x \in S : \A y \in S : x <= y
<1> DEFINE L == {p \in Nat \X Nat : p[1] < p[2]}
<1>1. IsWellFoundedOn(L, Nat)
  BY NatLessThanWellFounded DEF OpToRel
<1> HIDE DEF L
<1>2. PICK x \in S : \A y \in S : ~ (<<y, x>> \in L)
  BY <1>1, WFMin
<1>3. \A y \in S : x <= y
  <2> SUFFICES ASSUME NEW y \in S PROVE x <= y
    OBVIOUS
  <2>1. x \in Nat /\ y \in Nat
    OBVIOUS
  <2>2. ASSUME y < x PROVE FALSE
    <3>1. <<y, x>> \in L
      BY <2>1, <2>2 DEF L
    <3> QED
      BY <3>1, <1>2
  <2> QED
    BY <2>1, <2>2
<1> QED
  BY <1>3

\* There is a sequence of elements of T that begins with a and goes on by g.
Recursion(T, a, N, g) ==
    \E f \in [0 .. N -> T] : f[0] = a /\ \A k \in 1 .. N : f[k] = g[<<k, f[k - 1]>>]

LEMMA RecursionExists ==
    ASSUME NEW T, NEW a, NEW N, NEW g,
           a \in T, N \in Nat, g \in [(1 .. N) \X T -> T]
    PROVE  Recursion(T, a, N, g)
<1> DEFINE Upto(f, k) == f[0] = a /\ \A j \in 1 .. k : f[j] = g[<<j, f[j - 1]>>]
           Bad == {k \in 0 .. N : \A f \in [0 .. k -> T] : ~ Upto(f, k)}
<1>1. Bad = {}
  <2> SUFFICES ASSUME Bad # {} PROVE FALSE
    OBVIOUS
  <2>1. PICK k \in Bad : \A j \in Bad : k <= j
    <3>1. Bad \in SUBSET Nat
      OBVIOUS
    <3> QED
      BY <3>1, LeastExists
  <2>2. k # 0
    <3>1. [j \in 0 .. 0 |-> a] \in [0 .. 0 -> T] /\ Upto([j \in 0 .. 0 |-> a], 0)
      OBVIOUS
    <3> QED
      BY <3>1
  <2>3. k - 1 \in 0 .. N /\ k - 1 \notin Bad
    <3>1. k \in 0 .. N
      OBVIOUS
    <3> HIDE DEF Bad
    <3>2. k - 1 \in 0 .. N /\ ~ (k <= k - 1)
      BY <3>1, <2>2
    <3> QED
      BY <3>2, <2>1
  <2>4. PICK f \in [0 .. k - 1 -> T] : Upto(f, k - 1)
    BY <2>3
  <2> DEFINE h == [j \in 0 .. k |-> IF j = k THEN g[<<k, f[k - 1]>>] ELSE f[j]]
  <2>5. k \in 1 .. N
    BY <2>1, <2>2
  <2>6. h \in [0 .. k -> T]
    <3>1. <<k, f[k - 1]>> \in (1 .. N) \X T
      BY <2>5, <2>4
    <3>2. g[<<k, f[k - 1]>>] \in T
      BY <3>1
    <3> QED
      BY <3>2, <2>5
  <2>7. Upto(h, k)
    <3>1. h[0] = a
      BY <2>4, <2>5
    <3>2. ASSUME NEW j \in 1 .. k PROVE h[j] = g[<<j, h[j - 1]>>]
      <4>1. h[j - 1] = f[j - 1]
        BY <2>5
      <4>2. CASE j = k
        BY <4>1, <4>2, <2>5
      <4>3. CASE j # k
        <5>1. j \in 1 .. k - 1
          BY <4>3, <2>5
        <5>2. h[j] = f[j]
          BY <4>3, <2>5
        <5> QED
          BY <5>1, <5>2, <4>1, <2>4
      <4> QED
        BY <4>2, <4>3
    <3> QED
      BY <3>1, <3>2
  <2> QED
    BY <2>6, <2>7, <2>1
<1>2. N \notin Bad
  BY <1>1
<1> QED
  BY <1>2 DEF Recursion

\* The concatenations of the prefixes, the last of which FlattenSeq returns.
Parts(X, seqs, f) ==
    /\ f \in [1 .. Len(seqs) -> Seq(X)]
    /\ f[1] = seqs[1]
    /\ \A k \in 2 .. Len(seqs) : f[k] = f[k - 1] \o seqs[k]
    /\ FlattenSeq(seqs) = f[Len(seqs)]

LEMMA FlattenIs ==
    ASSUME NEW X, NEW seqs \in Seq(Seq(X)), Len(seqs) # 0
    PROVE  \E f : Parts(X, seqs, f)
<1> DEFINE N == Len(seqs)
           Def(s) == s = [i \in 1 .. N |-> IF i = 1 THEN seqs[i] ELSE s[i - 1] \o seqs[i]]
           g == [p \in (1 .. N - 1) \X Seq(X) |-> p[2] \o seqs[p[1] + 1]]
<1>1. N \in Nat \ {0} /\ \A k \in 1 .. N : seqs[k] \in Seq(X)
  OBVIOUS
<1> HIDE DEF N
<1>2. g \in [(1 .. N - 1) \X Seq(X) -> Seq(X)]
  <2> SUFFICES ASSUME NEW p \in (1 .. N - 1) \X Seq(X) PROVE p[2] \o seqs[p[1] + 1] \in Seq(X)
    OBVIOUS
  <2>1. p[1] + 1 \in 1 .. N /\ p[2] \in Seq(X)
    BY <1>1
  <2>2. seqs[p[1] + 1] \in Seq(X)
    BY <2>1, <1>1
  <2> QED
    BY <2>1, <2>2, ConcatProperties
<1>3. PICK h \in [0 .. N - 1 -> Seq(X)] :
         h[0] = seqs[1] /\ \A k \in 1 .. N - 1 : h[k] = g[<<k, h[k - 1]>>]
  <2> HIDE DEF g
  <2>1. seqs[1] \in Seq(X) /\ N - 1 \in Nat
    BY <1>1
  <2>2. Recursion(Seq(X), seqs[1], N - 1, g)
    BY <1>2, <2>1, RecursionExists, Zenon
  <2> QED
    BY <2>2 DEF Recursion
<1> DEFINE f == [i \in 1 .. N |-> h[i - 1]]
<1>4. ASSUME NEW k \in 2 .. N PROVE f[k] = f[k - 1] \o seqs[k]
  <2>1. /\ k - 1 \in 1 .. N - 1 /\ (k - 1) + 1 = k /\ h[(k - 1) - 1] \in Seq(X)
        /\ k \in 1 .. N /\ k - 1 \in 1 .. N
    BY <1>1
  <2>2. h[k - 1] = g[<<k - 1, h[(k - 1) - 1]>>]
    BY <2>1, <1>3
  <2>3. g[<<k - 1, h[(k - 1) - 1]>>] = h[(k - 1) - 1] \o seqs[k]
    BY <2>1
  <2>4. f[k] = h[k - 1] /\ f[k - 1] = h[(k - 1) - 1]
    BY <2>1
  <2> QED
    BY <2>2, <2>3, <2>4
<1>5. f \in [1 .. N -> Seq(X)] /\ f[1] = seqs[1]
  BY <1>1, <1>3
<1> HIDE DEF f
<1>6. Def(f)
  <2>1. ASSUME NEW i \in 1 .. N PROVE f[i] = IF i = 1 THEN seqs[i] ELSE f[i - 1] \o seqs[i]
    <3>1. i # 1 => i \in 2 .. N
      BY <1>1
    <3> QED
      BY <3>1, <1>4, <1>5
  <2> QED
    BY <2>1, <1>5
<1> DEFINE s == CHOOSE x : Def(x)
<1>7. Def(s)
  <2> HIDE DEF Def
  <2> QED
    BY <1>6
<1>8. FlattenSeq(seqs) = s[N]
  BY DEF FlattenSeq, N
<1> HIDE DEF s
<1>9. \A i \in 1 .. N : s[i] = IF i = 1 THEN seqs[i] ELSE s[i - 1] \o seqs[i]
  BY <1>7, Zenon
<1>10. s[1] = seqs[1] /\ \A i \in 2 .. N : s[i] = s[i - 1] \o seqs[i]
  <2>1. 1 \in 1 .. N /\ \A i \in 2 .. N : i \in 1 .. N /\ i # 1
    BY <1>1
  <2> QED
    BY <1>9, <2>1, Zenon
<1>11. s = [i \in 1 .. N |-> s[i]]
  BY <1>7, Zenon
<1> HIDE DEF Def
<1> DEFINE Bad == {k \in 1 .. N : s[k] # f[k]}
<1>12. Bad = {}
  <2> SUFFICES ASSUME Bad # {} PROVE FALSE
    OBVIOUS
  <2>1. PICK k \in Bad : \A j \in Bad : k <= j
    <3>1. Bad \in SUBSET Nat
      BY <1>1
    <3> QED
      BY <3>1, LeastExists
  <2>2. k \in 2 .. N /\ k - 1 \in 1 .. N
    BY <1>1, <1>5, <1>10
  <2>3. s[k - 1] = f[k - 1]
    BY <2>1, <2>2, <1>1
  <2>4. s[k] = s[k - 1] \o seqs[k]
    BY <2>2, <1>10
  <2> QED
    BY <2>1, <2>2, <2>3, <2>4, <1>4
<1>13. s = f
  BY <1>5, <1>12, <1>11
<1> QED
  BY <1>1, <1>4, <1>5, <1>8, <1>13 DEF Parts, N

-----------------------------------------------------------------------------
(* Numbers as text, and back.                                              *)

\* The values of the beginnings of a text.
Values(t, f) ==
    /\ f \in [0 .. Len(t) -> Nat] /\ f[0] = 0
    /\ \A k \in 1 .. Len(t) : f[k] = f[k - 1] * Base + t[k]

LEMMA ValuesExist ==
    ASSUME NEW t \in Seq(Nat)
    PROVE  \E f : Values(t, f)
<1> DEFINE g == [p \in (1 .. Len(t)) \X Nat |-> p[2] * Base + t[p[1]]]
<1>1. g \in [(1 .. Len(t)) \X Nat -> Nat]
  <2> SUFFICES ASSUME NEW p \in (1 .. Len(t)) \X Nat PROVE p[2] * Base + t[p[1]] \in Nat
    OBVIOUS
  <2>1. t[p[1]] \in Nat /\ p[2] \in Nat /\ Base \in Nat
    BY LzssBlocksAssumption
  <2>2. p[2] * Base \in Nat
    BY <2>1
  <2> QED
    BY <2>1, <2>2
<1>2. Recursion(Nat, 0, Len(t), g)
  <2> HIDE DEF g
  <2>1. 0 \in Nat /\ Len(t) \in Nat
    OBVIOUS
  <2> QED
    BY <1>1, <2>1, RecursionExists, Zenon
<1>3. PICK f \in [0 .. Len(t) -> Nat] :
         f[0] = 0 /\ \A k \in 1 .. Len(t) : f[k] = g[<<k, f[k - 1]>>]
  BY <1>2 DEF Recursion
<1>4. ASSUME NEW k \in 1 .. Len(t) PROVE f[k] = f[k - 1] * Base + t[k]
  <2>1. k - 1 \in 0 .. Len(t)
    OBVIOUS
  <2>2. <<k, f[k - 1]>> \in (1 .. Len(t)) \X Nat
    BY <2>1
  <2> QED
    BY <1>3, <2>2
<1> QED
  BY <1>3, <1>4 DEF Values

LEMMA ValueIs ==
    ASSUME NEW t \in Seq(Nat), NEW f, Values(t, f)
    PROVE  ValueOf(t) = f[Len(t)]
<1> DEFINE N == Len(t)
           F(s, k) == IF k = 0 THEN 0 ELSE s[k - 1] * Base + t[k]
           Def(s) == s = [k \in 0 .. N |-> IF k = 0 THEN 0 ELSE s[k - 1] * Base + t[k]]
           s == CHOOSE x : Def(x)
<1>1. N \in Nat
  OBVIOUS
<1>2. ValueOf(t) = s[N]
  BY Zenon DEF ValueOf
<1>3. /\ f \in [0 .. N -> Nat] /\ f[0] = 0
      /\ \A k \in 1 .. N : f[k] = f[k - 1] * Base + t[k]
  BY DEF Values
<1> HIDE DEF N
<1>4. Def(f)
  <2>1. ASSUME NEW k \in 0 .. N PROVE f[k] = IF k = 0 THEN 0 ELSE f[k - 1] * Base + t[k]
    <3>1. k # 0 => k \in 1 .. N
      BY <1>1
    <3> QED
      BY <1>3, <3>1
  <2> QED
    BY <1>3, <2>1
<1>5. Def(s)
  <2> HIDE DEF Def
  <2> QED
    BY <1>4
<1> HIDE DEF s
<1>6. \A k \in 0 .. N : s[k] = IF k = 0 THEN 0 ELSE s[k - 1] * Base + t[k]
  BY <1>5, Zenon
<1> HIDE DEF Def
<1> DEFINE Bad == {k \in 0 .. N : s[k] # f[k]}
<1>7. Bad = {}
  <2> SUFFICES ASSUME Bad # {} PROVE FALSE
    OBVIOUS
  <2>1. PICK k \in Bad : \A j \in Bad : k <= j
    <3>1. Bad \in SUBSET Nat
      OBVIOUS
    <3> QED
      BY <3>1, LeastExists
  <2>2. k \in 0 .. N /\ s[k] # f[k]
    OBVIOUS
  <2>3. k # 0
    BY <1>3, <1>6, <2>2
  <2>4. k \in 1 .. N /\ k - 1 \in 0 .. N /\ ~ (k <= k - 1)
    BY <1>1, <2>2, <2>3
  <2>5. s[k - 1] = f[k - 1]
    BY <2>1, <2>4
  <2> QED
    BY <1>3, <1>6, <2>2, <2>3, <2>4, <2>5
<1>8. N \in 0 .. N
  BY <1>1
<1> QED
  BY <1>2, <1>7, <1>8 DEF N

LEMMA ValueAppend ==
    ASSUME NEW t \in Seq(Nat), NEW d \in Nat
    PROVE  ValueOf(t) \in Nat /\ ValueOf(t \o <<d>>) = ValueOf(t) * Base + d
<1>1. PICK f : Values(t, f)
  BY ValuesExist
<1> DEFINE N == Len(t)
           u == t \o <<d>>
           g == [k \in 0 .. N + 1 |-> IF k = N + 1 THEN f[N] * Base + d ELSE f[k]]
<1>2. /\ N \in Nat /\ u \in Seq(Nat) /\ Len(u) = N + 1
      /\ \A k \in 1 .. N : u[k] = t[k]
      /\ u[N + 1] = d
  OBVIOUS
<1>3. /\ f \in [0 .. N -> Nat] /\ f[0] = 0
      /\ \A k \in 1 .. N : f[k] = f[k - 1] * Base + t[k]
  BY <1>1 DEF Values
<1>4. f[N] \in Nat /\ Base \in Nat /\ f[N] * Base \in Nat
  <2>1. f[N] \in Nat /\ Base \in Nat
    BY <1>2, <1>3, LzssBlocksAssumption
  <2> QED
    BY <2>1
<1> HIDE DEF N, u
<1>5. g \in [0 .. N + 1 -> Nat] /\ g[0] = 0
  <2>1. \A k \in 0 .. N + 1 : k # N + 1 => k \in 0 .. N
    BY <1>2
  <2>2. f[N] * Base + d \in Nat
    BY <1>4
  <2>3. g \in [0 .. N + 1 -> Nat]
    BY <1>3, <2>1, <2>2
  <2>4. 0 \in 0 .. N + 1 /\ 0 # N + 1
    BY <1>2
  <2> QED
    BY <1>3, <2>3, <2>4
<1>6. ASSUME NEW k \in 1 .. N + 1 PROVE g[k] = g[k - 1] * Base + u[k]
  <2>1. k - 1 \in 0 .. N + 1 /\ k \in 0 .. N + 1 /\ k - 1 # N + 1
    BY <1>2
  <2>2. g[k - 1] = f[k - 1]
    BY <2>1
  <2>3. CASE k = N + 1
    <3>1. k - 1 = N
      BY <1>2, <2>3
    <3> QED
      BY <1>2, <2>1, <2>2, <2>3, <3>1
  <2>4. CASE k # N + 1
    <3>1. k \in 1 .. N
      BY <1>2, <2>4
    <3> QED
      BY <1>2, <1>3, <2>1, <2>2, <2>4, <3>1
  <2> QED
    BY <2>3, <2>4
<1>7. Values(u, g)
  BY <1>2, <1>5, <1>6 DEF Values
<1>8. ValueOf(u) = g[N + 1]
  <2> HIDE DEF g
  <2> QED
    BY <1>2, <1>7, ValueIs
<1>9. ValueOf(t) = f[N]
  BY <1>1, ValueIs DEF N
<1>10. g[N + 1] = f[N] * Base + d
  BY <1>2
<1> QED
  BY <1>4, <1>8, <1>9, <1>10 DEF u

LEMMA ValueOfDigit ==
    ASSUME NEW d \in Nat
    PROVE  ValueOf(<<d>>) = d
<1> DEFINE f == [k \in 0 .. 1 |-> IF k = 0 THEN 0 ELSE d]
           t == <<d>>
<1>1. t \in Seq(Nat) /\ Len(t) = 1 /\ t[1] = d
  OBVIOUS
<1> HIDE DEF t
<1>2. Values(t, f)
  <2>1. f \in [0 .. 1 -> Nat] /\ f[0] = 0 /\ f[1] = d
    OBVIOUS
  <2>2. \A k \in 1 .. 1 : k = 1 /\ k - 1 = 0
    OBVIOUS
  <2>3. 0 * Base + d = d
    BY LzssBlocksAssumption
  <2> HIDE DEF f
  <2> QED
    BY <1>1, <2>1, <2>2, <2>3 DEF Values
<1>3. ValueOf(t) = f[1]
  <2> HIDE DEF f
  <2> QED
    BY <1>1, <1>2, ValueIs
<1> QED
  BY <1>3 DEF t

\* The texts of the numbers up to n.
Texts(n, f) ==
    /\ f \in [0 .. n -> Seq(Nat)]
    /\ \A k \in 0 .. n :
          f[k] = IF k < Base THEN <<k>> ELSE f[k \div Base] \o <<k % Base>>

\* Without its last digit a number is smaller.
LEMMA WithoutLast ==
    ASSUME NEW k \in Nat, k >= Base
    PROVE  /\ k \div Base \in Nat /\ k \div Base < k /\ k % Base \in Nat
           /\ (k \div Base) * Base + (k % Base) = k
<1> DEFINE q == k \div Base
           r == k % Base
<1>1. Base \in Nat /\ Base >= 2
  BY LzssBlocksAssumption
<1>2. q \in Int /\ r \in 0 .. Base - 1 /\ k = Base * q + r
  BY <1>1
<1> HIDE DEF q, r
<1>3. q >= 0
  <2> SUFFICES ASSUME q <= -1 PROVE FALSE
    BY <1>2
  <2>1. Base * q <= -Base
    BY <1>1, <1>2
  <2> QED
    BY <1>1, <1>2, <2>1
<1>4. Base * q >= 2 * q /\ Base * q = q * Base
  BY <1>1, <1>2, <1>3
<1>5. q < k
  <2>1. CASE q = 0
    BY <1>1, <2>1
  <2>2. CASE q # 0
    BY <1>1, <1>2, <1>3, <1>4, <2>2
  <2> QED
    BY <2>1, <2>2
<1>6. q \in Nat /\ q < k /\ r \in Nat /\ q * Base + r = k
  BY <1>1, <1>2, <1>3, <1>4, <1>5
<1> QED
  BY <1>6 DEF q, r

LEMMA TextsExist ==
    ASSUME NEW n \in Nat
    PROVE  \E f : Texts(n, f)
<1> DEFINE Bad == {m \in Nat : ~ \E f : Texts(m, f)}
<1>1. Bad = {}
  <2> SUFFICES ASSUME Bad # {} PROVE FALSE
    OBVIOUS
  <2>1. PICK m \in Bad : \A j \in Bad : m <= j
    <3>1. Bad \in SUBSET Nat
      OBVIOUS
    <3> QED
      BY <3>1, LeastExists
  <2>2. m \in Nat /\ ~ \E f : Texts(m, f)
    OBVIOUS
  <2>3. Base \in Nat /\ Base >= 2
    BY LzssBlocksAssumption
  <2>4. CASE m = 0
    <3> DEFINE f == [k \in 0 .. 0 |-> <<0>>]
    <3>1. f \in [0 .. m -> Seq(Nat)] /\ \A k \in 0 .. m : k < Base /\ f[k] = <<k>>
      BY <2>3, <2>4
    <3>2. Texts(m, f)
      BY <3>1 DEF Texts
    <3> QED
      BY <2>2, <3>2
  <2>5. CASE m # 0
    <3>1. m - 1 \in Nat /\ ~ (m <= m - 1)
      BY <2>2, <2>5
    <3>2. PICK f : Texts(m - 1, f)
      BY <2>1, <3>1
    <3>3. /\ f \in [0 .. m - 1 -> Seq(Nat)]
          /\ \A k \in 0 .. m - 1 :
                f[k] = IF k < Base THEN <<k>> ELSE f[k \div Base] \o <<k % Base>>
      BY <3>2 DEF Texts
    <3> DEFINE T(g, k) == IF k < Base THEN <<k>> ELSE g[k \div Base] \o <<k % Base>>
               h == [k \in 0 .. m |-> IF k = m THEN T(f, m) ELSE f[k]]
    <3>4. T(f, m) \in Seq(Nat)
      <4>1. CASE m < Base
        BY <2>2, <4>1
      <4>2. CASE ~ (m < Base)
        <5>1. m \div Base \in 0 .. m - 1 /\ m % Base \in Nat
          BY <2>2, <2>3, <4>2, WithoutLast
        <5>2. f[m \div Base] \in Seq(Nat) /\ <<m % Base>> \in Seq(Nat)
          BY <3>3, <5>1
        <5>3. f[m \div Base] \o <<m % Base>> \in Seq(Nat)
          BY <5>2, ConcatProperties
        <5> QED
          BY <4>2, <5>3
      <4> QED
        BY <4>1, <4>2
    <3> HIDE DEF T
    <3>5. h \in [0 .. m -> Seq(Nat)]
      <4>1. \A k \in 0 .. m : k # m => k \in 0 .. m - 1
        BY <2>2
      <4> QED
        BY <3>3, <3>4, <4>1
    <3>6. \A k \in 0 .. m - 1 : h[k] = f[k]
      BY <2>2
    <3>7. ASSUME NEW k \in 0 .. m PROVE h[k] = T(h, k)
      <4>1. T(h, k) = T(f, k)
        <5>1. CASE k < Base
          BY <5>1 DEF T
        <5>2. CASE ~ (k < Base)
          <6>1. k \div Base \in 0 .. m - 1
            BY <2>2, <2>3, <5>2, WithoutLast
          <6>2. h[k \div Base] = f[k \div Base]
            BY <3>6, <6>1
          <6> QED
            BY <6>2 DEF T
        <5> QED
          BY <5>1, <5>2
      <4>2. CASE k = m
        BY <4>1, <4>2
      <4>3. CASE k # m
        <5>1. k \in 0 .. m - 1
          BY <2>2, <4>3
        <5> QED
          BY <3>3, <3>6, <4>1, <5>1 DEF T
      <4> QED
        BY <4>2, <4>3
    <3> HIDE DEF h
    <3>8. Texts(m, h)
      BY <3>5, <3>7 DEF Texts, T
    <3> QED
      BY <2>2, <3>8
  <2> QED
    BY <2>4, <2>5
<1> QED
  BY <1>1

LEMMA TextsBack ==
    ASSUME NEW n \in Nat, NEW f, Texts(n, f)
    PROVE  \A k \in 0 .. n : ValueOf(f[k]) = k
<1> DEFINE Bad == {k \in 0 .. n : ValueOf(f[k]) # k}
<1>1. /\ f \in [0 .. n -> Seq(Nat)]
      /\ \A k \in 0 .. n :
            f[k] = IF k < Base THEN <<k>> ELSE f[k \div Base] \o <<k % Base>>
  BY DEF Texts
<1>2. Bad = {}
  <2> SUFFICES ASSUME Bad # {} PROVE FALSE
    OBVIOUS
  <2>1. PICK k \in Bad : \A j \in Bad : k <= j
    <3>1. Bad \in SUBSET Nat
      OBVIOUS
    <3> QED
      BY <3>1, LeastExists
  <2>2. k \in 0 .. n /\ k \in Nat /\ ValueOf(f[k]) # k
    OBVIOUS
  <2>3. CASE k < Base
    BY <1>1, <2>2, <2>3, ValueOfDigit
  <2>4. CASE ~ (k < Base)
    <3> DEFINE q == k \div Base
               r == k % Base
    <3>1. q \in Nat /\ q < k /\ r \in Nat /\ q * Base + r = k
      BY <2>2, <2>4, WithoutLast, LzssBlocksAssumption
    <3>2. f[k] = f[q] \o <<r>>
      BY <1>1, <2>2, <2>4
    <3> HIDE DEF q, r
    <3>3. q \in 0 .. n /\ ~ (k <= q)
      BY <2>2, <3>1
    <3>4. f[q] \in Seq(Nat) /\ ValueOf(f[q]) = q
      BY <1>1, <2>1, <3>3
    <3>5. ValueOf(f[q] \o <<r>>) = ValueOf(f[q]) * Base + r
      BY <3>1, <3>4, ValueAppend
    <3> QED
      BY <2>2, <3>1, <3>2, <3>4, <3>5
  <2> QED
    BY <2>3, <2>4
<1> QED
  BY <1>2

\* atoi returns the number that sprintf wrote.
LEMMA DigitsBack ==
    ASSUME NEW n \in Nat
    PROVE  Digits(n) \in Seq(Nat) /\ ValueOf(Digits(n)) = n
<1> DEFINE Def(s) == s = [k \in 0 .. n |-> IF k < Base THEN <<k>>
                                           ELSE s[k \div Base] \o <<k % Base>>]
           s == CHOOSE x : Def(x)
<1>1. PICK f : Texts(n, f)
  BY TextsExist
<1>2. Def(f)
  BY <1>1, Zenon DEF Texts
<1>3. Def(s)
  <2> HIDE DEF Def
  <2> QED
    BY <1>2
<1>4. Digits(n) = s[n]
  BY Zenon DEF Digits
<1> HIDE DEF s
<1>5. /\ s = [k \in 0 .. n |-> s[k]]
      /\ \A k \in 0 .. n : s[k] = IF k < Base THEN <<k>> ELSE s[k \div Base] \o <<k % Base>>
  BY <1>3, Zenon
<1> HIDE DEF Def
<1> DEFINE Bad == {k \in 0 .. n : s[k] # f[k]}
<1>6. Bad = {}
  <2> SUFFICES ASSUME Bad # {} PROVE FALSE
    OBVIOUS
  <2>1. PICK k \in Bad : \A j \in Bad : k <= j
    <3>1. Bad \in SUBSET Nat
      OBVIOUS
    <3> QED
      BY <3>1, LeastExists
  <2>2. k \in 0 .. n /\ k \in Nat /\ s[k] # f[k]
    OBVIOUS
  <2>3. f[k] = IF k < Base THEN <<k>> ELSE f[k \div Base] \o <<k % Base>>
    BY <1>1, <2>2 DEF Texts
  <2>4. ~ (k < Base)
    BY <1>5, <2>2, <2>3
  <2>5. k \div Base \in 0 .. n /\ ~ (k <= k \div Base)
    BY <2>2, <2>4, WithoutLast, LzssBlocksAssumption
  <2>6. s[k \div Base] = f[k \div Base]
    BY <2>1, <2>5
  <2>7. s[k] = s[k \div Base] \o <<k % Base>>
    BY <1>5, <2>2, <2>4
  <2> QED
    BY <2>2, <2>3, <2>4, <2>6, <2>7
<1>7. n \in 0 .. n
  OBVIOUS
<1>8. s[n] = f[n]
  BY <1>6, <1>7
<1>9. f[n] \in Seq(Nat) /\ ValueOf(f[n]) = n
  BY <1>1, <1>7, TextsBack DEF Texts
<1> QED
  BY <1>4, <1>8, <1>9

-----------------------------------------------------------------------------
(* Where the rows are in the file.                                         *)

\* Row k of seqs is in s from p[k - 1] on.
Placed(s, seqs, p) ==
    /\ p \in [0 .. Len(seqs) -> Nat] /\ p[0] = 0 /\ p[Len(seqs)] = Len(s)
    /\ \A k \in 1 .. Len(seqs) :
          /\ p[k] = p[k - 1] + Len(seqs[k]) /\ p[k] <= Len(s)
          /\ \A i \in 1 .. Len(seqs[k]) : s[p[k - 1] + i] = seqs[k][i]

LEMMA FlattenPlaces ==
    ASSUME NEW X, NEW seqs \in Seq(Seq(X)), Len(seqs) # 0
    PROVE  /\ FlattenSeq(seqs) \in Seq(X)
           /\ \E p : Placed(FlattenSeq(seqs), seqs, p)
<1> DEFINE N == Len(seqs)
<1>1. PICK f : Parts(X, seqs, f)
  BY FlattenIs
<1>2. /\ f \in [1 .. N -> Seq(X)] /\ f[1] = seqs[1]
      /\ \A k \in 2 .. N : f[k] = f[k - 1] \o seqs[k]
      /\ FlattenSeq(seqs) = f[N]
  BY <1>1 DEF Parts
<1>3. N \in Nat \ {0} /\ \A k \in 1 .. N : seqs[k] \in Seq(X) /\ Len(seqs[k]) \in Nat
  OBVIOUS
<1> HIDE DEF N
<1>4. ASSUME NEW k \in 2 .. N
      PROVE  /\ k - 1 \in 1 .. N /\ k \in 1 .. N
             /\ Len(f[k]) = Len(f[k - 1]) + Len(seqs[k])
             /\ \A i \in 1 .. Len(f[k - 1]) : f[k][i] = f[k - 1][i]
             /\ \A i \in 1 .. Len(seqs[k]) : f[k][Len(f[k - 1]) + i] = seqs[k][i]
  <2>1. k - 1 \in 1 .. N /\ k \in 1 .. N
    BY <1>3
  <2>2. f[k - 1] \in Seq(X) /\ seqs[k] \in Seq(X) /\ f[k] = f[k - 1] \o seqs[k]
    BY <1>2, <1>3, <2>1
  <2>3. ASSUME NEW a \in Seq(X), NEW b \in Seq(X)
        PROVE  /\ Len(a \o b) = Len(a) + Len(b)
               /\ \A i \in 1 .. Len(a) : (a \o b)[i] = a[i]
               /\ \A i \in 1 .. Len(b) : (a \o b)[Len(a) + i] = b[i]
    OBVIOUS
  <2>4. /\ Len(f[k - 1] \o seqs[k]) = Len(f[k - 1]) + Len(seqs[k])
        /\ \A i \in 1 .. Len(f[k - 1]) : (f[k - 1] \o seqs[k])[i] = f[k - 1][i]
        /\ \A i \in 1 .. Len(seqs[k]) :
              (f[k - 1] \o seqs[k])[Len(f[k - 1]) + i] = seqs[k][i]
    BY <2>2, <2>3, Zenon
  <2> QED
    BY <2>1, <2>2, <2>4, Zenon
<1> DEFINE p == [k \in 0 .. N |-> IF k = 0 THEN 0 ELSE Len(f[k])]
<1>5. p \in [0 .. N -> Nat] /\ p[0] = 0 /\ \A k \in 1 .. N : p[k] = Len(f[k])
  <2>1. \A k \in 0 .. N : k # 0 => k \in 1 .. N
    OBVIOUS
  <2>2. \A k \in 1 .. N : Len(f[k]) \in Nat
    BY <1>2
  <2>3. 0 \in 0 .. N /\ \A k \in 1 .. N : k \in 0 .. N /\ k # 0
    BY <1>3
  <2> QED
    BY <2>1, <2>2, <2>3
<1> HIDE DEF p
<1>6. ASSUME NEW k \in 1 .. N
      PROVE  /\ p[k] = p[k - 1] + Len(seqs[k])
             /\ \A i \in 1 .. Len(seqs[k]) : f[k][p[k - 1] + i] = seqs[k][i]
  <2>1. CASE k = 1
    <3>1. k - 1 = 0 /\ \A i \in 1 .. Len(seqs[k]) : 0 + i = i
      BY <2>1
    <3> QED
      BY <1>2, <1>3, <1>5, <2>1, <3>1
  <2>2. CASE k # 1
    <3>1. k \in 2 .. N
      BY <2>2
    <3> QED
      BY ZenonT(30), <1>4, <1>5, <3>1
  <2> QED
    BY <2>1, <2>2
<1>7. ASSUME NEW k \in 1 .. N
      PROVE  \A j \in k .. N : /\ Len(f[k]) <= Len(f[j])
                               /\ \A i \in 1 .. Len(f[k]) : f[j][i] = f[k][i]
  <2> DEFINE Good(j) == /\ Len(f[k]) <= Len(f[j])
                        /\ \A i \in 1 .. Len(f[k]) : f[j][i] = f[k][i]
             Bad == {j \in k .. N : ~ Good(j)}
  <2>1. Bad = {}
    <3> SUFFICES ASSUME Bad # {} PROVE FALSE
      OBVIOUS
    <3>1. PICK j \in Bad : \A l \in Bad : j <= l
      <4>1. Bad \in SUBSET Nat
        OBVIOUS
      <4> QED
        BY <4>1, LeastExists
    <3>2. j \in k .. N /\ ~ Good(j)
      OBVIOUS
    <3>3. Len(f[k]) \in Nat
      BY <1>2
    <3>4. j # k
      BY <3>2, <3>3
    <3>5. j \in 2 .. N /\ j - 1 \in k .. N /\ ~ (j <= j - 1)
      BY <1>3, <3>2, <3>4
    <3>6. Good(j - 1)
      <4> HIDE DEF Good
      <4> QED
        BY <3>1, <3>5
    <3>7. Len(f[j - 1]) \in Nat /\ Len(seqs[j]) \in Nat
      BY <1>2, <1>3, <3>5
    <3>8. Len(f[j]) = Len(f[j - 1]) + Len(seqs[j])
          /\ \A i \in 1 .. Len(f[j - 1]) : f[j][i] = f[j - 1][i]
      BY <1>4, <3>5
    <3>9. Len(f[k]) <= Len(f[j - 1]) /\ \A i \in 1 .. Len(f[k]) : i \in 1 .. Len(f[j - 1])
      BY <3>3, <3>6, <3>7
    <3>10. Len(f[k]) <= Len(f[j])
      <4>1. Len(f[j]) = Len(f[j - 1]) + Len(seqs[j]) /\ Len(f[k]) <= Len(f[j - 1])
        BY <3>8, <3>9
      <4>2. ASSUME NEW a \in Nat, NEW b \in Nat, NEW c \in Nat, a <= b
            PROVE  a <= b + c
        BY <4>2
      <4> QED
        BY <3>3, <3>7, <4>1, <4>2, Zenon
    <3>11. Good(j)
      BY <3>6, <3>8, <3>9, <3>10
    <3> QED
      BY <3>2, <3>11
  <2> QED
    BY <2>1
<1>8. Placed(f[N], seqs, p)
  <2>1. N \in 1 .. N
    BY <1>3
  <2>2. ASSUME NEW k \in 1 .. N
        PROVE  /\ p[k] = p[k - 1] + Len(seqs[k]) /\ p[k] <= Len(f[N])
               /\ \A i \in 1 .. Len(seqs[k]) : f[N][p[k - 1] + i] = seqs[k][i]
    <3>1. N \in k .. N
      BY <1>3
    <3>2. p[k] <= Len(f[N]) /\ \A i \in 1 .. p[k] : f[N][i] = f[k][i]
      BY <1>5, <1>7, <3>1
    <3>3. p[k - 1] \in Nat /\ Len(seqs[k]) \in Nat /\ p[k] = p[k - 1] + Len(seqs[k])
      <4>1. k - 1 \in 0 .. N
        BY <1>3
      <4> QED
        BY <1>3, <1>5, <1>6, <4>1
    <3>4. \A i \in 1 .. Len(seqs[k]) : p[k - 1] + i \in 1 .. p[k]
      BY <3>3
    <3> QED
      BY <1>6, <3>2, <3>4
  <2> QED
    BY <1>5, <2>1, <2>2 DEF Placed, N
<1>9. f[N] \in Seq(X)
  BY <1>2, <1>3
<1> QED
  BY <1>2, <1>8, <1>9

Kinds == {"none", "id", "len", "symbol"}
Cell == [by : Nat, is : Kinds, n : Nat]
FileCell == Nat \cup Cell

\* t is in f behind the first x cells.
Holds(f, x, t) ==
    /\ x + Len(t) <= Len(f)
    /\ \A i \in 1 .. Len(t) : f[x + i] = t[i]

LEMMA HeldIs ==
    ASSUME NEW X, NEW f \in Seq(X), NEW x \in Nat, NEW t \in Seq(X), Holds(f, x, t)
    PROVE  SubSeq(f, x + 1, x + Len(t)) = t
<1> DEFINE s == SubSeq(f, x + 1, x + Len(t))
           n == Len(t)
           m == Len(f)
<1>1. n \in Nat /\ m \in Nat /\ x + n <= m
  BY DEF Holds
<1> HIDE DEF n, m
<1>2. /\ Len(s) = n /\ s \in Seq(X)
      /\ \A i \in 1 .. n : s[i] = f[x + i]
  <2>1. \A i \in x + 1 .. x + n : i \in 1 .. m /\ i \in 1 .. Len(f)
    BY <1>1 DEF m
  <2>2. \A i \in x + 1 .. x + n : f[i] \in X
    BY <2>1
  <2>3. s = SubSeq(f, x + 1, x + n)
    BY DEF n
  <2>4. /\ SubSeq(f, x + 1, x + n) \in Seq(X)
        /\ Len(SubSeq(f, x + 1, x + n)) = n
        /\ \A i \in 1 .. n : SubSeq(f, x + 1, x + n)[i] = f[x + i]
    BY <1>1, <2>1, <2>2, SubSeqProperties
  <2> QED
    BY <2>3, <2>4
<1> HIDE DEF s
<1>3. \A i \in 1 .. n : s[i] = t[i]
  BY <1>2 DEF Holds, n
<1>4. s = t
  BY <1>2, <1>3, SeqEqual DEF n
<1> QED
  BY <1>4 DEF s

\* A number is its digits behind their number.
LEMMA AsTextIs ==
    ASSUME NEW n \in Nat
    PROVE  /\ AsText(n) \in Seq(Nat) /\ Len(AsText(n)) = 1 + Len(Digits(n))
           /\ AsText(n)[1] = Len(Digits(n)) /\ Len(Digits(n)) \in Nat
           /\ \A i \in 1 .. Len(Digits(n)) : AsText(n)[1 + i] = Digits(n)[i]
<1> DEFINE d == Digits(n)
<1>1. d \in Seq(Nat) /\ Len(d) \in Nat
  BY DigitsBack
<1>2. AsText(n) = <<Len(d)>> \o d
  BY DEF AsText
<1> HIDE DEF d
<1>3. /\ <<Len(d)>> \o d \in Seq(Nat) /\ Len(<<Len(d)>> \o d) = 1 + Len(d)
      /\ (<<Len(d)>> \o d)[1] = Len(d)
      /\ \A i \in 1 .. Len(d) : (<<Len(d)>> \o d)[1 + i] = d[i]
  BY <1>1
<1> QED
  BY <1>1, <1>2, <1>3 DEF d

LEMMA ReadText ==
    ASSUME NEW f \in Seq(FileCell), NEW x \in Nat, NEW n \in Nat, Holds(f, x, AsText(n))
    PROVE  TextAt(f, x + 1) = [value |-> n, next |-> x + Len(AsText(n)) + 1]
<1> DEFINE d == Digits(n)
<1>1. /\ AsText(n) \in Seq(Nat) /\ Len(AsText(n)) = 1 + Len(d)
      /\ AsText(n)[1] = Len(d) /\ Len(d) \in Nat
      /\ \A i \in 1 .. Len(d) : AsText(n)[1 + i] = d[i]
  BY AsTextIs
<1>2. d \in Seq(Nat) /\ d \in Seq(FileCell) /\ ValueOf(d) = n
  <2>1. Nat \subseteq FileCell
    BY DEF FileCell
  <2>2. d \in Seq(Nat) /\ ValueOf(d) = n
    BY DigitsBack
  <2> QED
    BY <2>1, <2>2, SeqMonotonic
<1> HIDE DEF d
<1>3. f[x + 1] = Len(d)
  BY <1>1 DEF Holds
<1>4. Holds(f, x + 1, d)
  <2>1. (x + 1) + Len(d) <= Len(f)
    BY <1>1 DEF Holds
  <2>2. ASSUME NEW i \in 1 .. Len(d) PROVE f[(x + 1) + i] = d[i]
    <3>1. 1 + i \in 1 .. Len(AsText(n)) /\ x + (1 + i) = (x + 1) + i
      BY <1>1
    <3> QED
      BY <1>1, <3>1 DEF Holds
  <2> QED
    BY <2>1, <2>2 DEF Holds
<1>5. SubSeq(f, (x + 1) + 1, (x + 1) + Len(d)) = d
  BY <1>2, <1>4, HeldIs
<1>6. (x + 1) + 1 + Len(d) = x + Len(AsText(n)) + 1
  BY <1>1
<1> QED
  BY <1>2, <1>3, <1>5, <1>6 DEF TextAt

\* A block in the file.
Segment(r) == AsText(Len(r)) \o r

LEMMA SegmentIs ==
    ASSUME NEW r \in Seq(Cell)
    PROVE  /\ Segment(r) \in Seq(FileCell)
           /\ Len(Segment(r)) = Len(AsText(Len(r))) + Len(r)
           /\ \A i \in 1 .. Len(AsText(Len(r))) : Segment(r)[i] = AsText(Len(r))[i]
           /\ \A i \in 1 .. Len(r) : Segment(r)[Len(AsText(Len(r))) + i] = r[i]
<1> DEFINE t == AsText(Len(r))
<1>1. t \in Seq(FileCell) /\ r \in Seq(FileCell)
  <2>1. Nat \subseteq FileCell /\ Cell \subseteq FileCell
    BY DEF FileCell
  <2>2. t \in Seq(Nat)
    BY AsTextIs
  <2> QED
    BY <2>1, <2>2, SeqMonotonic
<1>2. Segment(r) = t \o r
  BY DEF Segment
<1> HIDE DEF t
<1>3. /\ t \o r \in Seq(FileCell) /\ Len(t \o r) = Len(t) + Len(r)
      /\ \A i \in 1 .. Len(t) : (t \o r)[i] = t[i]
      /\ \A i \in 1 .. Len(r) : (t \o r)[Len(t) + i] = r[i]
  BY <1>1
<1> QED
  BY <1>2, <1>3 DEF t

LEMMA ReadBlock ==
    ASSUME file \in Seq(FileCell), NEW x \in Nat, NEW r \in Seq(Cell),
           Holds(file, x, Segment(r))
    PROVE  BlockAt(x + 1) = [symbols |-> r, next |-> x + Len(Segment(r)) + 1]
<1> DEFINE n == Len(r)
           t == AsText(n)
           y == x + Len(t)
<1>1. n \in Nat /\ t \in Seq(Nat) /\ Len(t) \in Nat /\ y \in Nat
  <2>1. n \in Nat
    OBVIOUS
  <2>2. t \in Seq(Nat) /\ Len(t) \in Nat
    BY <2>1, AsTextIs
  <2> QED
    BY <2>1, <2>2
<1>2. /\ Len(Segment(r)) = Len(t) + n
      /\ \A i \in 1 .. Len(t) : Segment(r)[i] = t[i]
      /\ \A i \in 1 .. n : Segment(r)[Len(t) + i] = r[i]
  BY SegmentIs
<1> HIDE DEF t
<1>3. Holds(file, x, t)
  <2>1. x + Len(t) <= Len(file)
    <3>1. Len(file) \in Nat
      OBVIOUS
    <3>2. x + Len(Segment(r)) <= Len(file)
      BY DEF Holds
    <3> QED
      BY <1>1, <1>2, <3>1, <3>2
  <2>2. \A i \in 1 .. Len(t) : i \in 1 .. Len(Segment(r))
    BY <1>1, <1>2
  <2> QED
    BY <1>2, <2>1, <2>2 DEF Holds
<1>4. Holds(file, y, r)
  <2>1. y + Len(r) <= Len(file)
    BY <1>1, <1>2 DEF Holds
  <2>2. ASSUME NEW i \in 1 .. n PROVE file[y + i] = r[i]
    <3>1. Len(t) + i \in 1 .. Len(Segment(r)) /\ x + (Len(t) + i) = y + i
      BY <1>1, <1>2
    <3> QED
      BY <1>2, <3>1 DEF Holds
  <2> QED
    BY <2>1, <2>2 DEF Holds
<1>5. TextAt(file, x + 1) = [value |-> n, next |-> y + 1]
  BY <1>1, <1>3, ReadText DEF t
<1>6. r \in Seq(FileCell)
  <2>1. Cell \subseteq FileCell
    BY DEF FileCell
  <2> QED
    BY <2>1, SeqMonotonic
<1>7. SubSeq(file, y + 1, y + n) = r
  BY <1>1, <1>4, <1>6, HeldIs
<1> HIDE DEF y, n
<1>8. (y + 1) + n - 1 = y + n /\ (y + 1) + n = x + Len(Segment(r)) + 1
  BY <1>1, <1>2 DEF y, n
<1> DEFINE len == TextAt(file, x + 1)
<1>9. len.value = n /\ len.next = y + 1
  BY <1>5
<1>10. SubSeq(file, len.next, len.next + len.value - 1) = r
  BY <1>7, <1>8, <1>9
<1>11. len.next + len.value = x + Len(Segment(r)) + 1
  BY <1>8, <1>9
<1>12. BlockAt(x + 1) = [symbols |-> SubSeq(file, len.next, len.next + len.value - 1),
                         next |-> len.next + len.value]
  BY DEF BlockAt
<1> HIDE DEF len
<1> QED
  BY <1>10, <1>11, <1>12

\* The file of these blocks.
Segments(rows) == [i \in 1 .. Len(rows) |-> Segment(rows[i])]
FileOf(rows) == AsText(Len(rows)) \o FlattenSeq(Segments(rows))

\* The blocks as ParseFile finds them, and where the next one is.
Found(rows, w) ==
    /\ \A b \in 1 .. Len(rows) : w[b].symbols = rows[b]
    /\ w = [b \in 1 .. Len(rows) |->
               BlockAt(IF b = 1 THEN TextAt(file, 1).next ELSE w[b - 1].next)]

LEMMA FileRead ==
    ASSUME NEW rows \in Seq(Seq(Cell)), Len(rows) # 0, file = FileOf(rows)
    PROVE  TextAt(file, 1).value = Len(rows) /\ \E w : Found(rows, w)
<1> DEFINE N == Len(rows)
           t == AsText(N)
           a == Len(t)
           z == Segments(rows)
           g == FlattenSeq(z)
<1>1. N \in Nat \ {0} /\ \A b \in 1 .. N : rows[b] \in Seq(Cell)
  OBVIOUS
<1>2. t \in Seq(FileCell) /\ a \in Nat
  <2>1. Nat \subseteq FileCell
    BY DEF FileCell
  <2>2. t \in Seq(Nat)
    BY <1>1, AsTextIs
  <2>3. t \in Seq(FileCell)
    BY <2>1, <2>2, SeqMonotonic
  <2> QED
    BY <2>3
<1>3. z \in Seq(Seq(FileCell)) /\ Len(z) = N /\ \A b \in 1 .. N : z[b] = Segment(rows[b])
  <2>1. z = [b \in 1 .. N |-> Segment(rows[b])]
    BY DEF Segments
  <2>2. \A b \in 1 .. N : Segment(rows[b]) \in Seq(FileCell)
    BY <1>1, SegmentIs
  <2> QED
    BY <1>1, <2>1, <2>2
<1>4. file = t \o g
  BY DEF FileOf
<1> HIDE DEF N, t, a, z, g
<1>5. g \in Seq(FileCell) /\ \E p : Placed(g, z, p)
  BY <1>1, <1>3, FlattenPlaces DEF g
<1>6. PICK p : Placed(g, z, p)
  BY <1>5
<1>7. /\ file \in Seq(FileCell) /\ Len(file) = a + Len(g) /\ Len(g) \in Nat
      /\ \A i \in 1 .. a : file[i] = t[i]
      /\ \A i \in 1 .. Len(g) : file[a + i] = g[i]
  <2>1. /\ t \o g \in Seq(FileCell) /\ Len(t \o g) = Len(t) + Len(g) /\ Len(g) \in Nat
        /\ \A i \in 1 .. Len(t) : (t \o g)[i] = t[i]
        /\ \A i \in 1 .. Len(g) : (t \o g)[Len(t) + i] = g[i]
    BY <1>2, <1>5
  <2> QED
    BY <1>4, <2>1 DEF a
<1>8. /\ p \in [0 .. N -> Nat] /\ p[0] = 0
      /\ \A k \in 1 .. N :
            /\ p[k] = p[k - 1] + Len(z[k]) /\ p[k] <= Len(g)
            /\ \A i \in 1 .. Len(z[k]) : g[p[k - 1] + i] = z[k][i]
  BY <1>3, <1>6 DEF Placed
<1>9. TextAt(file, 1) = [value |-> N, next |-> a + 1]
  <2>1. Holds(file, 0, t)
    BY <1>2, <1>7 DEF Holds, a
  <2>2. TextAt(file, 0 + 1) = [value |-> N, next |-> 0 + Len(AsText(N)) + 1]
    BY <1>1, <1>7, <2>1, ReadText DEF t
  <2>3. 0 + a + 1 = a + 1 /\ 0 + 1 = 1
    BY <1>2
  <2> QED
    BY <2>2, <2>3 DEF a, t
<1>10. ASSUME NEW b \in 1 .. N
       PROVE  BlockAt(a + p[b - 1] + 1) = [symbols |-> rows[b], next |-> a + p[b] + 1]
  <2>1. b - 1 \in 0 .. N /\ p[b - 1] \in Nat /\ p[b] \in Nat
    BY <1>1, <1>8
  <2>2. z[b] = Segment(rows[b]) /\ rows[b] \in Seq(Cell) /\ Len(z[b]) \in Nat
    BY <1>1, <1>3, SegmentIs
  <2>3. p[b] = p[b - 1] + Len(z[b]) /\ p[b] <= Len(g)
        /\ \A i \in 1 .. Len(z[b]) : g[p[b - 1] + i] = z[b][i]
    BY <1>8
  <2> DEFINE x == p[b - 1]
             y == p[b]
             l == Len(z[b])
  <2>7. a \in Nat /\ x \in Nat /\ y \in Nat /\ l \in Nat /\ y = x + l /\ y <= Len(g)
    BY <1>2, <2>1, <2>2, <2>3
  <2> HIDE DEF x, y, l
  <2>4. Holds(file, a + p[b - 1], z[b])
    <3>1. (a + p[b - 1]) + Len(z[b]) <= Len(file)
      BY <1>2, <1>7, <2>1, <2>2, <2>3, SMTT(30)
    <3>2. ASSUME NEW i \in 1 .. Len(z[b]) PROVE file[(a + p[b - 1]) + i] = z[b][i]
      <4>1. p[b - 1] + i \in 1 .. Len(g) /\ a + (p[b - 1] + i) = (a + p[b - 1]) + i
        <5>1. i \in 1 .. l
          BY DEF l
        <5>2. x + i \in 1 .. Len(g) /\ a + (x + i) = (a + x) + i
          BY <1>7, <2>7, <5>1
        <5> QED
          BY <5>2 DEF x
      <4> QED
        BY <1>7, <2>3, <4>1
    <3> QED
      BY <3>1, <3>2 DEF Holds
  <2>5. a + p[b - 1] \in Nat /\ (a + p[b - 1]) + Len(z[b]) + 1 = a + p[b] + 1
    <3>1. a + x \in Nat /\ (a + x) + l + 1 = a + y + 1
      BY <2>7
    <3> QED
      BY <3>1 DEF x, y, l
  <2>6. BlockAt((a + p[b - 1]) + 1) =
            [symbols |-> rows[b], next |-> (a + p[b - 1]) + Len(Segment(rows[b])) + 1]
    BY <1>7, <2>2, <2>4, <2>5, ReadBlock
  <2> QED
    BY <2>2, <2>5, <2>6
<1> DEFINE w == [b \in 1 .. N |-> [symbols |-> rows[b], next |-> a + p[b] + 1]]
<1>11. ASSUME NEW b \in 1 .. N
       PROVE  w[b] = BlockAt(IF b = 1 THEN TextAt(file, 1).next ELSE w[b - 1].next)
  <2>1. CASE b = 1
    <3>1. b - 1 = 0 /\ a + p[b - 1] + 1 = a + 1
      BY <1>2, <1>8, <2>1
    <3> QED
      BY <1>9, <1>10, <2>1, <3>1
  <2>2. CASE b # 1
    <3>1. b - 1 \in 1 .. N
      BY <1>1, <2>2
    <3> QED
      BY <1>10, <2>2, <3>1
  <2> QED
    BY <2>1, <2>2
<1>12. \A b \in 1 .. N : w[b].symbols = rows[b]
  OBVIOUS
<1>13. w = [b \in 1 .. N |-> w[b]]
  OBVIOUS
<1> HIDE DEF w
<1>14. w = [b \in 1 .. N |-> BlockAt(IF b = 1 THEN TextAt(file, 1).next ELSE w[b - 1].next)]
  BY <1>11, <1>13
<1>15. Found(rows, w)
  BY <1>12, <1>14 DEF Found, N
<1> QED
  BY <1>9, <1>15 DEF N

\* There is one way to find them.
LEMMA FoundOnce ==
    ASSUME NEW rows \in Seq(Seq(Cell)), NEW w, Found(rows, w), NEW v,
           v = [b \in 1 .. Len(rows) |->
                   BlockAt(IF b = 1 THEN TextAt(file, 1).next ELSE v[b - 1].next)]
    PROVE  \A b \in 1 .. Len(rows) : v[b].symbols = rows[b]
<1> DEFINE N == Len(rows)
           F(u, b) == BlockAt(IF b = 1 THEN TextAt(file, 1).next ELSE u[b - 1].next)
           Bad == {b \in 1 .. N : v[b] # w[b]}
<1>1. N \in Nat
  OBVIOUS
<1>2. v = [b \in 1 .. N |-> F(v, b)] /\ w = [b \in 1 .. N |-> F(w, b)]
  BY DEF Found
<1> HIDE DEF N
<1>3. \A b \in 1 .. N : v[b] = F(v, b)
  <2> HIDE DEF F
  <2> QED
    BY <1>2
<1>4. \A b \in 1 .. N : w[b] = F(w, b)
  <2> HIDE DEF F
  <2> QED
    BY <1>2
<1>5. Bad = {}
  <2> SUFFICES ASSUME Bad # {} PROVE FALSE
    OBVIOUS
  <2>1. PICK b \in Bad : \A c \in Bad : b <= c
    <3>1. Bad \in SUBSET Nat
      OBVIOUS
    <3> QED
      BY <3>1, LeastExists
  <2>2. b \in 1 .. N /\ v[b] # w[b]
    OBVIOUS
  <2>3. CASE b = 1
    BY <1>3, <1>4, <2>2, <2>3
  <2>4. CASE b # 1
    <3>1. b - 1 \in 1 .. N /\ ~ (b <= b - 1)
      BY <1>1, <2>2, <2>4
    <3>2. v[b - 1] = w[b - 1]
      BY <2>1, <3>1
    <3> QED
      BY ZenonT(30), <1>3, <1>4, <2>2, <2>4, <3>2
  <2> QED
    BY <2>3, <2>4
<1> QED
  BY <1>5 DEF Found, N

\* What DecodeLZSS makes of the blocks.
InFifo(rows) ==
    [b \in 1 .. Len(rows) |->
        [k \in DOMAIN rows[b] |-> IF k <= BlockSize THEN rows[b][k] ELSE Nothing]]

LEMMA Parsed ==
    ASSUME NEW rows \in Seq(Seq(Cell)), Len(rows) # 0, file = FileOf(rows), ParseFile,
           phase' # "undefined"
    PROVE  /\ phase' = "decode" /\ infifo' = InFifo(rows)
           /\ item' = [b \in 1 .. Len(rows) |-> [at |-> "start", block |-> 0]]
<1> DEFINE count == TextAt(file, 1)
           Def(n, s) == s = [b \in 1 .. n |->
                               BlockAt(IF b = 1 THEN TextAt(file, 1).next ELSE s[b - 1].next)]
           block == CHOOSE s : Def(count.value, s)
<1>1. count.value = Len(rows)
  BY FileRead
<1>2. PICK w : Found(rows, w)
  BY FileRead
<1>3. Def(Len(rows), w)
  BY <1>2 DEF Found
<1>4. Def(Len(rows), block)
  <2> HIDE DEF Def, count
  <2> QED
    BY <1>1, <1>3
<1>5. /\ infifo' = [b \in 1 .. count.value |->
                [k \in DOMAIN block[b].symbols |->
                    IF k <= BlockSize THEN block[b].symbols[k] ELSE Nothing]]
      /\ phase' = "decode"
      /\ item' = [b \in 1 .. count.value |-> [at |-> "start", block |-> 0]]
  BY Zenon DEF ParseFile
<1> HIDE DEF count, block
<1>6. \A b \in 1 .. Len(rows) : block[b].symbols = rows[b]
  BY <1>2, <1>4, FoundOnce, Zenon
<1>7. infifo' = InFifo(rows)
  BY <1>1, <1>5, <1>6 DEF InFifo
<1> QED
  BY <1>1, <1>5, <1>7

-----------------------------------------------------------------------------
(* What comes back.                                                        *)

\* What is in a cell was written there by a work-item; a length, at its end.
Owned(c) ==
    \/ outfifo[c] = Nothing
    \/ \E i \in 1 .. NoOfBlocks :
          \/ outfifo[c] = Id(i)
          \/ \E k \in Nat \ {0} : outfifo[c] = Symbol(i, k) /\ c = StringCell(i, k)
          \/ /\ item[i].at = "end"
             /\ outfifo[c] = Length(i, item[i].len) /\ c = LenCell(i)

EncodedInv ==
    phase = "encode" =>
        /\ \A c \in Cells : Owned(c)
        /\ \A i \in DOMAIN item :
              /\ item[i].at # "start" => (item[i].len = 0 <=> NeverEncoded(i))
              /\ item[i].at = "end" => item[i].k = item[i].len

\* The blocks as they are written to the file: even if others have been
\* written over, they are not taken for them, and if all fit they are intact.
RowsOK(rows) ==
    /\ rows \in Seq(Seq(Cell)) /\ Len(rows) = NoOfBlocks /\ Len(rows) # 0
    /\ \A i \in 1 .. Len(rows) :
          /\ Len(rows[i]) = 0 <=> NeverEncoded(i)
          /\ Len(rows[i]) # 0 =>
                \A j \in 1 .. Len(rows) : rows[i][1] = Symbol(j, 1) => j = i
    /\ (\A i \in 1 .. Len(rows) : Len(rows[i]) <= BlockSize)
          => \A i \in 1 .. Len(rows) : \A k \in 1 .. Len(rows[i]) : rows[i][k] = Symbol(i, k)

RowOf(i) == [k \in 1 .. outfifo[LenCell(i)].n |-> outfifo[StringCell(i, k)]]
RowsOf == [i \in 1 .. NoOfBlocks |-> RowOf(i)]
WrittenOK == RowsOK(RowsOf) /\ \A i \in 1 .. NoOfBlocks : outfifo[LenCell(i)].n \in Nat

ItemBack(i) ==
    item[i].at = "end" =>
        /\ item[i].block \in {Remains(i), Garbage}
        /\ (\A j \in 1 .. NoOfBlocks : Len(infifo[j]) <= BlockSize)
              => item[i].block = Remains(i)

BackInv ==
    /\ phase = "write" => WrittenOK
    /\ phase = "parse" => \E rows : RowsOK(rows) /\ file = FileOf(rows)
    /\ phase = "decode" =>
          \E rows :
              /\ RowsOK(rows) /\ infifo = InFifo(rows)
              /\ DOMAIN item = 1 .. NoOfBlocks
              /\ item \in [1 .. NoOfBlocks -> [at : {"start", "end"}, block : Nat]]
              /\ \A i \in 1 .. NoOfBlocks : ItemBack(i)
    /\ BlocksRestored

RestoreInv == IInv /\ EncodedInv /\ BackInv

-----------------------------------------------------------------------------
(* The encoder.                                                            *)

LEMMA OwnedKept ==
    ASSUME IInv, EncodedInv, phase = "encode", NEW i \in 1 .. NoOfBlocks,
           item[i].at # "end", item \in [1 .. GlobalSize -> Items],
           NEW r \in Items, item' = [item EXCEPT ![i] = r],
           NEW cell, NEW value, Write(cell, value), phase' # "undefined",
           totalSize' = totalSize,
           \/ value = Id(i)
           \/ \E k \in Nat \ {0} : value = Symbol(i, k) /\ cell = StringCell(i, k)
           \/ r.at = "end" /\ value = Length(i, r.len) /\ cell = LenCell(i),
           r.at # "start" => (r.len = 0 <=> NeverEncoded(i)), r.at = "end" => r.k = r.len
    PROVE  EncodedInv'
<1>1. /\ cell \in Cells /\ outfifo' = [outfifo EXCEPT ![cell] = value]
      /\ DOMAIN outfifo = Cells
  BY DEF IInv, TypeOK, Write
<1>2. /\ NoOfBlocks \in Nat /\ i \in 1 .. GlobalSize /\ GlobalSize \in Nat
      /\ \A j \in 1 .. NoOfBlocks : j \in 1 .. GlobalSize
      /\ NoOfBlocks' = NoOfBlocks /\ GlobalSize' = GlobalSize /\ Cells' = Cells
      /\ \A j : NeverEncoded(j)' <=> NeverEncoded(j)
  BY EnoughItems DEF IInv, NoOfBlocks, GlobalSize, Cells, NeverEncoded, BlockLength
<1>3. /\ DOMAIN item' = DOMAIN item /\ DOMAIN item = 1 .. GlobalSize /\ item'[i] = r
      /\ \A j \in 1 .. GlobalSize : j # i => item'[j] = item[j]
  BY <1>2
<1>4. ASSUME NEW c \in Cells PROVE Owned(c)'
  <2>1. CASE c = cell
    <3>1. outfifo'[c] = value
      BY <1>1, <2>1
    <3> QED
      BY <1>2, <1>3, <2>1, <3>1
         DEF Owned, Id, Symbol, Length, StringCell, LenCell, IdCell
  <2>2. CASE c # cell
    <3>1. outfifo'[c] = outfifo[c]
      BY <1>1, <2>2
    <3>2. Owned(c)
      BY DEF EncodedInv
    <3>3. \A j \in 1 .. NoOfBlocks : item[j].at = "end" => item'[j] = item[j]
      BY <1>2, <1>3
    <3> QED
      BY ZenonT(30), <1>2, <3>1, <3>2, <3>3
         DEF Owned, Nothing, Id, Symbol, Length, StringCell, LenCell, IdCell
  <2> QED
    BY <2>1, <2>2
<1>5. ASSUME NEW j \in DOMAIN item'
      PROVE  /\ item'[j].at # "start" => (item'[j].len = 0 <=> NeverEncoded(j))
             /\ item'[j].at = "end" => item'[j].k = item'[j].len
  BY <1>3, <1>5 DEF EncodedInv
<1> QED
  BY <1>2, <1>4, <1>5 DEF EncodedInv

LEMMA EncodeKeeps ==
    ASSUME IInv, EncodedInv, NEW i \in DOMAIN item,
           BeginBlock(i) \/ WriteSymbol(i) \/ EndBlock(i)
    PROVE  EncodedInv' /\ phase' \in {"encode", "undefined"}
<1>1. /\ phase = "encode" /\ totalSize' = totalSize
      /\ item[i].at # "end" /\ (HasBlock(i) \/ item[i].at # "start")
  BY DEF BeginBlock, WriteSymbol, EndBlock
<1>2. i \in 1 .. NoOfBlocks /\ item[i] \in Items /\ item \in [1 .. GlobalSize -> Items]
  BY <1>1, ItemHasBlock
<1>3. phase' \in {"encode", "undefined"}
  BY <1>1 DEF BeginBlock, WriteSymbol, EndBlock, Write
<1>4. CASE phase' = "undefined"
  BY <1>3, <1>4 DEF EncodedInv
<1>5. CASE phase' # "undefined"
  <2>1. CASE BeginBlock(i)
    <3>1. PICK n \in CompressedLengths(i) :
             item' = [item EXCEPT ![i] = [at |-> "string", len |-> n, k |-> 0]]
      BY <2>1 DEF BeginBlock
    <3> DEFINE r == [at |-> "string", len |-> n, k |-> 0]
    <3>2. n \in Nat /\ (n = 0 <=> NeverEncoded(i))
      BY CompressedIs
    <3>3. r \in Items /\ r.at = "string" /\ (r.len = 0 <=> NeverEncoded(i))
      BY <3>2 DEF Items
    <3>4. Write(IdCell(i), Id(i)) /\ item' = [item EXCEPT ![i] = r]
      BY <2>1, <3>1 DEF BeginBlock
    <3> HIDE DEF r
    <3>5. r.at # "start" /\ r.at # "end"
      BY <3>3
    <3> QED
      BY <1>1, <1>2, <1>3, <1>5, <3>3, <3>4, <3>5, OwnedKept
  <2>2. CASE WriteSymbol(i)
    <3> DEFINE j == item[i].k + 1
               r == [item[i] EXCEPT !.k = j]
    <3>1. /\ item' = [item EXCEPT ![i] = r] /\ Write(StringCell(i, j), Symbol(i, j))
          /\ item[i].at = "string"
      BY <2>2 DEF WriteSymbol
    <3>2. j \in Nat \ {0} /\ r \in Items /\ r.at = "string" /\ r.len = item[i].len
      BY <1>2, <3>1 DEF Items
    <3>3. r.len = 0 <=> NeverEncoded(i)
      BY <1>1, <1>2, <3>1, <3>2 DEF EncodedInv
    <3> HIDE DEF r, j
    <3>4. /\ r.at # "start" /\ r.at # "end"
          /\ \E k \in Nat \ {0} : Symbol(i, j) = Symbol(i, k) /\ StringCell(i, j) = StringCell(i, k)
      BY <3>2
    <3> QED
      BY <1>1, <1>2, <1>3, <1>5, <3>1, <3>2, <3>3, <3>4, OwnedKept, Zenon
  <2>3. CASE EndBlock(i)
    <3> DEFINE r == [item[i] EXCEPT !.at = "end"]
    <3>1. /\ item' = [item EXCEPT ![i] = r] /\ Write(LenCell(i), Length(i, item[i].len))
          /\ item[i].at = "string" /\ item[i].k = item[i].len
      BY <2>3 DEF EndBlock
    <3>2. r \in Items /\ r.at = "end" /\ r.len = item[i].len /\ r.k = r.len
      BY <1>2, <3>1 DEF Items
    <3>3. (r.len = 0 <=> NeverEncoded(i)) /\ Length(i, item[i].len) = Length(i, r.len)
      BY <1>1, <1>2, <3>1, <3>2 DEF EncodedInv
    <3> HIDE DEF r
    <3> QED
      BY <1>1, <1>2, <1>3, <1>5, <3>1, <3>2, <3>3, OwnedKept, Zenon
  <2> QED
    BY <2>1, <2>2, <2>3
<1> QED
  BY <1>3, <1>4, <1>5

LEMMA SplitKeeps ==
    ASSUME IInv, Split
    PROVE  EncodedInv'
<1>1. /\ outfifo' = [c \in Cells |-> Nothing] /\ totalSize' = totalSize
      /\ item' = [i \in 1 .. GlobalSize |-> [at |-> "start", len |-> 0, k |-> 0]]
  BY DEF Split
<1>2. Cells' = Cells
  BY <1>1 DEF Cells, NoOfBlocks
<1> QED
  BY <1>1, <1>2 DEF EncodedInv, Owned, Nothing

\* The cell of the buffer in which block i has its length, or its first symbol.
LEMMA OwnCells ==
    ASSUME IInv, NEW i \in 1 .. NoOfBlocks
    PROVE  /\ LenCell(i) \in Cells
           /\ \A j \in 1 .. NoOfBlocks : LenCell(j) = LenCell(i) => j = i
           /\ \A j \in 1 .. NoOfBlocks : StringCell(j, 1) = StringCell(i, 1) => j = i
<1>1. NoOfBlocks \in Nat /\ i \in Nat \ {0} /\ BlockSize \in Nat \ {0}
      /\ \A j \in 1 .. NoOfBlocks : j \in Nat \ {0}
  BY EnoughItems, LzssBlocksAssumption DEF IInv
<1>2. \A j \in Nat \ {0} : LenCell(j) = IdCell(j) + 1 /\ StringCell(j, 1) = IdCell(j) + (1 + 1)
  BY CellsOfPart
<1>3. 1 \in 0 .. BlockSize + 1 /\ 1 + 1 \in 0 .. BlockSize + 1
  BY <1>1
<1>4. LenCell(i) \in Cells
  BY <1>1, <1>2, <1>3, InCells DEF IInv
<1>5. ASSUME NEW j \in 1 .. NoOfBlocks, LenCell(j) = LenCell(i) PROVE j = i
  BY <1>1, <1>2, <1>3, <1>5, PartsApart
<1>6. ASSUME NEW j \in 1 .. NoOfBlocks, StringCell(j, 1) = StringCell(i, 1) PROVE j = i
  BY <1>1, <1>2, <1>3, <1>6, PartsApart
<1> QED
  BY <1>4, <1>5, <1>6

LEMMA FinishedKeeps ==
    ASSUME IInv, EncodedInv, Finished, phase' = "write"
    PROVE  WrittenOK
<1>1. /\ phase = "encode"
      /\ \A i \in 1 .. NoOfBlocks :
            /\ outfifo[LenCell(i)].is = "len"
            /\ StringCell(i, outfifo[LenCell(i)].n) \in Cells
  BY DEF Finished
<1>2. NoOfBlocks \in Nat /\ GlobalSize \in Nat /\ NoOfBlocks <= GlobalSize
      /\ BlockSize \in Nat \ {0} /\ totalSize \in Nat \ {0}
  BY EnoughItems, LzssBlocksAssumption DEF IInv
<1>3. item \in [1 .. GlobalSize -> Items]
      /\ \A i \in 1 .. GlobalSize : /\ item[i].at = "start" => item[i].len = 0
                                    /\ item[i].at # "start" => i \in 1 .. NoOfBlocks
  BY <1>1 DEF IInv, ItemsOK, Items, TypeOK
<1>4. ASSUME NEW i \in 1 .. NoOfBlocks
      PROVE  /\ item[i].at = "end" /\ item[i].len \in Nat /\ item[i].k = item[i].len
             /\ item[i].len = 0 <=> NeverEncoded(i)
             /\ outfifo[LenCell(i)].n = item[i].len
  <2>1. LenCell(i) \in Cells /\ Owned(LenCell(i))
    BY <1>1, OwnCells DEF EncodedInv
  <2>2. PICK j \in 1 .. NoOfBlocks :
           /\ item[j].at = "end"
           /\ outfifo[LenCell(i)] = Length(j, item[j].len) /\ LenCell(i) = LenCell(j)
    <3>1. Nothing.is # "len" /\ \A j : Id(j).is # "len" /\ \A k : Symbol(j, k).is # "len"
      BY DEF Nothing, Id, Symbol
    <3>2. outfifo[LenCell(i)].is = "len"
      BY <1>1
    <3> QED
      BY <2>1, <3>1, <3>2, Zenon DEF Owned
  <2>3. j = i
    BY <2>2, OwnCells
  <2>4. i \in 1 .. GlobalSize
    BY <1>2
  <2> QED
    BY <1>1, <1>3, <2>2, <2>3, <2>4 DEF Length, Items, EncodedInv
<1>5. ASSUME NEW c \in Cells PROVE outfifo[c] \in Cell
  <2>1. Owned(c)
    BY <1>1 DEF EncodedInv
  <2>2. Nothing \in Cell
    BY DEF Nothing, Cell, Kinds
  <2>3. \A i \in 1 .. NoOfBlocks :
           Id(i) \in Cell /\ (\A k \in Nat : Symbol(i, k) \in Cell /\ Length(i, k) \in Cell)
    BY <1>2 DEF Id, Symbol, Length, Cell, Kinds
  <2> QED
    BY <1>4, <2>1, <2>2, <2>3 DEF Owned
<1>6. ASSUME NEW i \in 1 .. NoOfBlocks
      PROVE  RowOf(i) \in Seq(Cell) /\ Len(RowOf(i)) = item[i].len
  <2> DEFINE n == item[i].len
  <2>1. n \in Nat /\ RowOf(i) = [k \in 1 .. n |-> outfifo[StringCell(i, k)]]
    BY <1>4 DEF RowOf
  <2> HIDE DEF n
  <2>2. ASSUME NEW k \in 1 .. n PROVE StringCell(i, k) \in Cells
    <3>1. i \in Nat \ {0}
      BY <1>2
    <3>2. IdCell(i) \in Int /\ StringCell(i, k) = IdCell(i) + (1 + k)
          /\ StringCell(i, n) = IdCell(i) + (1 + n) /\ IdCell(i) = IdCell(i) + 0
      BY <2>1, <3>1, CellsOfPart
    <3>3. StringCell(i, n) \in Cells
      BY <1>1, <1>4 DEF n
    <3>4. IdCell(i) \in Cells
      <4>1. 0 \in 0 .. BlockSize + 1
        BY <1>2
      <4> QED
        BY <1>2, <3>2, <4>1, InCells
    <3> DEFINE m == NoOfBlocks * (BlockSize + 2) - 1
    <3>5. Cells = 0 .. m /\ m \in Int
      BY <1>2 DEF Cells
    <3> HIDE DEF m
    <3> QED
      BY <2>1, <3>2, <3>3, <3>4, <3>5
  <2>3. \A k \in 1 .. n : outfifo[StringCell(i, k)] \in Cell
    BY <1>5, <2>2
  <2> QED
    BY <2>1, <2>3 DEF n
<1>7. /\ RowsOf \in Seq(Seq(Cell)) /\ Len(RowsOf) = NoOfBlocks
      /\ \A i \in 1 .. NoOfBlocks : RowsOf[i] = RowOf(i)
  BY <1>2, <1>6 DEF RowsOf
<1>8. NoOfBlocks # 0
  <2> DEFINE s == totalSize + BlockSize - 1
             q == s \div BlockSize
  <2>1. s \in Nat /\ s >= BlockSize
    BY <1>2
  <2>2. s = BlockSize * q + (s % BlockSize) /\ s % BlockSize < BlockSize /\ q \in Int
        /\ s % BlockSize \in Nat
    BY <1>2, <2>1
  <2>3. q = 0 => BlockSize * q = 0
    BY <1>2
  <2> HIDE DEF q, s
  <2>4. q # 0
    BY <1>2, <2>1, <2>2, <2>3
  <2> QED
    BY <2>4 DEF NoOfBlocks, q, s
<1>9. ASSUME NEW i \in 1 .. NoOfBlocks
      PROVE  /\ Len(RowOf(i)) = 0 <=> NeverEncoded(i)
             /\ Len(RowOf(i)) # 0 =>
                   \A j \in 1 .. NoOfBlocks : RowOf(i)[1] = Symbol(j, 1) => j = i
  <2>1. Len(RowOf(i)) = 0 <=> NeverEncoded(i)
    BY <1>4, <1>6
  <2> SUFFICES ASSUME Len(RowOf(i)) # 0
               PROVE  \A j \in 1 .. NoOfBlocks : RowOf(i)[1] = Symbol(j, 1) => j = i
    BY <2>1
  <2>2. 1 \in 1 .. outfifo[LenCell(i)].n
    BY <1>4, <1>6
  <2>3. RowOf(i)[1] = outfifo[StringCell(i, 1)]
    BY <2>2 DEF RowOf
  <2>4. ASSUME NEW j \in 1 .. NoOfBlocks, RowOf(i)[1] = Symbol(j, 1) PROVE j = i
    <3>1. StringCell(i, 1) \in Cells
      <4>1. 1 + 1 \in 0 .. BlockSize + 1 /\ i \in Nat \ {0} /\ 1 \in Nat
        BY <1>2
      <4>2. StringCell(i, 1) = IdCell(i) + (1 + 1)
        BY <4>1, CellsOfPart
      <4> QED
        BY <1>2, <4>1, <4>2, InCells
    <3>2. Owned(StringCell(i, 1))
      BY <1>1, <3>1 DEF EncodedInv
    <3>3. outfifo[StringCell(i, 1)] = Symbol(j, 1)
      BY <2>3, <2>4
    <3>4. PICK h \in 1 .. NoOfBlocks, k \in Nat \ {0} :
             Symbol(j, 1) = Symbol(h, k) /\ StringCell(i, 1) = StringCell(h, k)
      <4>1. /\ Symbol(j, 1) # Nothing
            /\ \A h, k : Symbol(j, 1) # Id(h) /\ Symbol(j, 1) # Length(h, k)
        BY DEF Nothing, Id, Symbol, Length
      <4> QED
        BY <3>2, <3>3, <4>1, Zenon DEF Owned
    <3>5. h = j /\ k = 1
      BY <3>4 DEF Symbol
    <3> QED
      BY <3>4, <3>5, OwnCells
  <2> QED
    BY <2>4
<1>10. ASSUME \A i \in 1 .. NoOfBlocks : Len(RowOf(i)) <= BlockSize,
              NEW i \in 1 .. NoOfBlocks, NEW k \in 1 .. Len(RowOf(i))
       PROVE  RowOf(i)[k] = Symbol(i, k)
  <2>1. Fit
    <3> SUFFICES ASSUME NEW j \in 1 .. GlobalSize PROVE item[j].len <= BlockSize
      BY <1>3 DEF Fit
    <3>1. CASE item[j].at = "start"
      BY <1>2, <1>3, <3>1
    <3>2. CASE item[j].at # "start"
      BY <1>3, <1>6, <1>10, <3>2
    <3> QED
      BY <3>1, <3>2
  <2>2. k \in 1 .. item[i].k /\ k \in 1 .. outfifo[LenCell(i)].n
    BY <1>4, <1>6
  <2>3. outfifo[StringCell(i, k)] = Symbol(i, k)
    BY <1>1, <2>1, <2>2 DEF IInv, BlocksApart
  <2> QED
    BY <2>2, <2>3 DEF RowOf
<1> QED
  <2>1. RowsOK(RowsOf)
    <3>1. \A i \in 1 .. NoOfBlocks :
             /\ Len(RowsOf[i]) = 0 <=> NeverEncoded(i)
             /\ Len(RowsOf[i]) # 0 =>
                   \A j \in 1 .. NoOfBlocks : RowsOf[i][1] = Symbol(j, 1) => j = i
      BY <1>7, <1>9
    <3>2. (\A i \in 1 .. NoOfBlocks : Len(RowsOf[i]) <= BlockSize)
              => \A i \in 1 .. NoOfBlocks : \A k \in 1 .. Len(RowsOf[i]) :
                    RowsOf[i][k] = Symbol(i, k)
      BY <1>7, <1>10
    <3> QED
      BY <1>7, <1>8, <3>1, <3>2 DEF RowsOK
  <2> QED
    BY <1>4, <2>1 DEF WrittenOK

LEMMA SameSize ==
    ASSUME totalSize' = totalSize
    PROVE  /\ NoOfBlocks' = NoOfBlocks /\ Garbage' = Garbage
           /\ \A i : Remains(i)' = Remains(i)
           /\ \A rows : RowsOK(rows)' <=> RowsOK(rows)
BY DEF NoOfBlocks, RowsOK, Symbol, NeverEncoded, BlockLength, Remains, NoBlock, Garbage

LEMMA WriteFileKeeps ==
    ASSUME RestoreInv, WriteFile
    PROVE  EncodedInv' /\ BackInv'
<1>1. /\ phase = "write" /\ phase' = "parse" /\ totalSize' = totalSize
      /\ file' = AsText(NoOfBlocks) \o FlattenSeq([i \in 1 .. NoOfBlocks |->
              AsText(outfifo[LenCell(i)].n)
                  \o [k \in 1 .. outfifo[LenCell(i)].n |-> outfifo[StringCell(i, k)]]])
  BY DEF WriteFile
<1>2. WrittenOK
  BY <1>1 DEF RestoreInv, BackInv
<1>3. PICK rows : rows = RowsOf
  OBVIOUS
<1>4. RowsOK(rows) /\ rows \in Seq(Seq(Cell)) /\ Len(rows) = NoOfBlocks
  BY <1>2, <1>3 DEF WrittenOK, RowsOK
<1>5. ASSUME NEW i \in 1 .. NoOfBlocks
      PROVE  Segment(rows[i]) = AsText(outfifo[LenCell(i)].n)
                 \o [k \in 1 .. outfifo[LenCell(i)].n |-> outfifo[StringCell(i, k)]]
  <2> DEFINE n == outfifo[LenCell(i)].n
             r == [k \in 1 .. n |-> outfifo[StringCell(i, k)]]
  <2>1. rows[i] = r
    BY <1>3 DEF RowsOf, RowOf
  <2>2. rows[i] \in Seq(Cell)
    <3>1. i \in 1 .. Len(rows)
      BY <1>4
    <3> QED
      BY <1>4, <3>1, ElementOfSeq
  <2>3. DOMAIN rows[i] = 1 .. Len(rows[i]) /\ Len(rows[i]) \in Nat
    BY <2>2
  <2>4. 1 .. n = 1 .. Len(rows[i])
    BY <2>1, <2>3
  <2> HIDE DEF n, r
  <2>5. n = Len(rows[i])
    <3>1. n \in Nat
      BY <1>2 DEF WrittenOK, n
    <3>2. /\ Len(rows[i]) # 0 => Len(rows[i]) \in 1 .. n
          /\ n # 0 => n \in 1 .. Len(rows[i])
      BY <2>3, <2>4, <3>1
    <3> QED
      BY <2>3, <3>1, <3>2
  <2> QED
    BY <2>1, <2>5 DEF Segment, n, r
<1>6. Segments(rows) = [i \in 1 .. NoOfBlocks |-> AsText(outfifo[LenCell(i)].n)
          \o [k \in 1 .. outfifo[LenCell(i)].n |-> outfifo[StringCell(i, k)]]]
  BY <1>4, <1>5 DEF Segments
<1>7. file' = FileOf(rows)
  BY <1>1, <1>4, <1>6 DEF FileOf
<1>8. RowsOK(rows)'
  BY <1>1, <1>4, SameSize
<1> QED
  BY <1>1, <1>7, <1>8 DEF BackInv, EncodedInv, BlocksRestored

LEMMA ParseFileKeeps ==
    ASSUME RestoreInv, ParseFile
    PROVE  EncodedInv' /\ BackInv'
<1>1. /\ phase = "parse" /\ totalSize' = totalSize /\ out' = out
      /\ phase' \in {"decode", "undefined"}
  BY DEF ParseFile
<1>2. CASE phase' = "undefined"
  BY <1>2 DEF EncodedInv, BackInv, BlocksRestored
<1>3. CASE phase' # "undefined"
  <2>1. PICK rows : RowsOK(rows) /\ file = FileOf(rows)
    BY <1>1 DEF RestoreInv, BackInv
  <2>2. rows \in Seq(Seq(Cell)) /\ Len(rows) = NoOfBlocks /\ Len(rows) # 0
    BY <2>1 DEF RowsOK
  <2>3. /\ phase' = "decode" /\ infifo' = InFifo(rows)
        /\ item' = [b \in 1 .. NoOfBlocks |-> [at |-> "start", block |-> 0]]
    BY <1>3, <2>1, <2>2, Parsed
  <2>4. RowsOK(rows)' /\ NoOfBlocks' = NoOfBlocks
    BY <1>1, <2>1, SameSize
  <2>5. infifo' = InFifo(rows)'
    BY <2>3 DEF InFifo, Nothing
  <2>6. /\ DOMAIN item' = 1 .. NoOfBlocks'
        /\ item' \in [1 .. NoOfBlocks' -> [at : {"start", "end"}, block : Nat]]
        /\ \A i \in 1 .. NoOfBlocks' : item'[i].at = "start"
    BY <2>3, <2>4
  <2>7. \A i \in 1 .. NoOfBlocks' : ItemBack(i)'
    BY <2>6 DEF ItemBack
  <2> QED
    BY <2>3, <2>4, <2>5, <2>6, <2>7 DEF EncodedInv, BackInv, BlocksRestored
<1> QED
  BY <1>2, <1>3

\* A block that was written over may be lost, but does not become another.
LEMMA DecompressedIs ==
    ASSUME totalSize \in Nat \ {0}, NEW rows, RowsOK(rows), infifo = InFifo(rows),
           NEW i \in 1 .. NoOfBlocks
    PROVE  /\ Decompressed(infifo[i]) \in {Remains(i), Garbage}
           /\ (\A j \in 1 .. NoOfBlocks : Len(infifo[j]) <= BlockSize)
                 => Decompressed(infifo[i]) = Remains(i)
<1>1. /\ NoOfBlocks \in Nat /\ BlockSize \in Nat \ {0}
      /\ Len(rows) = NoOfBlocks /\ rows \in Seq(Seq(Cell))
  BY EnoughItems, LzssBlocksAssumption DEF RowsOK
<1>2. ASSUME NEW j \in 1 .. NoOfBlocks
      PROVE  /\ Len(rows[j]) \in Nat /\ DOMAIN infifo[j] = 1 .. Len(rows[j])
             /\ Len(infifo[j]) = Len(rows[j]) /\ (Len(rows[j]) = 0 <=> NeverEncoded(j))
             /\ \A k \in 1 .. Len(rows[j]) :
                   infifo[j][k] = IF k <= BlockSize THEN rows[j][k] ELSE Nothing
  <2>1. rows[j] \in Seq(Cell) /\ (Len(rows[j]) = 0 <=> NeverEncoded(j))
    BY <1>1 DEF RowsOK
  <2>2. Len(rows[j]) \in Nat /\ DOMAIN rows[j] = 1 .. Len(rows[j])
    BY <2>1
  <2> DEFINE n == Len(rows[j])
             q == [k \in 1 .. n |-> IF k <= BlockSize THEN rows[j][k] ELSE Nothing]
  <2>3. infifo[j] = q
    BY <1>1, <2>2 DEF InFifo
  <2>4. /\ Len(q) = n /\ DOMAIN q = 1 .. n
        /\ \A k \in 1 .. n : q[k] = IF k <= BlockSize THEN rows[j][k] ELSE Nothing
    BY <2>2
  <2> HIDE DEF n, q
  <2>5. /\ n \in Nat /\ DOMAIN infifo[j] = 1 .. n /\ Len(infifo[j]) = n
        /\ \A k \in 1 .. n : infifo[j][k] = IF k <= BlockSize THEN rows[j][k] ELSE Nothing
    BY <2>2, <2>3, <2>4 DEF n
  <2> QED
    BY <2>1, <2>5 DEF n
<1> DEFINE b == infifo[i]
           Is(j) == b = [k \in DOMAIN b |-> Symbol(j, k)]
<1>9. CASE NeverEncoded(i)
  <2>1. b = <<>>
    <3>1. b = [k \in DOMAIN rows[i] |-> IF k <= BlockSize THEN rows[i][k] ELSE Nothing]
      BY <1>1 DEF InFifo
    <3>2. rows[i] \in Seq(Cell) /\ Len(rows[i]) = 0
      BY <1>1, <1>2, <1>9
    <3> HIDE DEF b
    <3> QED
      BY <3>1, <3>2
  <2>2. Decompressed(b) = Remains(i)
    BY <1>9, <2>1 DEF Decompressed, Remains
  <2> QED
    BY <2>2
<1> SUFFICES ASSUME ~ NeverEncoded(i)
             PROVE  /\ Decompressed(b) \in {Remains(i), Garbage}
                    /\ (\A j \in 1 .. NoOfBlocks : Len(infifo[j]) <= BlockSize)
                          => Decompressed(b) = Remains(i)
  BY <1>9
<1>10. Remains(i) = i
  BY DEF Remains
<1>3. 1 \in DOMAIN b /\ b[1] = rows[i][1] /\ b # <<>>
  <2>1. Len(rows[i]) \in Nat \ {0} /\ DOMAIN b = 1 .. Len(rows[i])
    BY <1>2
  <2>2. 1 \in 1 .. Len(rows[i]) /\ 1 <= BlockSize
    BY <1>1, <2>1
  <2> QED
    BY <1>2, <2>1, <2>2
<1>4. Decompressed(b) = IF \E j \in 1 .. NoOfBlocks : Is(j) THEN b[1].by ELSE Garbage
  <2> HIDE DEF b
  <2> QED
    BY <1>3 DEF Decompressed
<1>5. ASSUME NEW j \in 1 .. NoOfBlocks, Is(j) PROVE j = i /\ b[1].by = i
  <2>1. b[1] = Symbol(j, 1)
    BY <1>3, <1>5
  <2>2. j = i
    BY <1>1, <1>2, <1>3, <2>1 DEF RowsOK
  <2> QED
    BY <2>1, <2>2 DEF Symbol
<1>6. ASSUME \A j \in 1 .. NoOfBlocks : Len(infifo[j]) <= BlockSize PROVE Is(i)
  <2>1. \A j \in 1 .. Len(rows) : Len(rows[j]) <= BlockSize
    BY <1>1, <1>2, <1>6
  <2>2. \A k \in 1 .. Len(rows[i]) : rows[i][k] = Symbol(i, k)
    BY <1>1, <2>1 DEF RowsOK
  <2>3. Len(rows[i]) <= BlockSize
    BY <1>1, <2>1
  <2>4. \A k \in 1 .. Len(rows[i]) : k <= BlockSize
    BY <1>1, <1>2, <2>3
  <2>5. \A k \in DOMAIN b : b[k] = Symbol(i, k)
    BY <1>2, <2>2, <2>4
  <2>6. b = [k \in DOMAIN b |-> b[k]]
    <3>1. b = InFifo(rows)[i]
      OBVIOUS
    <3>2. b = [k \in DOMAIN rows[i] |-> IF k <= BlockSize THEN rows[i][k] ELSE Nothing]
      BY <1>1, <3>1 DEF InFifo
    <3> HIDE DEF b
    <3> QED
      BY <3>2
  <2> HIDE DEF b
  <2> QED
    BY <2>5, <2>6
<1> HIDE DEF b, Is
<1>7. Decompressed(b) \in {i, Garbage}
  BY <1>4, <1>5
<1>8. (\A j \in 1 .. NoOfBlocks : Len(infifo[j]) <= BlockSize) => Decompressed(b) = i
  BY <1>4, <1>5, <1>6
<1> QED
  BY <1>7, <1>8, <1>10

LEMMA DecodeKeeps ==
    ASSUME RestoreInv, NEW i \in DOMAIN item, DecodeBlock(i)
    PROVE  EncodedInv' /\ BackInv'
<1>1. /\ phase = "decode" /\ phase' = "decode" /\ totalSize' = totalSize
      /\ infifo' = infifo
      /\ item' = [item EXCEPT ![i] = [at |-> "end", block |-> Decompressed(infifo[i])]]
  BY DEF DecodeBlock
<1>2. PICK rows :
         /\ RowsOK(rows) /\ infifo = InFifo(rows)
         /\ DOMAIN item = 1 .. NoOfBlocks
         /\ item \in [1 .. NoOfBlocks -> [at : {"start", "end"}, block : Nat]]
         /\ \A j \in 1 .. NoOfBlocks : ItemBack(j)
  BY <1>1 DEF RestoreInv, BackInv
<1>3. RowsOK(rows)' /\ NoOfBlocks' = NoOfBlocks /\ i \in 1 .. NoOfBlocks
      /\ NoOfBlocks \in Nat
  BY <1>1, <1>2, SameSize, EnoughItems DEF RestoreInv, IInv
<1>4. infifo' = InFifo(rows)'
  BY <1>1, <1>2 DEF InFifo, Nothing
<1>5. /\ Decompressed(infifo[i]) \in {Remains(i), Garbage}
      /\ (\A j \in 1 .. NoOfBlocks : Len(infifo[j]) <= BlockSize)
            => Decompressed(infifo[i]) = Remains(i)
  BY <1>2, <1>3, DecompressedIs DEF RestoreInv, IInv
<1>8. Decompressed(infifo[i]) \in Nat /\ Garbage' = Garbage
      /\ \A j : Remains(j)' = Remains(j)
  <2>1. Remains(i) \in Nat /\ Garbage \in Nat
    BY <1>3 DEF Remains, NoBlock, Garbage
  <2> QED
    BY <1>1, <1>5, <2>1, SameSize
<1>6. /\ DOMAIN item' = 1 .. NoOfBlocks
      /\ item' \in [1 .. NoOfBlocks -> [at : {"start", "end"}, block : Nat]]
      /\ item'[i] = [at |-> "end", block |-> Decompressed(infifo[i])]
      /\ \A j \in 1 .. NoOfBlocks : j # i => item'[j] = item[j]
  BY <1>1, <1>2, <1>3, <1>8
<1>7. ASSUME NEW j \in 1 .. NoOfBlocks PROVE ItemBack(j)'
  <2>1. CASE j = i
    BY <1>1, <1>3, <1>5, <1>6, <1>8, <2>1 DEF ItemBack
  <2>2. CASE j # i
    BY <1>1, <1>2, <1>3, <1>6, <1>8, <2>2 DEF ItemBack
  <2> QED
    BY <2>1, <2>2
<1> QED
  BY <1>1, <1>3, <1>4, <1>6, <1>7 DEF EncodedInv, BackInv, BlocksRestored

LEMMA WriteOutputKeeps ==
    ASSUME RestoreInv, WriteOutput
    PROVE  EncodedInv' /\ BackInv'
<1>1. /\ phase = "decode" /\ phase' = "done" /\ totalSize' = totalSize
      /\ infifo' = infifo /\ out' = [i \in DOMAIN item |-> item[i].block]
      /\ \A i \in DOMAIN item : item[i].at = "end"
  BY DEF WriteOutput
<1>2. /\ DOMAIN item = 1 .. NoOfBlocks
      /\ \A j \in 1 .. NoOfBlocks : ItemBack(j)
  BY <1>1 DEF RestoreInv, BackInv
<1>3. /\ NoOfBlocks' = NoOfBlocks /\ NoOfBlocks \in Nat /\ Garbage' = Garbage
      /\ \A j : Remains(j)' = Remains(j)
  BY <1>1, SameSize, EnoughItems DEF RestoreInv, IInv
<1>4. \A i \in 1 .. NoOfBlocks : out'[i] = item[i].block
  BY <1>1, <1>2
<1>5. Len(out') = NoOfBlocks
  BY <1>1, <1>2, <1>3
<1>6. BlocksRestored'
  BY <1>1, <1>2, <1>3, <1>4, <1>5 DEF BlocksRestored, ItemBack
<1> QED
  BY <1>1, <1>6 DEF EncodedInv, BackInv

LEMMA RestoreStep == RestoreInv /\ [Next]_vars => RestoreInv'
<1> SUFFICES ASSUME RestoreInv, [Next]_vars PROVE EncodedInv' /\ BackInv'
  BY InvStep DEF RestoreInv
<1>1. IInv /\ EncodedInv /\ BackInv
  BY DEF RestoreInv
<1>2. ASSUME NEW i \in DOMAIN item, BeginBlock(i) \/ WriteSymbol(i) \/ EndBlock(i)
      PROVE  EncodedInv' /\ BackInv'
  <2>1. EncodedInv' /\ phase' \in {"encode", "undefined"}
    BY <1>1, <1>2, EncodeKeeps
  <2> QED
    BY <2>1 DEF BackInv, BlocksRestored
<1>3. CASE Split
  <2>1. phase' = "encode"
    BY <1>3 DEF Split
  <2> QED
    BY <1>1, <1>3, <2>1, SplitKeeps DEF BackInv, BlocksRestored
<1>4. CASE Finished
  <2>1. /\ phase' \in {"write", "undefined"} /\ totalSize' = totalSize
        /\ outfifo' = outfifo
    BY <1>4 DEF Finished
  <2>2. EncodedInv' /\ BlocksRestored'
    BY <2>1 DEF EncodedInv, BlocksRestored
  <2>3. CASE phase' = "write"
    <3>1. WrittenOK
      BY <1>1, <1>4, <2>3, FinishedKeeps
    <3>2. RowsOf' = RowsOf /\ NoOfBlocks' = NoOfBlocks
      BY <2>1 DEF RowsOf, RowOf, NoOfBlocks, LenCell, StringCell, IdCell
    <3>3. RowsOK(RowsOf)'
      <4>1. PICK rows : rows = RowsOf
        OBVIOUS
      <4>2. RowsOK(rows)' /\ RowsOf' = rows
        BY <2>1, <3>1, <3>2, <4>1, SameSize DEF WrittenOK
      <4> QED
        BY <4>2 DEF RowsOK, NoOfBlocks, Symbol
    <3>4. WrittenOK'
      BY <2>1, <3>1, <3>2, <3>3 DEF WrittenOK, LenCell, IdCell
    <3> QED
      BY <2>2, <2>3, <3>4 DEF BackInv
  <2>4. CASE phase' = "undefined"
    BY <2>2, <2>4 DEF BackInv
  <2> QED
    BY <2>1, <2>3, <2>4
<1>5. CASE WriteFile
  BY <1>5, WriteFileKeeps
<1>6. CASE ParseFile
  BY <1>6, ParseFileKeeps
<1>7. ASSUME NEW i \in DOMAIN item, DecodeBlock(i) PROVE EncodedInv' /\ BackInv'
  BY <1>7, DecodeKeeps
<1>8. CASE WriteOutput
  BY <1>8, WriteOutputKeeps
<1>9. CASE DriverStops \/ Refuse \/ ReadFails \/ NoKernel \/ CallFails
  <2>1. phase' \in {"failed", "refused", "undefined"}
    BY <1>9 DEF DriverStops, Refuse, ReadFails, NoKernel, CallFails
  <2> QED
    BY <2>1 DEF EncodedInv, BackInv, BlocksRestored
<1>10. CASE UNCHANGED vars
  <2>1. /\ totalSize' = totalSize /\ phase' = phase /\ outfifo' = outfifo
        /\ item' = item /\ file' = file /\ infifo' = infifo /\ out' = out
    BY <1>10 DEF vars
  <2>2. NoOfBlocks' = NoOfBlocks /\ Cells' = Cells /\ RowsOf' = RowsOf
    BY <2>1 DEF NoOfBlocks, Cells, RowsOf, RowOf, LenCell, StringCell, IdCell
  <2>3. EncodedInv'
    BY <1>1, <2>1, <2>2 DEF EncodedInv, Owned, Nothing, Id, Symbol, Length, StringCell,
                            LenCell, IdCell, NeverEncoded, BlockLength
  <2>4. /\ Garbage' = Garbage /\ \A i : Remains(i)' = Remains(i)
        /\ \A rows : RowsOK(rows)' <=> RowsOK(rows)
        /\ \A rows : FileOf(rows)' = FileOf(rows) /\ InFifo(rows)' = InFifo(rows)
    <3>1. \A rows : FileOf(rows)' = FileOf(rows) /\ InFifo(rows)' = InFifo(rows)
      BY DEF FileOf, InFifo, AsText, Digits, Segments, Segment, Nothing
    <3> QED
      BY <2>1, <3>1, SameSize
  <2>5. WrittenOK => WrittenOK'
    <3>1. RowsOK(RowsOf) => RowsOK(RowsOf)'
      <4>1. PICK rows : rows = RowsOf
        OBVIOUS
      <4>2. RowsOK(rows)' <=> RowsOK(rows)
        BY <2>4
      <4> QED
        BY <2>2, <4>1, <4>2 DEF RowsOK, Symbol, NeverEncoded, BlockLength
    <3> QED
      BY <2>1, <2>2, <3>1 DEF WrittenOK, LenCell, IdCell
  <2>6. (\A i \in 1 .. NoOfBlocks : ItemBack(i)) => \A i \in 1 .. NoOfBlocks : ItemBack(i)'
    BY <2>1, <2>2, <2>4 DEF ItemBack
  <2>7. BlocksRestored'
    BY <1>1, <2>1, <2>2, <2>4 DEF BackInv, BlocksRestored
  <2>8. phase' = "parse" => \E rows : RowsOK(rows)' /\ file' = FileOf(rows)'
    BY <1>1, <2>1, <2>4 DEF BackInv
  <2>9. phase' = "decode" =>
           \E rows :
              /\ RowsOK(rows)' /\ infifo' = InFifo(rows)'
              /\ DOMAIN item' = 1 .. NoOfBlocks'
              /\ item' \in [1 .. NoOfBlocks' -> [at : {"start", "end"}, block : Nat]]
              /\ \A i \in 1 .. NoOfBlocks' : ItemBack(i)'
    BY <1>1, <2>1, <2>2, <2>4, <2>6 DEF BackInv
  <2>10. BackInv'
    BY <1>1, <2>1, <2>5, <2>7, <2>8, <2>9 DEF BackInv
  <2> QED
    BY <2>3, <2>10
<1> QED
  BY <1>2, <1>3, <1>4, <1>5, <1>6, <1>7, <1>8, <1>9, <1>10 DEF Next

LEMMA RestoreInit == Init => RestoreInv
<1> SUFFICES ASSUME Init PROVE RestoreInv
  OBVIOUS
<1>1. IInv /\ phase = "split"
  BY InvInit DEF Init
<1> QED
  BY <1>1 DEF RestoreInv, EncodedInv, BackInv, BlocksRestored

\* What stands in the buffer, in the file and in the blocks read back is what the
\* work-items have written there, for every size and every order.
THEOREM RestoreInvariance == Spec => []RestoreInv
BY RestoreInit, RestoreStep, PTL DEF Spec

\* The file of EncodeLZSS comes back from DecodeLZSS, whatever the lengths of its
\* blocks are, none included, as long as none outgrows its place; of a short last
\* one nothing comes back, and a block never comes back as another one.
THEOREM BlocksComeBack == Spec => []BlocksRestored
<1>1. RestoreInv => BlocksRestored
  BY DEF RestoreInv, BackInv
<1> QED
  BY <1>1, RestoreInvariance, PTL

-----------------------------------------------------------------------------
(* The bit files: numbers.                                                 *)

LEMMA BFSizes == ByteBits \in Nat \ {0} /\ Size \in Nat \ {0} /\ Counts \subseteq 1 .. Size * ByteBits
BY BitFileAssumption

LEMMA Divided ==
    ASSUME NEW n \in Nat
    PROVE  /\ n \div ByteBits \in Nat /\ n % ByteBits \in 0 .. ByteBits - 1
           /\ n = (n \div ByteBits) * ByteBits + (n % ByteBits)
BY BFSizes

\* The bits of an operation are whole bytes that fit a number, and a rest.
LEMMA CountDivided ==
    ASSUME NEW n \in Counts
    PROVE  LET whole == n \div ByteBits
               rest == n % ByteBits
           IN  /\ n \in Nat \ {0} /\ whole \in 0 .. Size /\ rest \in 0 .. ByteBits - 1
               /\ n = whole * ByteBits + rest
               /\ rest # 0 => whole + 1 \in 1 .. Size
<1> DEFINE w == n \div ByteBits
           r == n % ByteBits
           B == ByteBits
<1>1. B \in Nat \ {0} /\ Size \in Nat \ {0} /\ n \in 1 .. Size * B
  BY BFSizes
<1>2. Size * B \in Nat
  BY <1>1
<1>3. n \in Nat /\ n # 0 /\ n <= Size * B
  BY <1>1, <1>2
<1>4. w \in Nat /\ r \in 0 .. B - 1 /\ n = w * B + r
  BY <1>3, Divided
<1> HIDE DEF w, r, B
<1>5. w <= Size
  <2> SUFFICES ASSUME w > Size PROVE FALSE
    BY <1>1, <1>4
  <2>1. w = Size + 1 + (w - Size - 1) /\ w - Size - 1 \in Nat
    BY <1>1, <1>4
  <2> DEFINE d == w - Size - 1
  <2>2. w * B = Size * B + B + d * B
    BY <1>1, <1>4, <2>1
  <2>3. d * B \in Nat
    BY <1>1, <2>1
  <2> HIDE DEF d
  <2> QED
    BY <1>1, <1>2, <1>3, <1>4, <2>2, <2>3
<1>6. ASSUME r # 0 PROVE w # Size
  <2> SUFFICES ASSUME w = Size PROVE FALSE
    OBVIOUS
  <2> QED
    BY <1>1, <1>2, <1>3, <1>4, <1>6
<1> QED
  BY <1>1, <1>3, <1>4, <1>5, <1>6 DEF w, r, B

-----------------------------------------------------------------------------
(* Places in the file: r bits into the byte behind q bytes.                *)

Bits == {0, 1}
Streams ==
    [bytes : Seq(Bytes), at : Nat, buffer : Bytes, count : 0 .. ByteBits - 1,
     ok : BOOLEAN, bits : Seq(Bits)]

\* Bit j of the byte behind q bytes: it is in the file, or it waits.
BitAt(s, q, j) ==
    IF q < Len(s.bytes) THEN s.bytes[q + 1][j] ELSE s.buffer[ByteBits - s.count + j]

\* The j-th bit from a place on is bit BitOf of the byte behind ByteOf bytes.
ByteOf(q, r, j) == IF r + j <= ByteBits THEN q ELSE q + 1
BitOf(q, r, j) == IF r + j <= ByteBits THEN r + j ELSE r + j - ByteBits

\* The writer is at this place; once the device is full, at any behind its end.
WriterAt(s, q, r) ==
    IF q < capacity THEN Len(s.bytes) = q /\ s.count = r ELSE Len(s.bytes) = capacity

\* What t has of the bits before this place it has from s.
Kept(s, t, q, r) ==
    \A x \in Nat : \A j \in 1 .. ByteBits :
        x < capacity /\ (x < q \/ (x = q /\ j <= r)) => BitAt(t, x, j) = BitAt(s, x, j)

\* The n bits of b are there from this place on, as far as the device goes.
ChunkAt(s, q, r, b, n) ==
    \A j \in 1 .. n :
        ByteOf(q, r, j) < capacity => BitAt(s, ByteOf(q, r, j), BitOf(q, r, j)) = b[j]

LEMMA KeptOn ==
    ASSUME NEW s, NEW t, NEW u, NEW q \in Nat, NEW r \in Nat, NEW x \in Nat, NEW y \in Nat,
           Kept(s, t, q, r), Kept(t, u, x, y), q < x \/ (q = x /\ r <= y)
    PROVE  Kept(s, u, q, r)
BY DEF Kept

LEMMA ChunkKept ==
    ASSUME NEW s, NEW t, NEW q \in Nat, NEW r \in 0 .. ByteBits - 1, NEW b,
           NEW n \in 0 .. ByteBits, NEW x \in Nat, NEW y \in 0 .. ByteBits,
           ChunkAt(s, q, r, b, n), Kept(s, t, x, y),
           q + 1 < x \/ (q + 1 = x /\ (r + n <= ByteBits \/ r + n - ByteBits <= y))
                     \/ (q = x /\ r + n <= y)
    PROVE  ChunkAt(t, q, r, b, n)
<1> SUFFICES ASSUME NEW j \in 1 .. n, ByteOf(q, r, j) < capacity
             PROVE  BitAt(t, ByteOf(q, r, j), BitOf(q, r, j)) = b[j]
  BY DEF ChunkAt
<1> DEFINE k == ByteOf(q, r, j)
           i == BitOf(q, r, j)
<1>1. ByteBits \in Nat \ {0}
  BY BFSizes
<1>2. k \in Nat /\ i \in 1 .. ByteBits
  BY <1>1 DEF ByteOf, BitOf
<1>3. k < x \/ (k = x /\ i <= y)
  <2>1. CASE r + j <= ByteBits
    BY <1>1, <2>1 DEF ByteOf, BitOf
  <2>2. CASE ~ (r + j <= ByteBits)
    <3>1. k = q + 1 /\ i = r + j - ByteBits
      BY <2>2 DEF ByteOf, BitOf
    <3> HIDE DEF k, i
    <3> QED
      BY <1>1, <2>2, <3>1
  <2> QED
    BY <2>1, <2>2
<1>4. BitAt(s, k, i) = b[j]
  BY DEF ChunkAt
<1> HIDE DEF k, i
<1>5. BitAt(t, k, i) = BitAt(s, k, i)
  <2>1. k < capacity
    BY DEF k
  <2> QED
    BY <1>2, <1>3, <2>1 DEF Kept
<1> QED
  BY <1>4, <1>5 DEF k, i

-----------------------------------------------------------------------------
(* Putting.                                                                *)

LEMMA BytesAre ==
    ASSUME NEW b \in Bytes
    PROVE  b \in Seq(Bits) /\ Len(b) = ByteBits /\ \A j \in 1 .. ByteBits : b[j] \in Bits
BY BFSizes DEF Bytes, Bits

LEMMA ShiftedIn ==
    ASSUME NEW b \in Bytes, NEW bit \in Bits
    PROVE  LET c == Append(Tail(b), bit)
           IN  /\ c \in Bytes /\ c[ByteBits] = bit
               /\ \A j \in 1 .. ByteBits - 1 : c[j] = b[j + 1]
<1> DEFINE B == ByteBits
<1>1. B \in Nat \ {0}
  BY BFSizes
<1>2. b \in Seq(Bits) /\ Len(b) = B
  BY BytesAre
<1> HIDE DEF B
<1> DEFINE d == Tail(b)
<1>3. d \in Seq(Bits) /\ Len(d) = B - 1 /\ \A j \in 1 .. B - 1 : d[j] = b[j + 1]
  BY <1>1, <1>2
<1> HIDE DEF d
<1> DEFINE c == Append(d, bit)
<1>4. c \in Seq(Bits) /\ Len(c) = B /\ c[B] = bit /\ \A j \in 1 .. B - 1 : c[j] = d[j]
  BY <1>1, <1>3
<1> HIDE DEF c
<1>5. c \in [1 .. B -> Bits]
  BY <1>1, <1>4
<1> QED
  BY <1>3, <1>4, <1>5 DEF B, c, d, Bytes, Bits

\* The byte that BitFilePutChar and BitFileGetChar make of two.
LEMMA TwoParts ==
    ASSUME NEW b \in Bytes, NEW c \in Bytes, NEW n \in 0 .. ByteBits - 1
    PROVE  LET d == LowBits(b, n) \o FrontBits(c, ByteBits - n)
           IN  /\ d \in Bytes
               /\ \A j \in 1 .. n : d[j] = b[ByteBits - n + j]
               /\ \A j \in n + 1 .. ByteBits : d[j] = c[j - n]
<1> DEFINE B == ByteBits
           x == LowBits(b, n)
           y == FrontBits(c, B - n)
<1>1. B \in Nat \ {0} /\ n \in 0 .. B - 1
  BY BFSizes
<1>2. b \in Seq(Bits) /\ Len(b) = B /\ c \in Seq(Bits) /\ Len(c) = B
  BY BytesAre
<1> HIDE DEF B
<1>3. x \in Seq(Bits) /\ Len(x) = n /\ \A j \in 1 .. n : x[j] = b[B - n + j]
  BY <1>1, <1>2 DEF LowBits, B
<1>4. y \in Seq(Bits) /\ Len(y) = B - n /\ \A j \in 1 .. B - n : y[j] = c[j]
  BY <1>1, <1>2 DEF FrontBits
<1> HIDE DEF x, y
<1> DEFINE d == x \o y
<1>5. d \in Seq(Bits) /\ Len(d) = B
  <2>1. d \in Seq(Bits) /\ Len(d) = Len(x) + Len(y)
    BY <1>3, <1>4, ConcatProperties
  <2> HIDE DEF d
  <2> QED
    BY <1>1, <1>3, <1>4, <2>1
<1>6. \A j \in 1 .. n : d[j] = x[j]
  BY <1>1, <1>3, <1>4, ConcatProperties
<1>7. \A j \in n + 1 .. B : d[j] = y[j - n]
  <2>1. \A j \in 1 .. Len(x) + Len(y) : d[j] = IF j <= Len(x) THEN x[j] ELSE y[j - Len(x)]
    BY <1>3, <1>4, ConcatProperties
  <2> HIDE DEF d
  <2> QED
    BY <1>1, <1>3, <1>4, <2>1
<1> HIDE DEF d
<1>8. d \in [1 .. B -> Bits]
  BY <1>1, <1>5
<1>9. \A j \in n + 1 .. B : d[j] = c[j - n]
  <2>1. \A j \in n + 1 .. B : j - n \in 1 .. B - n
    BY <1>1
  <2> QED
    BY <1>4, <1>7, <2>1
<1> QED
  BY <1>3, <1>6, <1>8, <1>9 DEF B, d, x, y, Bytes, Bits

\* A byte is added to the file, if the device has room.
LEMMA fputcIs ==
    ASSUME NEW s \in Streams, NEW b \in Bytes, capacity \in Nat
    PROVE  LET t == fputc(s, b)
           IN  /\ t \in Streams /\ t.at = s.at /\ t.buffer = s.buffer
               /\ t.count = s.count /\ t.bits = s.bits
               /\ Len(s.bytes) < capacity =>
                     /\ t.bytes = Append(s.bytes, b) /\ t.ok = s.ok
                     /\ Len(t.bytes) = Len(s.bytes) + 1 /\ t.bytes[Len(s.bytes) + 1] = b
                     /\ \A x \in 1 .. Len(s.bytes) : t.bytes[x] = s.bytes[x]
               /\ ~ (Len(s.bytes) < capacity) => t.bytes = s.bytes /\ t.ok = FALSE
<1>1. s.bytes \in Seq(Bytes)
  BY DEF Streams
<1>2. CASE Len(s.bytes) < capacity
  <2> DEFINE f == Append(s.bytes, b)
  <2>1. /\ f \in Seq(Bytes) /\ Len(f) = Len(s.bytes) + 1 /\ f[Len(s.bytes) + 1] = b
        /\ \A x \in 1 .. Len(s.bytes) : f[x] = s.bytes[x]
    BY <1>1
  <2>2. fputc(s, b) = [s EXCEPT !.bytes = f]
    BY <1>2 DEF fputc
  <2> HIDE DEF f
  <2>3. fputc(s, b) \in Streams /\ fputc(s, b).bytes = f
    BY <2>1, <2>2 DEF Streams
  <2> QED
    BY <1>2, <2>1, <2>2, <2>3 DEF Streams, f
<1>3. CASE ~ (Len(s.bytes) < capacity)
  <2>1. fputc(s, b) = [s EXCEPT !.ok = FALSE]
    BY <1>3 DEF fputc
  <2> QED
    BY <1>3, <2>1 DEF Streams
<1> QED
  BY <1>2, <1>3

\* The place n bits on, for at most a byte.
ByteAfter(q, r, n) == IF r + n < ByteBits THEN q ELSE q + 1
BitAfter(r, n) == IF r + n < ByteBits THEN r + n ELSE r + n - ByteBits

LEMMA After ==
    ASSUME NEW q \in Nat, NEW r \in 0 .. ByteBits - 1, NEW n \in 0 .. ByteBits
    PROVE  /\ ByteAfter(q, r, n) \in Nat /\ BitAfter(r, n) \in 0 .. ByteBits - 1
           /\ q <= ByteAfter(q, r, n) /\ ByteAfter(q, r, n) <= q + 1
BY BFSizes DEF ByteAfter, BitAfter

\* t is what a writer at this place leaves that has put the n bits of b.
Puts(s, t, q, r, b, n) ==
    /\ t \in Streams /\ t.at = s.at
    /\ Kept(s, t, q, r)
    /\ WriterAt(t, ByteAfter(q, r, n), BitAfter(r, n))
    /\ ChunkAt(t, q, r, b, n)
    /\ t.ok \/ capacity <= ByteAfter(q, r, n)

\* Behind the end of the device nothing is put.
LEMMA PutsNothing ==
    ASSUME NEW s \in Streams, NEW t \in Streams, NEW q \in Nat, NEW r \in 0 .. ByteBits - 1,
           NEW n \in 0 .. ByteBits, NEW b, capacity \in Nat, capacity <= q,
           WriterAt(s, q, r), t.bytes = s.bytes, t.at = s.at
    PROVE  Puts(s, t, q, r, b, n)
<1>1. ByteBits \in Nat \ {0} /\ Len(s.bytes) = capacity
  BY BFSizes DEF WriterAt
<1>2. Kept(s, t, q, r)
  BY <1>1 DEF Kept, BitAt
<1>3. WriterAt(t, ByteAfter(q, r, n), BitAfter(r, n))
  BY <1>1, After, SMTT(30) DEF WriterAt
<1>4. ChunkAt(t, q, r, b, n)
  BY <1>1 DEF ChunkAt, ByteOf
<1>5. capacity <= ByteAfter(q, r, n)
  BY After
<1> QED
  BY <1>2, <1>3, <1>4, <1>5 DEF Puts

\* The buffer and the count of a stream are set.
WithBuffer(s, b, n) == [s EXCEPT !.buffer = b, !.count = n]

LEMMA WithBufferIs ==
    ASSUME NEW s \in Streams, NEW b \in Bytes, NEW n \in 0 .. ByteBits - 1
    PROVE  LET t == WithBuffer(s, b, n)
           IN  /\ t \in Streams /\ t.bytes = s.bytes /\ t.at = s.at /\ t.buffer = b
               /\ t.count = n /\ t.ok = s.ok /\ t.bits = s.bits
BY DEF Streams, WithBuffer

LEMMA PutBitIs ==
    ASSUME NEW s \in Streams, NEW q \in Nat, NEW r \in 0 .. ByteBits - 1,
           NEW bit \in Bits, capacity \in Nat, WriterAt(s, q, r), s.ok
    PROVE  Puts(s, PutBit(s, bit), q, r, <<bit>>, 1)
<1> DEFINE B == ByteBits
           b == Append(Tail(s.buffer), bit)
           t == PutBit(s, bit)
           u == fputc(s, b)
<1>1. /\ B \in Nat \ {0} /\ s.buffer \in Bytes /\ s.bytes \in Seq(Bytes) /\ s.at \in Nat
      /\ s.count \in 0 .. B - 1 /\ s.ok \in BOOLEAN /\ s.bits \in Seq(Bits)
  BY BFSizes DEF Streams
<1>2. b \in Bytes /\ b[B] = bit /\ \A j \in 1 .. B - 1 : b[j] = s.buffer[j + 1]
  BY <1>1, ShiftedIn
<1>3. IF s.count + 1 < B THEN t = [s EXCEPT !.buffer = b, !.count = s.count + 1]
      ELSE t = [u EXCEPT !.buffer = Empty, !.count = 0]
  BY DEF PutBit
<1> HIDE DEF b
<1>4. /\ u \in Streams /\ u.at = s.at /\ u.bits = s.bits
      /\ Len(s.bytes) < capacity =>
            /\ u.ok = s.ok /\ u.bytes \in Seq(Bytes)
            /\ Len(u.bytes) = Len(s.bytes) + 1 /\ u.bytes[Len(s.bytes) + 1] = b
            /\ \A x \in 1 .. Len(s.bytes) : u.bytes[x] = s.bytes[x]
      /\ ~ (Len(s.bytes) < capacity) => u.bytes = s.bytes
  <2>1. s \in Streams /\ b \in Bytes /\ capacity \in Nat
    BY <1>2
  <2> QED
    BY <2>1, fputcIs DEF Streams
<1> HIDE DEF u, t
<1>5. t \in Streams /\ t.at = s.at
  <2>1. Empty \in Bytes
    BY DEF Empty, Bytes
  <2>2. CASE s.count + 1 < B
    <3>1. s.count + 1 \in 0 .. B - 1
      BY <1>1, <2>2
    <3>2. t = WithBuffer(s, b, s.count + 1) /\ b \in Bytes
      BY <1>2, <1>3, <2>2 DEF WithBuffer
    <3> QED
      BY <3>1, <3>2, WithBufferIs DEF B
  <2>3. CASE ~ (s.count + 1 < B)
    <3>1. 0 \in 0 .. B - 1
      BY <1>1
    <3>2. t = WithBuffer(u, Empty, 0)
      BY <1>3, <2>3 DEF WithBuffer
    <3> QED
      BY <1>4, <2>1, <3>1, <3>2, WithBufferIs DEF B
  <2> QED
    BY <2>2, <2>3
<1>6. CASE capacity <= q
  <2>1. Len(s.bytes) = capacity
    BY <1>6 DEF WriterAt
  <2>2. t.bytes = s.bytes
    <3>1. CASE s.count + 1 < B
      BY <1>3, <3>1 DEF Streams
    <3>2. CASE ~ (s.count + 1 < B)
      <4>1. u.bytes = s.bytes
        BY <1>4, <2>1
      <4> QED
        BY <1>3, <1>4, <3>2, <4>1 DEF Streams
    <3> QED
      BY <3>1, <3>2
  <2>3. 1 \in 0 .. ByteBits
    BY <1>1
  <2> QED
    BY <1>5, <1>6, <2>2, <2>3, PutsNothing DEF t
<1>7. CASE ~ (capacity <= q)
  <2>1. Len(s.bytes) = q /\ s.count = r /\ q < capacity
    BY <1>7 DEF WriterAt
  <2>2. CASE r + 1 < B
    <3>1. t.bytes = s.bytes /\ t.buffer = b /\ t.count = r + 1 /\ t.ok = s.ok
      BY <1>3, <2>1, <2>2 DEF Streams
    <3>2. ByteAfter(q, r, 1) = q /\ BitAfter(r, 1) = r + 1
      BY <2>2 DEF ByteAfter, BitAfter
    <3>3. WriterAt(t, q, r + 1)
      BY <2>1, <3>1 DEF WriterAt
    <3>4. \A j \in 1 .. r : BitAt(t, q, j) = BitAt(s, q, j)
      <4> SUFFICES ASSUME NEW j \in 1 .. r PROVE BitAt(t, q, j) = BitAt(s, q, j)
        OBVIOUS
      <4>1. BitAt(s, q, j) = s.buffer[B - r + j] /\ BitAt(t, q, j) = b[B - (r + 1) + j]
        BY <2>1, <3>1 DEF BitAt
      <4>2. B - (r + 1) + j \in 1 .. B - 1 /\ (B - (r + 1) + j) + 1 = B - r + j
        BY <1>1, <2>2
      <4> QED
        BY <1>2, <4>1, <4>2
    <3>5. \A x \in Nat : \A j \in 1 .. B : x < q => BitAt(t, x, j) = BitAt(s, x, j)
      BY <2>1, <3>1 DEF BitAt
    <3>6. Kept(s, t, q, r)
      <4> SUFFICES ASSUME NEW x \in Nat, NEW j \in 1 .. B, x < q \/ (x = q /\ j <= r)
                   PROVE  BitAt(t, x, j) = BitAt(s, x, j)
        BY DEF Kept, B
      <4>1. CASE x = q
        BY <3>4, <4>1
      <4> QED
        BY <3>5, <4>1
    <3>7. ChunkAt(t, q, r, <<bit>>, 1)
      <4>1. ByteOf(q, r, 1) = q /\ BitOf(q, r, 1) = r + 1
        BY <1>1, <2>2 DEF ByteOf, BitOf
      <4>2. BitAt(t, q, r + 1) = b[B - (r + 1) + (r + 1)]
        BY <2>1, <3>1 DEF BitAt
      <4>3. B - (r + 1) + (r + 1) = B
        BY <1>1
      <4> QED
        BY <1>2, <4>1, <4>2, <4>3 DEF ChunkAt
    <3> QED
      BY <1>5, <3>1, <3>2, <3>3, <3>6, <3>7 DEF Puts, t
  <2>3. CASE ~ (r + 1 < B)
    <3>1. r = B - 1 /\ r + 1 = B /\ r + 1 - B = 0
      BY <1>1, <2>3
    <3>2. t.bytes = u.bytes /\ t.count = 0 /\ t.ok = u.ok
      BY <1>3, <1>4, <2>1, <2>3 DEF Streams
    <3>3. ByteAfter(q, r, 1) = q + 1 /\ BitAfter(r, 1) = 0
      BY <2>3, <3>1 DEF ByteAfter, BitAfter
    <3>4. WriterAt(t, q + 1, 0)
      BY <1>4, <2>1, <3>2 DEF WriterAt
    <3>5. /\ \A j \in 1 .. B : BitAt(t, q, j) = b[j]
          /\ \A j \in 1 .. r : BitAt(s, q, j) = s.buffer[j + 1]
          /\ \A x \in Nat : \A j \in 1 .. B : x < q => BitAt(t, x, j) = BitAt(s, x, j)
      BY <1>1, <1>4, <2>1, <3>1, <3>2 DEF BitAt
    <3>6. Kept(s, t, q, r)
      <4> SUFFICES ASSUME NEW x \in Nat, NEW j \in 1 .. B, x < q \/ (x = q /\ j <= r)
                   PROVE  BitAt(t, x, j) = BitAt(s, x, j)
        BY DEF Kept, B
      <4>1. CASE x = q
        <5>1. j \in 1 .. r /\ j \in 1 .. B - 1
          BY <1>1, <3>1, <4>1
        <5> QED
          BY <1>2, <3>5, <4>1, <5>1
      <4> QED
        BY <3>5, <4>1
    <3>7. ChunkAt(t, q, r, <<bit>>, 1)
      <4>1. ByteOf(q, r, 1) = q /\ BitOf(q, r, 1) = B
        BY <3>1 DEF ByteOf, BitOf
      <4>2. BitAt(t, q, B) = bit
        BY <1>1, <1>2, <3>5
      <4> QED
        BY <4>1, <4>2 DEF ChunkAt
    <3> QED
      BY <1>4, <1>5, <2>1, <3>2, <3>3, <3>4, <3>6, <3>7 DEF Puts, t
  <2> QED
    BY <2>2, <2>3
<1> QED
  BY <1>1, <1>6, <1>7

LEMMA PutCharIs ==
    ASSUME NEW s \in Streams, NEW q \in Nat, NEW r \in 0 .. ByteBits - 1,
           NEW c \in Bytes, capacity \in Nat, WriterAt(s, q, r), s.ok
    PROVE  Puts(s, PutChar(s, c), q, r, c, ByteBits)
<1> DEFINE B == ByteBits
           d == IF s.count = 0 THEN c
                ELSE LowBits(s.buffer, s.count) \o FrontBits(c, ByteBits - s.count)
           u == fputc(s, d)
           t == PutChar(s, c)
<1>1. /\ B \in Nat \ {0} /\ s.buffer \in Bytes /\ s.bytes \in Seq(Bytes) /\ s.at \in Nat
      /\ s.count \in 0 .. B - 1
  BY BFSizes DEF Streams
<1>2. /\ d \in Bytes
      /\ \A j \in 1 .. s.count : d[j] = s.buffer[B - s.count + j]
      /\ \A j \in s.count + 1 .. B : d[j] = c[j - s.count]
  <2>1. CASE s.count = 0
    BY <1>1, <2>1
  <2>2. CASE s.count # 0
    BY <1>1, <2>2, TwoParts, ZenonT(30)
  <2> QED
    BY <2>1, <2>2
<1>3. t = IF s.count > 0 /\ u.ok THEN [u EXCEPT !.buffer = c] ELSE u
  BY DEF PutChar
<1> HIDE DEF d
<1>4. /\ u \in Streams /\ u.at = s.at /\ u.count = s.count
      /\ Len(s.bytes) < capacity =>
            /\ u.ok = s.ok /\ u.bytes \in Seq(Bytes)
            /\ Len(u.bytes) = Len(s.bytes) + 1 /\ u.bytes[Len(s.bytes) + 1] = d
            /\ \A x \in 1 .. Len(s.bytes) : u.bytes[x] = s.bytes[x]
      /\ ~ (Len(s.bytes) < capacity) => u.bytes = s.bytes
  <2>1. s \in Streams /\ d \in Bytes /\ capacity \in Nat
    BY <1>2
  <2> QED
    BY <2>1, fputcIs DEF Streams
<1> HIDE DEF u, t
<1>5. /\ t \in Streams /\ t.at = s.at /\ t.bytes = u.bytes /\ t.count = s.count /\ t.ok = u.ok
      /\ s.count > 0 /\ u.ok => t.buffer = c
  BY <1>3, <1>4 DEF Streams
<1>6. CASE capacity <= q
  <2>1. t.bytes = s.bytes
    BY <1>4, <1>5, <1>6 DEF WriterAt
  <2> QED
    BY <1>1, <1>5, <1>6, <2>1, PutsNothing DEF t, B
<1>7. CASE ~ (capacity <= q)
  <2>1. Len(s.bytes) = q /\ s.count = r /\ q < capacity
    BY <1>7 DEF WriterAt
  <2>2. /\ Len(t.bytes) = q + 1 /\ t.bytes[q + 1] = d /\ t.count = r /\ t.ok
        /\ \A x \in 1 .. q : t.bytes[x] = s.bytes[x]
        /\ r > 0 => t.buffer = c
    BY <1>4, <1>5, <2>1
  <2>3. ByteAfter(q, r, B) = q + 1 /\ BitAfter(r, B) = r
    BY <1>1 DEF ByteAfter, BitAfter
  <2>4. WriterAt(t, q + 1, r)
    BY <2>1, <2>2 DEF WriterAt
  <2>5. /\ \A j \in 1 .. B : BitAt(t, q, j) = d[j]
        /\ \A j \in 1 .. r : BitAt(s, q, j) = s.buffer[B - r + j]
        /\ r > 0 => \A j \in 1 .. B : BitAt(t, q + 1, j) = c[B - r + j]
    BY <2>1, <2>2 DEF BitAt
  <2>6. \A x \in Nat : \A j \in 1 .. B : x < q => BitAt(t, x, j) = BitAt(s, x, j)
    BY <2>1, <2>2 DEF BitAt
  <2>7. Kept(s, t, q, r)
    <3> SUFFICES ASSUME NEW x \in Nat, NEW j \in 1 .. B, x < q \/ (x = q /\ j <= r)
                 PROVE  BitAt(t, x, j) = BitAt(s, x, j)
      BY DEF Kept, B
    <3>1. CASE x = q
      <4>1. j \in 1 .. r
        BY <1>1, <3>1
      <4> QED
        BY <1>2, <2>1, <2>5, <3>1, <4>1
    <3> QED
      BY <2>6, <3>1
  <2>8. ChunkAt(t, q, r, c, B)
    <3> SUFFICES ASSUME NEW j \in 1 .. B
                 PROVE  BitAt(t, ByteOf(q, r, j), BitOf(q, r, j)) = c[j]
      BY DEF ChunkAt
    <3>1. CASE r + j <= B
      <4>1. ByteOf(q, r, j) = q /\ BitOf(q, r, j) = r + j
        BY <3>1 DEF ByteOf, BitOf
      <4>2. r + j \in r + 1 .. B /\ (r + j) - r = j /\ r + j \in 1 .. B
        BY <1>1, <3>1
      <4>3. d[r + j] = c[j]
        BY <1>2, <2>1, <4>2
      <4> QED
        BY <2>5, <4>1, <4>2, <4>3
    <3>2. CASE ~ (r + j <= B)
      <4>1. ByteOf(q, r, j) = q + 1 /\ BitOf(q, r, j) = r + j - B
        BY <3>2 DEF ByteOf, BitOf
      <4>2. r > 0 /\ r + j - B \in 1 .. B /\ B - r + (r + j - B) = j
        BY <1>1, <3>2
      <4>3. BitAt(t, q + 1, r + j - B) = c[B - r + (r + j - B)]
        BY <2>5, <4>2
      <4> QED
        BY <4>1, <4>2, <4>3
    <3> QED
      BY <3>1, <3>2
  <2> QED
    BY <1>5, <2>2, <2>3, <2>4, <2>7, <2>8 DEF Puts, t, B
<1> QED
  BY <1>1, <1>6, <1>7

\* The waiting bits and a byte's worth of bits behind them.
LEMMA DrainIs ==
    ASSUME NEW s \in Streams, NEW q \in Nat, NEW r \in 0 .. ByteBits - 1,
           NEW fill \in Bits, capacity \in Nat, WriterAt(s, q, r)
    PROVE  LET t == Aligned(Drain(s, fill))
               x == IF r = 0 THEN q ELSE q + 1
           IN  /\ t \in Streams /\ t.at = s.at /\ t.count = 0
               /\ Kept(s, t, q, r)
               /\ WriterAt(t, x, 0)
               /\ q < capacity => \A j \in r + 1 .. ByteBits : r > 0 => BitAt(t, q, j) = fill
<1> DEFINE B == ByteBits
           f == [k \in 1 .. ByteBits - s.count |-> fill]
           c == [k \in 1 .. ByteBits |-> fill]
           d == LowBits(s.buffer, s.count) \o f
           u == Drain(s, fill)
           t == Aligned(u)
           x == IF r = 0 THEN q ELSE q + 1
<1>1. /\ B \in Nat \ {0} /\ s.buffer \in Bytes /\ s.bytes \in Seq(Bytes) /\ s.at \in Nat
      /\ s.count \in 0 .. B - 1
  BY BFSizes DEF Streams
<1>2. /\ d \in Bytes
      /\ \A j \in 1 .. s.count : d[j] = s.buffer[B - s.count + j]
      /\ \A j \in s.count + 1 .. B : d[j] = fill
  <2>1. c \in Bytes /\ FrontBits(c, B - s.count) = f
    <3>1. c \in Bytes
      BY DEF Bytes, Bits
    <3>2. c \in Seq(Bits) /\ Len(c) = B
      BY <3>1, BytesAre
    <3>3. FrontBits(c, B - s.count) = [k \in 1 .. B - s.count |-> c[k]]
      BY <1>1, <3>2 DEF FrontBits
    <3>4. B - s.count \in Nat /\ \A k \in 1 .. B - s.count : c[k] = fill
      BY <1>1
    <3> QED
      BY <3>1, <3>3, <3>4
  <2> DEFINE e == LowBits(s.buffer, s.count) \o FrontBits(c, ByteBits - s.count)
  <2>2. d = e
    BY <2>1
  <2>3. \A j \in s.count + 1 .. B : j - s.count \in 1 .. B
    BY <1>1
  <2>4. \A j \in 1 .. B : c[j] = fill
    OBVIOUS
  <2> HIDE DEF c, d
  <2>5. /\ e \in Bytes
        /\ \A j \in 1 .. s.count : e[j] = s.buffer[B - s.count + j]
        /\ \A j \in s.count + 1 .. B : e[j] = c[j - s.count]
    BY <1>1, <2>1, TwoParts
  <2> HIDE DEF e
  <2> QED
    BY <2>2, <2>3, <2>4, <2>5
<1>3. u = IF s.count = 0 THEN s ELSE fputc(s, d)
  BY DEF Drain
<1> HIDE DEF d, u
<1>4. /\ u \in Streams /\ u.at = s.at /\ u.count = s.count
      /\ s.count = 0 => u = s
      /\ s.count # 0 /\ Len(s.bytes) < capacity =>
            /\ u.bytes \in Seq(Bytes)
            /\ Len(u.bytes) = Len(s.bytes) + 1 /\ u.bytes[Len(s.bytes) + 1] = d
            /\ \A k \in 1 .. Len(s.bytes) : u.bytes[k] = s.bytes[k]
      /\ ~ (Len(s.bytes) < capacity) => u.bytes = s.bytes
  <2>1. s \in Streams /\ d \in Bytes /\ capacity \in Nat
    BY <1>2
  <2>2. CASE s.count = 0
    BY <1>3, <2>2
  <2>3. CASE s.count # 0
    <3>1. u = fputc(s, d)
      BY <1>3, <2>3
    <3>2. /\ u \in Streams /\ u.at = s.at /\ u.count = s.count
          /\ Len(s.bytes) < capacity =>
                /\ Len(u.bytes) = Len(s.bytes) + 1 /\ u.bytes[Len(s.bytes) + 1] = d
                /\ \A k \in 1 .. Len(s.bytes) : u.bytes[k] = s.bytes[k]
          /\ ~ (Len(s.bytes) < capacity) => u.bytes = s.bytes
      BY <2>1, <3>1, fputcIs
    <3>3. u.bytes \in Seq(Bytes)
      BY <3>2 DEF Streams
    <3> QED
      BY <2>3, <3>2, <3>3
  <2> QED
    BY <2>2, <2>3
<1>5. t \in Streams /\ t.at = s.at /\ t.bytes = u.bytes /\ t.count = 0
  <2>1. Empty \in Bytes /\ 0 \in 0 .. ByteBits - 1
    BY <1>1 DEF Empty, Bytes
  <2>2. t = WithBuffer(u, Empty, 0)
    BY DEF Aligned, WithBuffer
  <2>3. u \in Streams /\ u.at = s.at
    BY <1>4
  <2> HIDE DEF t, u
  <2> QED
    BY <2>1, <2>2, <2>3, WithBufferIs
<1> HIDE DEF t
<1>6. CASE capacity <= q
  <2>1. t.bytes = s.bytes /\ Len(s.bytes) = capacity
    BY <1>4, <1>5, <1>6 DEF WriterAt
  <2>2. Kept(s, t, q, r)
    BY <2>1 DEF Kept, BitAt
  <2>3. WriterAt(t, x, 0)
    BY <1>6, <2>1 DEF WriterAt
  <2> QED
    BY <1>5, <1>6, <2>2, <2>3 DEF t, u
<1>7. CASE ~ (capacity <= q)
  <2>1. Len(s.bytes) = q /\ s.count = r /\ q < capacity
    BY <1>7 DEF WriterAt
  <2>2. CASE r = 0
    <3>1. t.bytes = s.bytes
      BY <1>4, <1>5, <2>1, <2>2
    <3>2. Kept(s, t, q, r)
      BY <2>1, <2>2, <3>1 DEF Kept, BitAt
    <3>3. WriterAt(t, x, 0)
      BY <1>5, <2>1, <2>2, <3>1 DEF WriterAt
    <3> QED
      BY <1>5, <2>2, <3>2, <3>3 DEF t, u
  <2>3. CASE r # 0
    <3>1. /\ Len(t.bytes) = q + 1 /\ t.bytes[q + 1] = d
          /\ \A k \in 1 .. q : t.bytes[k] = s.bytes[k]
      BY <1>4, <1>5, <2>1, <2>3
    <3>2. WriterAt(t, q + 1, 0)
      BY <1>5, <2>1, <3>1 DEF WriterAt
    <3>3. /\ \A j \in 1 .. B : BitAt(t, q, j) = d[j]
          /\ \A j \in 1 .. r : BitAt(s, q, j) = s.buffer[B - r + j]
          /\ \A k \in Nat : \A j \in 1 .. B : k < q => BitAt(t, k, j) = BitAt(s, k, j)
      BY <2>1, <3>1 DEF BitAt
    <3>4. Kept(s, t, q, r)
      <4> SUFFICES ASSUME NEW k \in Nat, NEW j \in 1 .. B, k < q \/ (k = q /\ j <= r)
                   PROVE  BitAt(t, k, j) = BitAt(s, k, j)
        BY DEF Kept, B
      <4>1. CASE k = q
        <5>1. j \in 1 .. r
          BY <1>1, <4>1
        <5> QED
          BY <1>2, <2>1, <3>3, <4>1, <5>1
      <4> QED
        BY <3>3, <4>1
    <3>5. \A j \in r + 1 .. B : BitAt(t, q, j) = fill
      <4>1. \A j \in r + 1 .. B : j \in 1 .. B
        BY <1>1
      <4> QED
        BY <1>2, <2>1, <3>3, <4>1
    <3> QED
      BY <1>5, <2>3, <3>2, <3>4, <3>5 DEF t, u, B
  <2> QED
    BY <2>2, <2>3
<1> QED
  BY <1>1, <1>6, <1>7

\* What holds of 0, and of the next number with a number, holds up to N.
LEMMA UpTo ==
    ASSUME NEW N \in Nat, NEW S, 0 \in S, \A k \in 1 .. N : k - 1 \in S => k \in S
    PROVE  \A k \in 0 .. N : k \in S
<1> DEFINE Bad == {k \in 0 .. N : k \notin S}
<1>1. ASSUME Bad # {} PROVE FALSE
  <2>1. PICK k \in Bad : \A j \in Bad : k <= j
    <3>1. Bad \in SUBSET Nat
      OBVIOUS
    <3> QED
      BY <1>1, <3>1, LeastExists
  <2>2. k \in 0 .. N /\ k \notin S
    OBVIOUS
  <2>3. k \in 1 .. N /\ k - 1 \in 0 .. N /\ ~ (k <= k - 1)
    BY <2>2
  <2>4. k - 1 \in S
    BY <2>1, <2>3
  <2> QED
    BY <2>2, <2>3, <2>4
<1> QED
  BY <1>1

LEMMA ThenCharIs ==
    ASSUME NEW s \in Streams, NEW q \in Nat, NEW r \in 0 .. ByteBits - 1,
           NEW c \in Bytes, capacity \in Nat, WriterAt(s, q, r), s.ok \/ capacity <= q
    PROVE  Puts(s, ThenChar(s, c), q, r, c, ByteBits)
<1>1. CASE s.ok
  BY <1>1, PutCharIs DEF ThenChar
<1>2. CASE ~ s.ok
  <2>1. capacity <= q /\ ThenChar(s, c) = s
    BY <1>2 DEF ThenChar
  <2>2. ByteBits \in 0 .. ByteBits
    BY BFSizes
  <2> QED
    BY <2>1, <2>2, PutsNothing
<1> QED
  BY <1>1, <1>2

LEMMA ThenBitIs ==
    ASSUME NEW s \in Streams, NEW q \in Nat, NEW r \in 0 .. ByteBits - 1,
           NEW bit \in Bits, capacity \in Nat, WriterAt(s, q, r), s.ok \/ capacity <= q
    PROVE  Puts(s, ThenBit(s, bit), q, r, <<bit>>, 1)
<1>1. CASE s.ok
  BY <1>1, PutBitIs DEF ThenBit
<1>2. CASE ~ s.ok
  <2>1. capacity <= q /\ ThenBit(s, bit) = s
    BY <1>2 DEF ThenBit
  <2>2. 1 \in 0 .. ByteBits
    BY BFSizes
  <2> QED
    BY <2>1, <2>2, PutsNothing
<1> QED
  BY <1>1, <1>2

\* A stream of a device that is not more than full.
Room == {s \in Streams : Len(s.bytes) <= capacity}

LEMMA RoomIs ==
    ASSUME capacity \in Nat, NEW s \in Room
    PROVE  \E q \in Nat : \E r \in 0 .. ByteBits - 1 : WriterAt(s, q, r)
<1>1. Len(s.bytes) \in Nat /\ s.count \in 0 .. ByteBits - 1 /\ Len(s.bytes) <= capacity
  BY DEF Room, Streams
<1> QED
  BY <1>1 DEF WriterAt

LEMMA StaysInRoom ==
    ASSUME capacity \in Nat, NEW s \in Streams, NEW q \in Nat, NEW r, WriterAt(s, q, r)
    PROVE  s \in Room
BY DEF WriterAt, Room, Streams

LEMMA PutCharTyped ==
    ASSUME capacity \in Nat, NEW s \in Room, NEW c \in Bytes
    PROVE  ThenChar(s, c) \in Room
<1>1. CASE s.ok
  <2>1. PICK q \in Nat, r \in 0 .. ByteBits - 1 : WriterAt(s, q, r)
    BY RoomIs
  <2>2. Puts(s, ThenChar(s, c), q, r, c, ByteBits)
    BY <1>1, <2>1, ThenCharIs DEF Room
  <2>3. ByteBits \in 0 .. ByteBits
    BY BFSizes
  <2> QED
    BY <2>2, <2>3, After, StaysInRoom DEF Puts
<1> QED
  BY <1>1 DEF ThenChar

LEMMA PutBitTyped ==
    ASSUME capacity \in Nat, NEW s \in Room, NEW bit \in Bits
    PROVE  ThenBit(s, bit) \in Room
<1>1. CASE s.ok
  <2>1. PICK q \in Nat, r \in 0 .. ByteBits - 1 : WriterAt(s, q, r)
    BY RoomIs
  <2>2. Puts(s, ThenBit(s, bit), q, r, <<bit>>, 1)
    BY <1>1, <2>1, ThenBitIs DEF Room
  <2>3. 1 \in 0 .. ByteBits
    BY BFSizes
  <2> QED
    BY <2>2, <2>3, After, StaysInRoom DEF Puts
<1> QED
  BY <1>1 DEF ThenBit

\* The loops, as the sequence of the streams that they go through.
WholeRun(f, s, bs) ==
    /\ f \in [0 .. Len(bs) -> Room] /\ f[0] = s
    /\ \A k \in 1 .. Len(bs) : f[k] = ThenChar(f[k - 1], bs[k])

EachRun(f, s, bits) ==
    /\ f \in [0 .. Len(bits) -> Room] /\ f[0] = s
    /\ \A k \in 1 .. Len(bits) : f[k] = ThenBit(f[k - 1], bits[k])

LEMMA PutWholeRuns ==
    ASSUME capacity \in Nat, NEW s \in Room, NEW bs \in Seq(Bytes)
    PROVE  \E f : WholeRun(f, s, bs) /\ PutWhole(s, bs) = f[Len(bs)]
<1> DEFINE N == Len(bs)
           Def(t) == t = [k \in 0 .. N |-> IF k = 0 THEN s ELSE ThenChar(t[k - 1], bs[k])]
           g == [p \in (1 .. N) \X Room |-> ThenChar(p[2], bs[p[1]])]
<1>1. N \in Nat /\ \A k \in 1 .. N : bs[k] \in Bytes
  OBVIOUS
<1> HIDE DEF N
<1>2. g \in [(1 .. N) \X Room -> Room]
  BY <1>1, PutCharTyped
<1>3. PICK f \in [0 .. N -> Room] :
         f[0] = s /\ \A k \in 1 .. N : f[k] = g[<<k, f[k - 1]>>]
  <2> HIDE DEF g
  <2>1. Recursion(Room, s, N, g)
    BY <1>1, <1>2, RecursionExists, Zenon
  <2> QED
    BY <2>1 DEF Recursion
<1>4. \A k \in 1 .. N : f[k] = ThenChar(f[k - 1], bs[k])
  <2> SUFFICES ASSUME NEW k \in 1 .. N PROVE f[k] = ThenChar(f[k - 1], bs[k])
    OBVIOUS
  <2>1. k - 1 \in 0 .. N
    BY <1>1
  <2> QED
    BY <1>3, <2>1
<1>5. WholeRun(f, s, bs)
  BY <1>3, <1>4 DEF WholeRun, N
<1>6. Def(f)
  <2>1. \A k \in 0 .. N : f[k] = IF k = 0 THEN s ELSE ThenChar(f[k - 1], bs[k])
    <3>1. \A k \in 0 .. N : k = 0 \/ k \in 1 .. N
      BY <1>1
    <3> QED
      BY <1>3, <1>4, <3>1
  <2> QED
    BY <1>3, <2>1
<1> DEFINE t == CHOOSE x : Def(x)
<1>7. Def(t)
  <2> HIDE DEF Def
  <2> QED
    BY <1>6
<1>8. PutWhole(s, bs) = t[N]
  BY DEF PutWhole, N
<1>9. t[N] = f[N]
  <2> HIDE DEF t
  <2> DEFINE S == {k \in 0 .. N : t[k] = f[k]}
  <2>1. \A k \in 0 .. N : t[k] = IF k = 0 THEN s ELSE ThenChar(t[k - 1], bs[k])
    BY <1>7, Zenon
  <2>2. 0 \in S
    BY <1>1, <1>3, <2>1
  <2>3. ASSUME NEW k \in 1 .. N, k - 1 \in S PROVE k \in S
    <3>1. k \in 0 .. N /\ k # 0 /\ t[k - 1] = f[k - 1]
      BY <1>1, <2>3
    <3>2. t[k] = ThenChar(t[k - 1], bs[k])
      BY <2>1, <3>1, Zenon
    <3> QED
      BY <1>4, <3>1, <3>2
  <2> HIDE DEF S
  <2>4. \A k \in 1 .. N : k - 1 \in S => k \in S
    BY <2>3
  <2>5. \A k \in 0 .. N : k \in S
    BY <1>1, <2>2, <2>4, UpTo, Zenon
  <2>6. N \in S
    BY <1>1, <2>5
  <2> QED
    BY <2>6 DEF S
<1> QED
  BY <1>5, <1>8, <1>9 DEF N

LEMMA PutEachRuns ==
    ASSUME capacity \in Nat, NEW s \in Room, NEW bits \in Seq(Bits)
    PROVE  \E f : EachRun(f, s, bits) /\ PutEach(s, bits) = f[Len(bits)]
<1> DEFINE N == Len(bits)
           Def(t) == t = [k \in 0 .. N |-> IF k = 0 THEN s ELSE ThenBit(t[k - 1], bits[k])]
           g == [p \in (1 .. N) \X Room |-> ThenBit(p[2], bits[p[1]])]
<1>1. N \in Nat /\ \A k \in 1 .. N : bits[k] \in Bits
  OBVIOUS
<1> HIDE DEF N
<1>2. g \in [(1 .. N) \X Room -> Room]
  BY <1>1, PutBitTyped
<1>3. PICK f \in [0 .. N -> Room] :
         f[0] = s /\ \A k \in 1 .. N : f[k] = g[<<k, f[k - 1]>>]
  <2> HIDE DEF g
  <2>1. Recursion(Room, s, N, g)
    BY <1>1, <1>2, RecursionExists, Zenon
  <2> QED
    BY <2>1 DEF Recursion
<1>4. \A k \in 1 .. N : f[k] = ThenBit(f[k - 1], bits[k])
  <2> SUFFICES ASSUME NEW k \in 1 .. N PROVE f[k] = ThenBit(f[k - 1], bits[k])
    OBVIOUS
  <2>1. k - 1 \in 0 .. N
    BY <1>1
  <2> QED
    BY <1>3, <2>1
<1>5. EachRun(f, s, bits)
  BY <1>3, <1>4 DEF EachRun, N
<1>6. Def(f)
  <2>1. \A k \in 0 .. N : f[k] = IF k = 0 THEN s ELSE ThenBit(f[k - 1], bits[k])
    <3>1. \A k \in 0 .. N : k = 0 \/ k \in 1 .. N
      BY <1>1
    <3> QED
      BY <1>3, <1>4, <3>1
  <2> QED
    BY <1>3, <2>1
<1> DEFINE t == CHOOSE x : Def(x)
<1>7. Def(t)
  <2> HIDE DEF Def
  <2> QED
    BY <1>6
<1>8. PutEach(s, bits) = t[N]
  BY DEF PutEach, N
<1>9. t[N] = f[N]
  <2> HIDE DEF t
  <2> DEFINE S == {k \in 0 .. N : t[k] = f[k]}
  <2>1. \A k \in 0 .. N : t[k] = IF k = 0 THEN s ELSE ThenBit(t[k - 1], bits[k])
    BY <1>7, Zenon
  <2>2. 0 \in S
    BY <1>1, <1>3, <2>1
  <2>3. ASSUME NEW k \in 1 .. N, k - 1 \in S PROVE k \in S
    <3>1. k \in 0 .. N /\ k # 0 /\ t[k - 1] = f[k - 1]
      BY <1>1, <2>3
    <3>2. t[k] = ThenBit(t[k - 1], bits[k])
      BY <2>1, <3>1, Zenon
    <3> QED
      BY <1>4, <3>1, <3>2
  <2> HIDE DEF S
  <2>4. \A k \in 1 .. N : k - 1 \in S => k \in S
    BY <2>3
  <2>5. \A k \in 0 .. N : k \in S
    BY <1>1, <2>2, <2>4, UpTo, Zenon
  <2>6. N \in S
    BY <1>1, <2>5
  <2> QED
    BY <2>6 DEF S
<1> QED
  BY <1>5, <1>8, <1>9 DEF N

\* t is what a writer at this place leaves that has put k of the bytes.
PutsBytes(s, t, q, r, bs, k) ==
    /\ t \in Streams /\ t.at = s.at
    /\ Kept(s, t, q, r)
    /\ WriterAt(t, q + k, r)
    /\ \A i \in 1 .. k : ChunkAt(t, q + (i - 1), r, bs[i], ByteBits)
    /\ t.ok \/ capacity <= q + k

LEMMA PutsByte ==
    ASSUME NEW s \in Streams, NEW t \in Streams, NEW q \in Nat, NEW r \in 0 .. ByteBits - 1,
           NEW bs \in Seq(Bytes), NEW k \in 1 .. Len(bs), capacity \in Nat,
           PutsBytes(s, t, q, r, bs, k - 1)
    PROVE  PutsBytes(s, ThenChar(t, bs[k]), q, r, bs, k)
<1> DEFINE p == q + (k - 1)
           u == ThenChar(t, bs[k])
           B == ByteBits
<1>1. p \in Nat /\ p + 1 = q + k /\ bs[k] \in Bytes /\ B \in Nat \ {0} /\ q <= p
  BY BFSizes
<1>2. /\ t.at = s.at /\ Kept(s, t, q, r) /\ WriterAt(t, p, r) /\ (t.ok \/ capacity <= p)
      /\ \A i \in 1 .. k - 1 : ChunkAt(t, q + (i - 1), r, bs[i], B)
  BY DEF PutsBytes
<1> HIDE DEF p, u, B
<1>3. Puts(t, u, p, r, bs[k], ByteBits)
  BY <1>1, <1>2, ThenCharIs DEF u
<1>4. ByteAfter(p, r, B) = p + 1 /\ BitAfter(r, B) = r
  BY <1>1 DEF ByteAfter, BitAfter, B
<1>5. /\ u \in Streams /\ u.at = s.at /\ Kept(t, u, p, r) /\ WriterAt(u, p + 1, r)
      /\ ChunkAt(u, p, r, bs[k], B) /\ (u.ok \/ capacity <= p + 1)
  BY <1>2, <1>3, <1>4 DEF Puts, B
<1>6. Kept(s, u, q, r)
  BY <1>1, <1>2, <1>5, KeptOn
<1>7. \A i \in 1 .. k : ChunkAt(u, q + (i - 1), r, bs[i], B)
  <2> SUFFICES ASSUME NEW i \in 1 .. k PROVE ChunkAt(u, q + (i - 1), r, bs[i], B)
    OBVIOUS
  <2>1. CASE i = k
    BY <1>5, <2>1 DEF p
  <2>2. CASE i # k
    <3> DEFINE x == q + (i - 1)
    <3>1. x \in Nat /\ i \in 1 .. k - 1 /\ x + 1 <= p
      BY <2>2 DEF p
    <3>2. ChunkAt(t, x, r, bs[i], B)
      BY <1>2, <3>1
    <3> HIDE DEF x
    <3>3. B \in 0 .. B /\ r \in 0 .. B /\ r + B - B <= r
      BY <1>1 DEF B
    <3>4. x + 1 < p \/ (x + 1 = p /\ (r + B <= B \/ r + B - B <= r))
      BY <1>1, <3>1, <3>3
    <3>5. ChunkAt(u, x, r, bs[i], B)
      BY <1>1, <1>5, <3>1, <3>2, <3>3, <3>4, ChunkKept DEF B
    <3> QED
      BY <3>5 DEF x
  <2> QED
    BY <2>1, <2>2
<1> QED
  BY <1>1, <1>5, <1>6, <1>7 DEF PutsBytes, u, B

LEMMA PutWholeIs ==
    ASSUME NEW s \in Room, NEW q \in Nat, NEW r \in 0 .. ByteBits - 1,
           NEW bs \in Seq(Bytes), capacity \in Nat, WriterAt(s, q, r), s.ok
    PROVE  PutsBytes(s, PutWhole(s, bs), q, r, bs, Len(bs))
<1> DEFINE N == Len(bs)
<1>1. N \in Nat /\ s \in Streams
  BY DEF Room
<1>2. PICK f : WholeRun(f, s, bs) /\ PutWhole(s, bs) = f[N]
  BY PutWholeRuns
<1>3. /\ f[0] = s /\ \A k \in 0 .. N : f[k] \in Streams
      /\ \A k \in 1 .. N : f[k] = ThenChar(f[k - 1], bs[k])
  BY <1>2 DEF WholeRun, Room
<1> HIDE DEF N
<1> DEFINE S == {k \in 0 .. N : PutsBytes(s, f[k], q, r, bs, k)}
<1>4. 0 \in S
  <2>1. PutsBytes(s, s, q, r, bs, 0)
    <3>1. Kept(s, s, q, r)
      BY DEF Kept
    <3> QED
      BY <1>1, <3>1 DEF PutsBytes
  <2> QED
    BY <1>1, <1>3, <2>1
<1>5. \A k \in 1 .. N : k - 1 \in S => k \in S
  <2> SUFFICES ASSUME NEW k \in 1 .. N, k - 1 \in S PROVE PutsBytes(s, f[k], q, r, bs, k)
    BY <1>1
  <2>1. k - 1 \in 0 .. N /\ f[k - 1] \in Streams /\ f[k] = ThenChar(f[k - 1], bs[k])
    BY <1>1, <1>3
  <2>2. PutsBytes(s, f[k - 1], q, r, bs, k - 1)
    OBVIOUS
  <2>3. k \in 1 .. Len(bs)
    BY DEF N
  <2> QED
    BY <1>1, <2>1, <2>2, <2>3, PutsByte
<1> HIDE DEF S
<1>6. \A k \in 0 .. N : k \in S
  BY <1>1, <1>4, <1>5, UpTo, Zenon
<1>7. N \in S
  BY <1>1, <1>6
<1> QED
  BY <1>2, <1>7 DEF S, N

LEMMA PutsBit ==
    ASSUME NEW s \in Streams, NEW t \in Streams, NEW q \in Nat, NEW r \in 0 .. ByteBits - 1,
           NEW x \in Seq(Bits), Len(x) <= ByteBits, NEW k \in 1 .. Len(x), capacity \in Nat,
           Puts(s, t, q, r, x, k - 1)
    PROVE  Puts(s, ThenBit(t, x[k]), q, r, x, k)
<1> DEFINE B == ByteBits
           n == k - 1
           p == ByteAfter(q, r, n)
           i == BitAfter(r, n)
           u == ThenBit(t, x[k])
<1>1. /\ B \in Nat \ {0} /\ n \in 0 .. B - 1 /\ n + 1 = k /\ k \in 1 .. B /\ x[k] \in Bits
      /\ r \in 0 .. B - 1 /\ n \in 0 .. B
  BY BFSizes
<1> HIDE DEF B, n
<1>2. p \in Nat /\ i \in 0 .. B - 1 /\ q <= p /\ p <= q + 1
  BY <1>1, After DEF B
<1>3. \/ r + n < B /\ p = q /\ i = r + n
      \/ r + n >= B /\ p = q + 1 /\ i = r + n - B
  BY <1>1, <1>2 DEF ByteAfter, BitAfter, B
<1>4. /\ ByteAfter(p, i, 1) = ByteAfter(q, r, k) /\ BitAfter(i, 1) = BitAfter(r, k)
      /\ ByteOf(p, i, 1) = ByteOf(q, r, k) /\ BitOf(p, i, 1) = BitOf(q, r, k)
  <2> HIDE DEF p, i
  <2> QED
    BY <1>1, <1>2, <1>3 DEF ByteAfter, BitAfter, ByteOf, BitOf, B
<1>5. /\ t.at = s.at /\ Kept(s, t, q, r) /\ WriterAt(t, p, i) /\ (t.ok \/ capacity <= p)
      /\ ChunkAt(t, q, r, x, n)
  BY DEF Puts, n
<1> HIDE DEF p, i, u
<1>6. Puts(t, u, p, i, <<x[k]>>, 1)
  BY <1>1, <1>2, <1>5, ThenBitIs DEF u, B
<1>7. /\ u \in Streams /\ u.at = s.at /\ Kept(t, u, p, i)
      /\ WriterAt(u, ByteAfter(q, r, k), BitAfter(r, k))
      /\ ChunkAt(u, p, i, <<x[k]>>, 1) /\ (u.ok \/ capacity <= ByteAfter(q, r, k))
  BY <1>4, <1>5, <1>6 DEF Puts
<1>8. Kept(s, u, q, r)
  <2>1. q < p \/ (q = p /\ r <= i)
    BY <1>1, <1>2, <1>3
  <2> QED
    BY <1>1, <1>2, <1>5, <1>7, <2>1, KeptOn
<1>9. ChunkAt(u, q, r, x, n)
  <2>1. \/ q + 1 = p /\ r + n - B <= i
        \/ q = p /\ r + n <= i
    BY <1>1, <1>2, <1>3
  <2>2. n \in 0 .. B /\ i \in 0 .. B
    BY <1>1, <1>2
  <2> QED
    BY <1>2, <1>5, <1>7, <2>1, <2>2, ChunkKept DEF B
<1>10. ChunkAt(u, q, r, x, k)
  <2> SUFFICES ASSUME NEW j \in 1 .. k, ByteOf(q, r, j) < capacity
               PROVE  BitAt(u, ByteOf(q, r, j), BitOf(q, r, j)) = x[j]
    BY DEF ChunkAt
  <2>1. CASE j = k
    <3>1. 1 \in 1 .. 1 /\ <<x[k]>>[1] = x[k] /\ ByteOf(p, i, 1) < capacity
      BY <1>4, <2>1
    <3>2. BitAt(u, ByteOf(p, i, 1), BitOf(p, i, 1)) = x[k]
      BY <1>7, <3>1 DEF ChunkAt
    <3> QED
      BY <1>4, <2>1, <3>2
  <2>2. CASE j # k
    <3>1. j \in 1 .. n
      BY <1>1, <2>2
    <3> QED
      BY <1>9, <3>1 DEF ChunkAt
  <2> QED
    BY <2>1, <2>2
<1> QED
  BY <1>7, <1>8, <1>10 DEF Puts, u

LEMMA PutEachIs ==
    ASSUME NEW s \in Room, NEW q \in Nat, NEW r \in 0 .. ByteBits - 1,
           NEW x \in Seq(Bits), Len(x) <= ByteBits, capacity \in Nat,
           WriterAt(s, q, r), s.ok \/ capacity <= q
    PROVE  Puts(s, PutEach(s, x), q, r, x, Len(x))
<1> DEFINE N == Len(x)
<1>1. N \in Nat /\ s \in Streams
  BY DEF Room
<1>2. PICK f : EachRun(f, s, x) /\ PutEach(s, x) = f[N]
  BY PutEachRuns
<1>3. /\ f[0] = s /\ \A k \in 0 .. N : f[k] \in Streams
      /\ \A k \in 1 .. N : f[k] = ThenBit(f[k - 1], x[k])
  BY <1>2 DEF EachRun, Room
<1> HIDE DEF N
<1> DEFINE S == {k \in 0 .. N : Puts(s, f[k], q, r, x, k)}
<1>4. 0 \in S
  <2>1. Puts(s, s, q, r, x, 0)
    <3>1. Kept(s, s, q, r)
      BY DEF Kept
    <3>2. ByteAfter(q, r, 0) = q /\ BitAfter(r, 0) = r
      BY BFSizes DEF ByteAfter, BitAfter
    <3>3. ChunkAt(s, q, r, x, 0)
      BY DEF ChunkAt
    <3> QED
      BY <1>1, <3>1, <3>2, <3>3 DEF Puts
  <2> QED
    BY <1>1, <1>3, <2>1
<1>5. \A k \in 1 .. N : k - 1 \in S => k \in S
  <2> SUFFICES ASSUME NEW k \in 1 .. N, k - 1 \in S PROVE Puts(s, f[k], q, r, x, k)
    BY <1>1
  <2>1. k - 1 \in 0 .. N /\ f[k - 1] \in Streams /\ f[k] = ThenBit(f[k - 1], x[k])
    BY <1>1, <1>3
  <2>2. Puts(s, f[k - 1], q, r, x, k - 1)
    OBVIOUS
  <2>3. k \in 1 .. Len(x)
    BY DEF N
  <2> QED
    BY <1>1, <2>1, <2>2, <2>3, PutsBit
<1> HIDE DEF S
<1>6. \A k \in 0 .. N : k \in S
  BY <1>1, <1>4, <1>5, UpTo, Zenon
<1>7. N \in S
  BY <1>1, <1>6
<1> QED
  BY <1>2, <1>7 DEF S, N

\* t is what a writer at this place leaves that has put the bytes and the bits.
PutsAll(s, t, q, r, bs, x) ==
    LET p == q + Len(bs)
    IN  /\ t \in Streams /\ t.at = s.at
        /\ Kept(s, t, q, r)
        /\ WriterAt(t, ByteAfter(p, r, Len(x)), BitAfter(r, Len(x)))
        /\ \A i \in 1 .. Len(bs) : ChunkAt(t, q + (i - 1), r, bs[i], ByteBits)
        /\ ChunkAt(t, p, r, x, Len(x))

LEMMA PutsAllIs ==
    ASSUME NEW s \in Room, NEW q \in Nat, NEW r \in 0 .. ByteBits - 1, NEW bs \in Seq(Bytes),
           NEW x \in Seq(Bits), Len(x) < ByteBits, capacity \in Nat, WriterAt(s, q, r), s.ok
    PROVE  PutsAll(s, PutEach(PutWhole(s, bs), x), q, r, bs, x)
<1> DEFINE t == PutWhole(s, bs)
           u == PutEach(t, x)
           B == ByteBits
           w == Len(bs)
           p == q + w
<1>1. /\ B \in Nat \ {0} /\ w \in Nat /\ p \in Nat /\ q <= p /\ r \in 0 .. B - 1
      /\ Len(x) <= B
  BY BFSizes
<1>2. PutsBytes(s, t, q, r, bs, w)
  BY PutWholeIs
<1> HIDE DEF t, u, B
<1>3. /\ t \in Streams /\ t.at = s.at /\ Kept(s, t, q, r) /\ WriterAt(t, p, r)
      /\ \A i \in 1 .. w : ChunkAt(t, q + (i - 1), r, bs[i], B)
      /\ t.ok \/ capacity <= p
  BY <1>2 DEF PutsBytes, B
<1> HIDE DEF p
<1>4. Puts(t, u, p, r, x, Len(x))
  <2>1. t \in Room
    BY <1>1, <1>3, StaysInRoom
  <2> QED
    BY <1>1, <1>3, <2>1, PutEachIs DEF u, B
<1>5. /\ u \in Streams /\ u.at = s.at /\ Kept(t, u, p, r)
      /\ WriterAt(u, ByteAfter(p, r, Len(x)), BitAfter(r, Len(x)))
      /\ ChunkAt(u, p, r, x, Len(x))
  BY <1>3, <1>4 DEF Puts
<1>6. Kept(s, u, q, r)
  BY <1>1, <1>3, <1>5, KeptOn
<1>7. \A i \in 1 .. w : ChunkAt(u, q + (i - 1), r, bs[i], B)
  <2> SUFFICES ASSUME NEW i \in 1 .. w PROVE ChunkAt(u, q + (i - 1), r, bs[i], B)
    OBVIOUS
  <2> DEFINE y == q + (i - 1)
  <2>1. y \in Nat /\ y + 1 <= p
    BY <1>1 DEF p
  <2>2. ChunkAt(t, y, r, bs[i], B)
    BY <1>3
  <2> HIDE DEF y
  <2>3. B \in 0 .. B /\ r \in 0 .. B /\ r + B - B <= r
    BY <1>1
  <2>4. y + 1 < p \/ (y + 1 = p /\ (r + B <= B \/ r + B - B <= r))
    BY <1>1, <2>1, <2>3
  <2>5. ChunkAt(u, y, r, bs[i], B)
    BY <1>1, <1>5, <2>1, <2>2, <2>3, <2>4, ChunkKept DEF B
  <2> QED
    BY <2>5 DEF y
<1> QED
  BY <1>5, <1>6, <1>7 DEF PutsAll, p, u, t, B

\* The whole bytes of n bits, and the bits behind them.
Whole(x, n) ==
    [k \in 1 .. n \div ByteBits |-> SubSeq(x, (k - 1) * ByteBits + 1, k * ByteBits)]
Rest(x, n) == SubSeq(x, (n \div ByteBits) * ByteBits + 1, n)

\* The k-th byte of them.
LEMMA ByteWithin ==
    ASSUME NEW n \in Nat, NEW k \in 1 .. n \div ByteBits
    PROVE  /\ k \in Nat /\ (k - 1) * ByteBits \in Nat /\ k * ByteBits = (k - 1) * ByteBits + ByteBits
           /\ k * ByteBits <= (n \div ByteBits) * ByteBits
<1> DEFINE w == n \div ByteBits
           B == ByteBits
<1>1. B \in Nat \ {0} /\ w \in Nat
  BY BFSizes, Divided
<1> HIDE DEF w, B
<1>2. k \in Nat /\ k - 1 \in Nat /\ w - k \in Nat
  BY <1>1 DEF w
<1>3. (k - 1) * B \in Nat /\ (w - k) * B \in Nat
  BY <1>1, <1>2
<1>4. k * B = (k - 1) * B + B /\ w * B = k * B + (w - k) * B /\ k * B \in Nat
  BY <1>1, <1>2
<1> DEFINE a == (k - 1) * B
           b == k * B
           c == w * B
           d == (w - k) * B
<1>5. b <= c
  <2>1. c = b + d /\ b \in Nat /\ d \in Nat
    BY <1>3, <1>4
  <2> HIDE DEF b, c, d
  <2> QED
    BY <2>1
<1> QED
  BY <1>2, <1>3, <1>4, <1>5 DEF B, w

LEMMA PartsAre ==
    ASSUME NEW n \in Nat, NEW x \in Seq(Bits), Len(x) = n
    PROVE  /\ Whole(x, n) \in Seq(Bytes) /\ Len(Whole(x, n)) = n \div ByteBits
           /\ \A k \in 1 .. n \div ByteBits : \A j \in 1 .. ByteBits :
                 Whole(x, n)[k][j] = x[(k - 1) * ByteBits + j]
           /\ Rest(x, n) \in Seq(Bits) /\ Len(Rest(x, n)) = n % ByteBits
           /\ n % ByteBits < ByteBits
           /\ \A j \in 1 .. n % ByteBits : Rest(x, n)[j] = x[(n \div ByteBits) * ByteBits + j]
<1> DEFINE w == n \div ByteBits
           B == ByteBits
           r == n % ByteBits
           a == w * B
<1>1. B \in Nat \ {0} /\ w \in Nat /\ r \in 0 .. B - 1 /\ n = a + r
  BY BFSizes, Divided
<1>2. a \in Nat
  <2> HIDE DEF w, B
  <2> QED
    BY <1>1
<1>3. \A i \in 1 .. n : x[i] \in Bits
  OBVIOUS
<1> HIDE DEF a, r, w, B
<1>4. ASSUME NEW k \in 1 .. w
      PROVE  /\ SubSeq(x, (k - 1) * B + 1, k * B) \in Bytes
             /\ \A j \in 1 .. B : SubSeq(x, (k - 1) * B + 1, k * B)[j] = x[(k - 1) * B + j]
  <2> DEFINE c == (k - 1) * B
             d == k * B
  <2>1. c \in Nat /\ d = c + B /\ d <= n
    <3>1. c \in Nat /\ d = c + B /\ d <= a
      BY ByteWithin DEF w, B, a
    <3> HIDE DEF c, d
    <3> QED
      BY <1>1, <1>2, <3>1
  <2> HIDE DEF c, d
  <2>2. SubSeq(x, c + 1, d) = [j \in 1 .. B |-> x[c + j]]
    <3>1. SubSeq(x, c + 1, d) \in Seq(Bits) /\ Len(SubSeq(x, c + 1, d)) = B
      BY <1>1, <2>1
    <3>2. \A j \in 1 .. B : SubSeq(x, c + 1, d)[j] = x[c + j]
      BY <1>1, <2>1
    <3> QED
      BY <3>1, <3>2, SMTT(30)
  <2>3. \A j \in 1 .. B : x[c + j] \in Bits
    BY <1>1, <1>3, <2>1
  <2>4. SubSeq(x, c + 1, d) \in Bytes /\ \A j \in 1 .. B : SubSeq(x, c + 1, d)[j] = x[c + j]
    BY <2>2, <2>3 DEF Bytes, Bits, B
  <2> QED
    BY <2>4 DEF c, d
<1>5. /\ Whole(x, n) \in [1 .. w -> Bytes]
      /\ \A k \in 1 .. w : \A j \in 1 .. B : Whole(x, n)[k][j] = x[(k - 1) * B + j]
  BY <1>4 DEF Whole, w, B
<1>6. Whole(x, n) \in Seq(Bytes) /\ Len(Whole(x, n)) = w
  BY <1>1, <1>5
<1>7. /\ Rest(x, n) \in Seq(Bits) /\ Len(Rest(x, n)) = r
      /\ \A j \in 1 .. r : Rest(x, n)[j] = x[a + j]
  <2>1. Rest(x, n) = SubSeq(x, a + 1, n)
    BY DEF Rest, a, w, B
  <2> DEFINE f == SubSeq(x, a + 1, n)
  <2>2. n <= Len(x) /\ a + 1 \in Nat \ {0} /\ n - (a + 1) + 1 = r /\ a + 1 <= n + 1
    BY <1>1, <1>2
  <2>3. f \in Seq(Bits) /\ Len(f) = n - (a + 1) + 1
    BY <1>1, <2>2
  <2>4. \A j \in 1 .. r : f[j] = x[a + j]
    BY <1>1, <1>2, <2>2
  <2> QED
    BY <2>1, <2>2, <2>3, <2>4
<1> QED
  BY <1>1, <1>5, <1>6, <1>7 DEF a, r, w, B

\* The bits shifted to the front of a byte are those at its end.
LEMMA ShiftedFront ==
    ASSUME NEW b \in Bytes, NEW n \in 0 .. ByteBits - 1
    PROVE  LET f == FrontBits(Shifted(b, ByteBits - n), n)
           IN  /\ f \in Seq(Bits) /\ Len(f) = n
               /\ \A j \in 1 .. n : f[j] = b[ByteBits - n + j]
<1> DEFINE B == ByteBits
           x == SubSeq(b, B - n + 1, B)
           y == FrontBits(Empty, B - n)
           s == Shifted(b, B - n)
           f == FrontBits(s, n)
<1>1. B \in Nat \ {0} /\ n \in 0 .. B - 1
  BY BFSizes
<1>2. Empty \in Bytes
  BY DEF Empty, Bytes
<1>3. b \in Seq(Bits) /\ Len(b) = B /\ Empty \in Seq(Bits) /\ Len(Empty) = B
  BY <1>2, BytesAre
<1>4. s = x \o y
  BY DEF Shifted
<1> HIDE DEF B
<1>5. x \in Seq(Bits) /\ Len(x) = n /\ \A j \in 1 .. n : x[j] = b[B - n + j]
  BY <1>1, <1>3
<1>6. y \in Seq(Bits) /\ Len(y) = B - n
  BY <1>1, <1>3 DEF FrontBits
<1> HIDE DEF x, y, s
<1>7. s \in Seq(Bits) /\ Len(s) = Len(x) + Len(y) /\ \A j \in 1 .. Len(x) : s[j] = x[j]
  <2>1. /\ x \o y \in Seq(Bits) /\ Len(x \o y) = Len(x) + Len(y)
        /\ \A j \in 1 .. Len(x) + Len(y) : (x \o y)[j] = IF j <= Len(x) THEN x[j] ELSE y[j - Len(x)]
    BY <1>5, <1>6, ConcatProperties
  <2>2. \A j \in 1 .. Len(x) : j \in 1 .. Len(x) + Len(y) /\ j <= Len(x)
    BY <1>1, <1>5, <1>6
  <2> QED
    BY <1>4, <2>1, <2>2
<1>8. f \in Seq(Bits) /\ Len(f) = n /\ \A j \in 1 .. n : f[j] = s[j]
  BY <1>1, <1>5, <1>6, <1>7 DEF FrontBits
<1> QED
  BY <1>5, <1>7, <1>8 DEF f, s, B

LEMMA PutBitsIs ==
    ASSUME NEW s, NEW n \in Counts, NEW x \in Seq(Bits), Len(x) = n
    PROVE  PutBits(s, AsMemory(x, n), n) = PutEach(PutWhole(s, Whole(x, n)), Rest(x, n))
<1> DEFINE w == n \div ByteBits
           B == ByteBits
           r == n % ByteBits
           a == w * B
           m == AsMemory(x, n)
<1>1. /\ B \in Nat \ {0} /\ n \in Nat /\ w \in 0 .. Size /\ r \in 0 .. B - 1 /\ n = a + r
      /\ r # 0 => w + 1 \in 1 .. Size
  BY BFSizes, CountDivided
<1>2. a \in Nat /\ Size \in Nat
  <2> HIDE DEF w, B
  <2> QED
    BY <1>1, BFSizes
<1>3. /\ Whole(x, n) \in Seq(Bytes) /\ Len(Whole(x, n)) = w
      /\ \A k \in 1 .. w : \A j \in 1 .. B : Whole(x, n)[k][j] = x[(k - 1) * B + j]
      /\ Rest(x, n) \in Seq(Bits) /\ Len(Rest(x, n)) = r
      /\ \A j \in 1 .. r : Rest(x, n)[j] = x[a + j]
  BY <1>1, PartsAre
<1>4. m = [k \in 1 .. Size |-> [j \in 1 .. B |->
              IF (k - 1) * B + j <= n THEN x[(k - 1) * B + j] ELSE 0]]
  BY DEF AsMemory
<1> HIDE DEF a, r, w, B, m
<1>5. SubSeq(m, 1, w) = Whole(x, n)
  <2>1. ASSUME NEW k \in 1 .. w PROVE m[k] = Whole(x, n)[k]
    <3>1. k \in 1 .. Size
      BY <1>1, <1>2
    <3>2. \A j \in 1 .. B : (k - 1) * B + j <= n
      <4> DEFINE c == (k - 1) * B
                 d == k * B
      <4>1. c \in Nat /\ d = c + B /\ d <= a
        BY <1>1, ByteWithin DEF w, B, a
      <4> HIDE DEF c, d
      <4>2. \A j \in 1 .. B : c + j <= n
        BY <1>1, <1>2, <4>1
      <4> QED
        BY <4>2 DEF c
    <3>3. m[k] = [j \in 1 .. B |-> x[(k - 1) * B + j]]
      BY <1>4, <3>1, <3>2
    <3>4. Whole(x, n)[k] \in [1 .. B -> {0, 1}]
      BY <1>3 DEF Bytes, B
    <3> QED
      BY <1>3, <3>3, <3>4
  <2> DEFINE T == [1 .. B -> {0, 1} \cup {x[i] : i \in Nat}]
  <2>2. m \in Seq(T) /\ Len(m) = Size
    <3>1. m \in [1 .. Size -> T]
      <4> SUFFICES ASSUME NEW k \in 1 .. Size, NEW j \in 1 .. B, (k - 1) * B + j <= n
                   PROVE  (k - 1) * B + j \in Nat
        BY <1>4
      <4>1. k - 1 \in Nat /\ j \in Nat
        BY <1>1, <1>2
      <4>2. (k - 1) * B \in Nat
        BY <1>1, <4>1
      <4> QED
        BY <4>1, <4>2
    <3> HIDE DEF T
    <3> QED
      BY <1>2, <3>1
  <2> HIDE DEF T
  <2>3. SubSeq(m, 1, w) = [k \in 1 .. w |-> m[k]]
    BY <1>1, <1>2, <2>2
  <2>4. Whole(x, n) = [k \in 1 .. w |-> Whole(x, n)[k]]
    BY <1>3
  <2> QED
    BY <2>1, <2>3, <2>4
<1>6. (IF r = 0 THEN <<>> ELSE FrontBits(m[w + 1], r)) = Rest(x, n)
  <2>1. CASE r = 0
    BY <1>3, <2>1
  <2>2. CASE r # 0
    <3>1. w + 1 \in 1 .. Size /\ (w + 1) - 1 = w
      BY <1>1, <1>2, <2>2
    <3>2. m[w + 1] = [j \in 1 .. B |-> IF w * B + j <= n THEN x[w * B + j] ELSE 0]
      BY <1>4, <3>1
    <3>3. m[w + 1] = [j \in 1 .. B |-> IF a + j <= n THEN x[a + j] ELSE 0]
      BY <3>2 DEF a
    <3>4. m[w + 1] \in Seq(Bits) /\ Len(m[w + 1]) = B
      <4>1. \A j \in 1 .. B : a + j <= n => x[a + j] \in Bits
        BY <1>1, <1>2
      <4>2. m[w + 1] \in [1 .. B -> Bits]
        BY <3>3, <4>1 DEF Bits
      <4> QED
        BY <1>1, <4>2
    <3>5. \A j \in 1 .. r : m[w + 1][j] = x[a + j]
      <4>1. \A j \in 1 .. r : j \in 1 .. B /\ a + j <= n
        BY <1>1, <1>2
      <4> QED
        BY <3>3, <4>1
    <3> DEFINE f == FrontBits(m[w + 1], r)
    <3>6. f \in Seq(Bits) /\ Len(f) = r /\ \A j \in 1 .. r : f[j] = m[w + 1][j]
      BY <1>1, <3>4 DEF FrontBits
    <3> HIDE DEF f
    <3>7. f = Rest(x, n)
      BY <1>3, <3>5, <3>6
    <3> QED
      BY <2>2, <3>7 DEF f
  <2> QED
    BY <2>1, <2>2
<1> QED
  BY <1>5, <1>6 DEF PutBits, w, r, m

LEMMA LeastFirstIs ==
    ASSUME NEW n \in Counts, NEW x \in Seq(Bits), Len(x) = n
    PROVE  LET L == LeastFirst(x, n)
               w == n \div ByteBits
               r == n % ByteBits
           IN  /\ L \in Seq(Bytes) /\ Len(L) = Size
               /\ \A k \in 1 .. w : L[k] = Whole(x, n)[k]
               /\ r # 0 =>
                    /\ \A j \in 1 .. r : L[w + 1][ByteBits - r + j] = Rest(x, n)[j]
                    /\ \A j \in 1 .. ByteBits - r : L[w + 1][j] = 0
               /\ \A k \in w + 1 .. Size : r = 0 \/ k > w + 1 => L[k] = Empty
<1> DEFINE w == n \div ByteBits
           B == ByteBits
           r == n % ByteBits
           a == w * B
           L == LeastFirst(x, n)
           have(k) == n - (k - 1) * B
           e == FrontBits(Empty, B - r)
           f == SubSeq(x, n - r + 1, n)
           last == e \o f
<1>1. /\ B \in Nat \ {0} /\ n \in Nat \ {0} /\ w \in 0 .. Size /\ r \in 0 .. B - 1 /\ n = a + r
      /\ r # 0 => w + 1 \in 1 .. Size
      /\ Size \in Nat \ {0}
  BY BFSizes, CountDivided
<1>2. a \in Nat
  <2> HIDE DEF w, B
  <2> QED
    BY <1>1
<1>3. /\ Whole(x, n) \in Seq(Bytes) /\ Len(Whole(x, n)) = w
      /\ Rest(x, n) \in Seq(Bits) /\ Len(Rest(x, n)) = r
      /\ \A j \in 1 .. r : Rest(x, n)[j] = x[a + j]
  BY <1>1, PartsAre
<1>4. \A k \in 1 .. w : Whole(x, n)[k] = SubSeq(x, (k - 1) * B + 1, k * B)
  BY DEF Whole
<1>5. Empty \in Bytes /\ Empty \in Seq(Bits) /\ Len(Empty) = B /\ \A j \in 1 .. B : Empty[j] = 0
  <2>1. Empty \in Bytes
    BY DEF Empty, Bytes
  <2> QED
    BY <2>1, BytesAre DEF Empty
<1>6. L = [k \in 1 .. Size |->
              IF have(k) >= B THEN SubSeq(x, (k - 1) * B + 1, k * B)
              ELSE IF have(k) <= 0 THEN Empty
              ELSE FrontBits(Empty, B - have(k)) \o SubSeq(x, n - have(k) + 1, n)]
  BY DEF LeastFirst
<1> HIDE DEF L, a, r, w, B, e, f
<1>7. /\ last \in Bytes
      /\ r # 0 => /\ \A j \in 1 .. r : last[B - r + j] = Rest(x, n)[j]
                  /\ \A j \in 1 .. B - r : last[j] = 0
  <2>1. e \in Seq(Bits) /\ Len(e) = B - r /\ \A j \in 1 .. B - r : e[j] = 0
    BY <1>1, <1>5 DEF FrontBits, e
  <2>2. f \in Seq(Bits) /\ Len(f) = r /\ \A j \in 1 .. r : f[j] = Rest(x, n)[j]
    <3>1. n - r = a /\ f = SubSeq(x, a + 1, n)
      BY <1>1, <1>2 DEF f
    <3>2. f = Rest(x, n)
      BY <3>1 DEF Rest, a, w, B
    <3> QED
      BY <1>3, <3>2
  <2> HIDE DEF last
  <2>3. /\ last \in Seq(Bits) /\ Len(last) = Len(e) + Len(f)
        /\ \A j \in 1 .. Len(e) + Len(f) : last[j] = IF j <= Len(e) THEN e[j] ELSE f[j - Len(e)]
    BY <2>1, <2>2, ConcatProperties DEF last
  <2>4. last \in [1 .. B -> Bits]
    BY <1>1, <2>1, <2>2, <2>3
  <2>5. \A j \in 1 .. r : last[B - r + j] = Rest(x, n)[j]
    <3> SUFFICES ASSUME NEW j \in 1 .. r PROVE last[B - r + j] = Rest(x, n)[j]
      OBVIOUS
    <3>1. B - r + j \in 1 .. Len(e) + Len(f) /\ ~ (B - r + j <= Len(e)) /\ (B - r + j) - Len(e) = j
      BY <1>1, <2>1, <2>2
    <3> QED
      BY <2>2, <2>3, <3>1
  <2>6. \A j \in 1 .. B - r : last[j] = 0
    <3>1. \A j \in 1 .. B - r : j \in 1 .. Len(e) + Len(f) /\ j <= Len(e)
      BY <1>1, <2>1, <2>2
    <3> QED
      BY <2>1, <2>3, <3>1
  <2> QED
    BY <2>4, <2>5, <2>6 DEF Bytes, Bits, B, last
<1>8. \A k \in 1 .. w : L[k] = Whole(x, n)[k]
  <2> SUFFICES ASSUME NEW k \in 1 .. w PROVE L[k] = Whole(x, n)[k]
    OBVIOUS
  <2> DEFINE c == (k - 1) * B
             d == k * B
  <2>1. c \in Nat /\ d = c + B /\ d <= a
    BY <1>1, ByteWithin DEF w, B, a
  <2>2. have(k) = n - c /\ k \in 1 .. Size
    BY <1>1
  <2>3. n - c >= B
    <3> HIDE DEF c, d, have
    <3> QED
      BY <1>1, <1>2, <2>1
  <2> HIDE DEF have
  <2> QED
    BY <1>4, <1>6, <2>2, <2>3
<1>9. r # 0 => L[w + 1] = last
  <2> SUFFICES ASSUME r # 0 PROVE L[w + 1] = last
    OBVIOUS
  <2>1. have(w + 1) = r
    <3>1. (w + 1) - 1 = w
      BY <1>1
    <3>2. have(w + 1) = n - a
      BY <3>1 DEF a
    <3> QED
      BY <1>1, <1>2, <3>2
  <2>2. ~ (r >= B) /\ ~ (r <= 0) /\ w + 1 \in 1 .. Size
    BY <1>1
  <2> HIDE DEF have
  <2> QED
    BY <1>6, <2>1, <2>2 DEF e, f
<1>10. \A k \in w + 1 .. Size : r = 0 \/ k > w + 1 => L[k] = Empty
  <2> SUFFICES ASSUME NEW k \in w + 1 .. Size, r = 0 \/ k > w + 1 PROVE L[k] = Empty
    OBVIOUS
  <2>1. have(k) <= 0
    <3> DEFINE d == (k - 1) - w
               c == (k - 1) * B
               g == d * B
    <3>1. d \in Nat /\ k - 1 \in Nat /\ k - 1 = w + d /\ w \in Nat
      BY <1>1
    <3>2. c = a + g /\ g \in Nat
      <4>1. (w + d) * B = w * B + d * B /\ d * B \in Nat
        <5> HIDE DEF d
        <5> QED
          BY <1>1, <3>1
      <4> QED
        BY <3>1, <4>1 DEF a
    <3>3. r = 0 \/ g >= B
      <4> SUFFICES ASSUME r # 0 PROVE g >= B
        OBVIOUS
      <4>1. d >= 1
        BY <1>1
      <4>2. d - 1 \in Nat
        BY <3>1, <4>1
      <4>3. g = (d - 1) * B + B /\ (d - 1) * B \in Nat
        <5> HIDE DEF d
        <5> QED
          BY <1>1, <3>1, <4>2
      <4> HIDE DEF g
      <4> QED
        BY <1>1, <4>3
    <3>4. have(k) = n - c
      OBVIOUS
    <3> HIDE DEF c, g, d, have
    <3> QED
      BY <1>1, <1>2, <3>2, <3>3, <3>4
  <2>2. k \in 1 .. Size /\ ~ (have(k) >= B)
    <3>1. have(k) \in Int
      <4>1. k - 1 \in Int /\ (k - 1) * B \in Int
        BY <1>1
      <4> QED
        BY <1>1, <4>1
    <3> HIDE DEF have
    <3> QED
      BY <1>1, <2>1, <3>1
  <2> HIDE DEF have
  <2> QED
    BY <1>6, <2>1, <2>2
<1>11. L \in [1 .. Size -> Bytes]
  <2>1. \A k \in 1 .. Size : L[k] \in Bytes
    <3> SUFFICES ASSUME NEW k \in 1 .. Size PROVE L[k] \in Bytes
      OBVIOUS
    <3>1. k \in 1 .. w \/ (r # 0 /\ k = w + 1) \/ (k \in w + 1 .. Size /\ (r = 0 \/ k > w + 1))
      BY <1>1
    <3> HIDE DEF last
    <3>2. \A i \in 1 .. w : Whole(x, n)[i] \in Bytes
      BY <1>3
    <3> QED
      BY <1>5, <1>7, <1>8, <1>9, <1>10, <3>1, <3>2
  <2> QED
    BY <1>6, <2>1
<1>12. L \in Seq(Bytes) /\ Len(L) = Size
  BY <1>1, <1>11
<1> HIDE DEF last
<1> QED
  BY <1>7, <1>8, <1>9, <1>10, <1>12 DEF L, r, w, B

\* The memory of a number and its bytes: this cell holds that byte.
CellsHold(m, cell, L) ==
    /\ cell \in [0 .. Size - 1 -> 1 .. Size]
    /\ \A k \in 1 .. Size : m[cell[k - 1]] = L[k]

LEMMA NumberCells ==
    ASSUME NEW n \in Counts, NEW x \in Seq(Bits), Len(x) = n
    PROVE  /\ host = "little" => CellsHold(AsNumber(x, n), CellLE, LeastFirst(x, n))
           /\ host = "big" => CellsHold(AsNumber(x, n), CellBE, LeastFirst(x, n))
<1> DEFINE L == LeastFirst(x, n)
<1>1. Size \in Nat \ {0} /\ L \in Seq(Bytes) /\ Len(L) = Size
  BY BFSizes, LeastFirstIs
<1> HIDE DEF L
<1>2. CellsHold(L, CellLE, L)
  BY <1>1 DEF CellsHold, CellLE
<1>3. CellsHold(Reverse(L), CellBE, L)
  <2>1. \A k \in 1 .. Size : CellBE[k - 1] = Size - (k - 1) /\ Size - (k - 1) \in 1 .. Size
    BY <1>1 DEF CellBE
  <2>2. Reverse(L) = [i \in 1 .. Size |-> L[(Size - i) + 1]]
    BY <1>1 DEF Reverse
  <2>3. \A k \in 1 .. Size : Reverse(L)[Size - (k - 1)] = L[k]
    <3> SUFFICES ASSUME NEW k \in 1 .. Size PROVE Reverse(L)[Size - (k - 1)] = L[k]
      OBVIOUS
    <3>1. (Size - (Size - (k - 1))) + 1 = k
      BY <1>1
    <3> QED
      BY <2>1, <2>2, <3>1
  <2>4. CellBE \in [0 .. Size - 1 -> 1 .. Size]
    BY <1>1 DEF CellBE
  <2> QED
    BY <2>1, <2>3, <2>4 DEF CellsHold
<1> QED
  BY <1>2, <1>3 DEF AsNumber, L

LEMMA PutNumberIs ==
    ASSUME NEW s, NEW n \in Counts, NEW x \in Seq(Bits), Len(x) = n, NEW m, NEW cell,
           CellsHold(m, cell, LeastFirst(x, n))
    PROVE  PutNumber(s, m, n, cell) = PutEach(PutWhole(s, Whole(x, n)), Rest(x, n))
<1> DEFINE w == n \div ByteBits
           B == ByteBits
           r == n % ByteBits
           L == LeastFirst(x, n)
           b == m[cell[IF r = 0 THEN 0 ELSE w]]
           f == FrontBits(Shifted(b, B - r), r)
<1>1. /\ B \in Nat \ {0} /\ n \in Nat \ {0} /\ w \in 0 .. Size /\ r \in 0 .. B - 1
      /\ r # 0 => w + 1 \in 1 .. Size
      /\ Size \in Nat \ {0}
  BY BFSizes, CountDivided
<1>2. /\ Whole(x, n) \in Seq(Bytes) /\ Len(Whole(x, n)) = w
      /\ Rest(x, n) \in Seq(Bits) /\ Len(Rest(x, n)) = r
  BY <1>1, PartsAre
<1>3. /\ L \in Seq(Bytes) /\ Len(L) = Size
      /\ \A k \in 1 .. w : L[k] = Whole(x, n)[k]
      /\ r # 0 => \A j \in 1 .. r : L[w + 1][B - r + j] = Rest(x, n)[j]
  BY LeastFirstIs
<1>4. \A k \in 1 .. Size : m[cell[k - 1]] = L[k]
  BY DEF CellsHold
<1>5. PutNumber(s, m, n, cell) =
         PutEach(PutWhole(s, [k \in 1 .. w |-> m[cell[k - 1]]]), IF r = 0 THEN <<>> ELSE f)
  BY DEF PutNumber
<1> HIDE DEF w, r, B, L, b, f
<1>6. [k \in 1 .. w |-> m[cell[k - 1]]] = Whole(x, n)
  <2>1. \A k \in 1 .. w : m[cell[k - 1]] = Whole(x, n)[k]
    BY <1>1, <1>3, <1>4
  <2>2. Whole(x, n) = [k \in 1 .. w |-> Whole(x, n)[k]]
    BY <1>2
  <2> QED
    BY <2>1, <2>2
<1>7. (IF r = 0 THEN <<>> ELSE f) = Rest(x, n)
  <2>1. CASE r = 0
    BY <1>2, <2>1
  <2>2. CASE r # 0
    <3>1. b = L[w + 1] /\ b \in Bytes /\ r \in 1 .. B - 1
      <4>1. w + 1 \in 1 .. Size /\ (w + 1) - 1 = w
        BY <1>1, <2>2
      <4>2. m[cell[w]] = L[w + 1]
        BY <1>4, <4>1
      <4> QED
        BY <1>1, <1>3, <2>2, <4>1, <4>2 DEF b
    <3>2. f \in Seq(Bits) /\ Len(f) = r /\ \A j \in 1 .. r : f[j] = b[B - r + j]
      BY <3>1, ShiftedFront DEF f, B
    <3>3. f = Rest(x, n)
      BY <1>2, <1>3, <2>2, <3>1, <3>2, SMTT(30)
    <3> QED
      BY <2>2, <3>3
  <2> QED
    BY <2>1, <2>2
<1> QED
  BY <1>5, <1>6, <1>7

-----------------------------------------------------------------------------
(* The operations and their places.                                        *)

Aligns == {"align", "close"}
Entries ==
    {p \in [op : {"bit", "char", "bits", "num"} \cup Aligns, n : Nat, bits : Seq(Bits)] :
        /\ Len(p.bits) = p.n
        /\ p.op = "bit" => p.n = 1
        /\ p.op = "char" => p.n = ByteBits
        /\ p.op \in {"bits", "num"} => p.n \in Counts}

Places == Nat \X (0 .. ByteBits - 1)
Upto(x, y) == x[1] < y[1] \/ (x[1] = y[1] /\ x[2] <= y[2])

\* The place behind an operation.
Behind(x, p) ==
    IF p.op \in Aligns THEN <<IF x[2] = 0 THEN x[1] ELSE x[1] + 1, 0>>
    ELSE <<ByteAfter(x[1] + (p.n \div ByteBits), x[2], p.n % ByteBits),
           BitAfter(x[2], p.n % ByteBits)>>

\* The bits of an operation are there; what fills a byte up at the end is zero.
OpAt(s, x, p) ==
    LET w == p.n \div ByteBits
    IN  /\ p.op \notin Aligns =>
             /\ \A i \in 1 .. w :
                   ChunkAt(s, x[1] + (i - 1), x[2], Whole(p.bits, p.n)[i], ByteBits)
             /\ ChunkAt(s, x[1] + w, x[2], Rest(p.bits, p.n), p.n % ByteBits)
        /\ p.op = "close" /\ x[1] < capacity /\ x[2] > 0 =>
             \A j \in x[2] + 1 .. ByteBits : BitAt(s, x[1], j) = 0

Wrote(s, t, x, p) ==
    /\ t \in Streams /\ t.at = s.at
    /\ Kept(s, t, x[1], x[2])
    /\ WriterAt(t, Behind(x, p)[1], Behind(x, p)[2])
    /\ OpAt(t, x, p)

LEMMA BehindIs ==
    ASSUME NEW x \in Places, NEW p \in Entries
    PROVE  /\ Behind(x, p) \in Places
           /\ Upto(x, Behind(x, p))
<1> DEFINE B == ByteBits
           w == p.n \div B
           r == p.n % B
<1>1. x[1] \in Nat /\ x[2] \in 0 .. B - 1 /\ B \in Nat \ {0} /\ p.n \in Nat
  BY BFSizes DEF Places, Entries
<1>2. w \in Nat /\ r \in 0 .. B - 1
  BY <1>1, Divided
<1>3. CASE p.op \in Aligns
  <2>1. Behind(x, p) = <<IF x[2] = 0 THEN x[1] ELSE x[1] + 1, 0>>
    BY <1>3 DEF Behind
  <2> QED
    BY <1>1, <2>1 DEF Places, Upto
<1>4. CASE p.op \notin Aligns
  <2>1. Behind(x, p) = <<ByteAfter(x[1] + w, x[2], r), BitAfter(x[2], r)>>
    BY <1>4 DEF Behind
  <2> HIDE DEF w, r, B
  <2>2. ByteAfter(x[1] + w, x[2], r) \in Nat /\ BitAfter(x[2], r) \in 0 .. B - 1
    <3>1. x[1] + w \in Nat /\ r \in 0 .. B
      BY <1>1, <1>2
    <3> QED
      BY <1>1, <3>1, After DEF B
  <2>3. \/ ByteAfter(x[1] + w, x[2], r) = x[1] + w /\ BitAfter(x[2], r) = x[2] + r
        \/ ByteAfter(x[1] + w, x[2], r) = x[1] + w + 1
    BY <1>1, <1>2 DEF ByteAfter, BitAfter, B
  <2> QED
    BY <1>1, <1>2, <2>1, <2>2, <2>3 DEF Places, Upto, B
<1> QED
  BY <1>3, <1>4

LEMMA UptoTrans ==
    ASSUME NEW x \in Places, NEW y \in Places, NEW z \in Places, Upto(x, y), Upto(y, z)
    PROVE  Upto(x, z)
BY BFSizes DEF Places, Upto

LEMMA OpKept ==
    ASSUME NEW s, NEW t, NEW x \in Places, NEW y \in Places, NEW p \in Entries,
           OpAt(s, x, p), Kept(s, t, y[1], y[2]), Upto(Behind(x, p), y)
    PROVE  OpAt(t, x, p)
<1> DEFINE B == ByteBits
           w == p.n \div B
           r == p.n % B
           u == x[2]
           h == x[1] + w
<1>1. /\ x[1] \in Nat /\ u \in 0 .. B - 1 /\ B \in Nat \ {0} /\ p.n \in Nat
      /\ y[1] \in Nat /\ y[2] \in 0 .. B - 1
  BY BFSizes DEF Places, Entries
<1>2. w \in Nat /\ r \in 0 .. B - 1
  BY <1>1, Divided
<1>3. CASE p.op \in Aligns
  <2> SUFFICES ASSUME p.op = "close", x[1] < capacity, x[2] > 0, NEW j \in x[2] + 1 .. B
               PROVE  BitAt(t, x[1], j) = 0
    BY <1>3 DEF OpAt
  <2>1. Behind(x, p) = <<x[1] + 1, 0>>
    BY <1>3 DEF Behind
  <2>2. x[1] < y[1] /\ j \in 1 .. B
    BY <1>1, <2>1 DEF Upto
  <2>3. BitAt(t, x[1], j) = BitAt(s, x[1], j)
    BY <1>1, <2>2 DEF Kept
  <2> QED
    BY <2>3 DEF OpAt
<1>4. CASE p.op \notin Aligns
  <2>1. Behind(x, p) = <<ByteAfter(h, u, r), BitAfter(u, r)>>
    BY <1>4 DEF Behind
  <2>2. /\ \A i \in 1 .. w : ChunkAt(s, x[1] + (i - 1), u, Whole(p.bits, p.n)[i], B)
        /\ ChunkAt(s, h, u, Rest(p.bits, p.n), r)
    BY <1>4 DEF OpAt
  <2> HIDE DEF w, r, B, u, h
  <2>3. \/ u + r < B /\ Upto(<<h, u + r>>, y)
        \/ u + r >= B /\ Upto(<<h + 1, u + r - B>>, y)
    BY <1>1, <1>2, <2>1 DEF ByteAfter, BitAfter, B
  <2>4. h \in Nat
    BY <1>1, <1>2 DEF h
  <2>5. \/ u + r < B /\ (h < y[1] \/ (h = y[1] /\ u + r <= y[2]))
        \/ u + r >= B /\ (h + 1 < y[1] \/ (h + 1 = y[1] /\ u + r - B <= y[2]))
    BY <2>3 DEF Upto
  <2>6. ChunkAt(t, h, u, Rest(p.bits, p.n), r)
    <3>1. \/ h + 1 < y[1] \/ (h + 1 = y[1] /\ (u + r <= B \/ u + r - B <= y[2]))
          \/ (h = y[1] /\ u + r <= y[2])
      BY <1>1, <1>2, <2>4, <2>5
    <3>2. r \in 0 .. B /\ y[2] \in 0 .. B
      BY <1>1, <1>2
    <3> QED
      BY <1>1, <2>2, <2>4, <3>1, <3>2, ChunkKept DEF B
  <2>7. h < y[1] \/ (h = y[1] /\ u <= y[2])
    BY <1>1, <1>2, <2>4, <2>5
  <2>8. \A i \in 1 .. w : ChunkAt(t, x[1] + (i - 1), u, Whole(p.bits, p.n)[i], B)
    <3> SUFFICES ASSUME NEW i \in 1 .. w
                 PROVE  ChunkAt(t, x[1] + (i - 1), u, Whole(p.bits, p.n)[i], B)
      OBVIOUS
    <3> DEFINE q == x[1] + (i - 1)
    <3>1. q \in Nat /\ q + 1 <= h
      BY <1>1, <1>2 DEF h
    <3>2. ChunkAt(s, q, u, Whole(p.bits, p.n)[i], B)
      BY <2>2
    <3> HIDE DEF q
    <3>3. q + 1 < y[1] \/ (q + 1 = y[1] /\ (u + B <= B \/ u + B - B <= y[2]))
      BY <1>1, <2>4, <2>7, <3>1
    <3>4. B \in 0 .. B /\ y[2] \in 0 .. B
      BY <1>1
    <3>5. ChunkAt(t, q, u, Whole(p.bits, p.n)[i], B)
      BY <1>1, <3>1, <3>2, <3>3, <3>4, ChunkKept DEF B
    <3> QED
      BY <3>5 DEF q
  <2>9. p.op # "close"
    BY <1>4 DEF Aligns
  <2> QED
    BY <2>6, <2>8, <2>9 DEF OpAt, w, r, B, u, h
<1> QED
  BY <1>3, <1>4

-----------------------------------------------------------------------------
(* Each operation of a writer.                                             *)

LEMMA PutsAllWrote ==
    ASSUME NEW s, NEW t, NEW x \in Places, NEW p \in Entries, p.op \notin Aligns,
           PutsAll(s, t, x[1], x[2], Whole(p.bits, p.n), Rest(p.bits, p.n))
    PROVE  Wrote(s, t, x, p)
<1>1. p.n \in Nat /\ p.bits \in Seq(Bits) /\ Len(p.bits) = p.n
  BY DEF Entries
<1>2. Len(Whole(p.bits, p.n)) = p.n \div ByteBits /\ Len(Rest(p.bits, p.n)) = p.n % ByteBits
  BY <1>1, PartsAre
<1>3. p.op # "close"
  BY DEF Aligns
<1>4. Behind(x, p)[1] = ByteAfter(x[1] + (p.n \div ByteBits), x[2], p.n % ByteBits)
  BY DEF Behind
<1>5. Behind(x, p)[2] = BitAfter(x[2], p.n % ByteBits)
  BY DEF Behind
<1> QED
  BY <1>2, <1>3, <1>4, <1>5 DEF PutsAll, Wrote, OpAt

LEMMA WroteBit ==
    ASSUME NEW s \in Streams, NEW x \in Places, NEW p \in Entries, p.op = "bit",
           capacity \in Nat, WriterAt(s, x[1], x[2]), s.ok
    PROVE  Wrote(s, PutBit(s, p.bits[1]), x, p)
<1> DEFINE b == p.bits
           t == PutBit(s, b[1])
           B == ByteBits
           q == x[1]
           r == x[2]
<1>1. /\ p.n = 1 /\ b \in Seq(Bits) /\ Len(b) = 1 /\ b[1] \in Bits /\ b = <<b[1]>>
      /\ q \in Nat /\ r \in 0 .. B - 1 /\ B \in Nat \ {0} /\ p.op \notin Aligns
  <2>1. p.n = 1 /\ b \in Seq(Bits) /\ Len(b) = 1 /\ p.op \notin Aligns
    BY DEF Entries, Aligns
  <2>2. q \in Nat /\ r \in 0 .. B - 1 /\ B \in Nat \ {0}
    BY BFSizes DEF Places
  <2> HIDE DEF b, q, r
  <2>3. b[1] \in Bits /\ b = <<b[1]>>
    <3>1. b[1] \in Bits
      <4>1. 1 \in 1 .. Len(b)
        BY <2>1
      <4> QED
        BY <2>1, <4>1, ElementOfSeq
    <3> DEFINE c == <<b[1]>>
    <3>2. c \in Seq(Bits) /\ Len(c) = 1 /\ c[1] = b[1]
      BY <3>1
    <3> HIDE DEF c
    <3>3. b = c
      BY <2>1, <3>2
    <3> QED
      BY <3>1, <3>3 DEF c
  <2> QED
    BY <2>1, <2>2, <2>3
<1>2. Puts(s, t, q, r, b, 1)
  <2>1. Puts(s, t, q, r, <<b[1]>>, 1)
    BY <1>1, PutBitIs
  <2> QED
    BY <1>1, <2>1
<1> DEFINE W == Whole(b, 1)
           R == Rest(b, 1)
<1>3. /\ Len(W) = 1 \div B /\ Len(R) = 1 % B
      /\ \A k \in 1 .. 1 \div B : \A j \in 1 .. B : W[k][j] = b[(k - 1) * B + j]
      /\ \A j \in 1 .. 1 % B : R[j] = b[(1 \div B) * B + j]
  <2> HIDE DEF b
  <2>1. 1 \in Nat
    OBVIOUS
  <2> QED
    BY <1>1, <2>1, PartsAre, Zenon
<1> HIDE DEF t, b, W, R, q, r
<1>4. /\ t \in Streams /\ t.at = s.at /\ Kept(s, t, q, r)
      /\ WriterAt(t, ByteAfter(q, r, 1), BitAfter(r, 1))
      /\ ChunkAt(t, q, r, b, 1)
  BY <1>2 DEF Puts
<1>5. PutsAll(s, t, q, r, W, R)
  <2>1. CASE B = 1
    <3>1. r = 0 /\ 1 \div B = 1 /\ 1 % B = 0
      BY <1>1, <2>1
    <3>2. Len(W) = 1 /\ Len(R) = 0 /\ W[1][1] = b[1]
      BY <1>3, <2>1, <3>1
    <3>3. ByteAfter(q, r, 1) = q + 1 /\ BitAfter(r, 1) = 0
      BY <1>1, <2>1, <3>1 DEF ByteAfter, BitAfter
    <3>4. ByteAfter(q + 1, r, 0) = q + 1 /\ BitAfter(r, 0) = 0
      BY <1>1, <2>1, <3>1 DEF ByteAfter, BitAfter
    <3>5. ChunkAt(t, q + (1 - 1), r, W[1], 1)
      BY <1>1, <1>4, <3>2 DEF ChunkAt
    <3>6. ChunkAt(t, q + 1, r, R, 0)
      BY DEF ChunkAt
    <3>7. \A i \in 1 .. 1 : ChunkAt(t, q + (i - 1), r, W[i], 1)
      BY <3>5
    <3> QED
      BY <1>4, <2>1, <3>2, <3>3, <3>4, <3>6, <3>7 DEF PutsAll
  <2>2. CASE B # 1
    <3>1. 1 \div B = 0 /\ 1 % B = 1
      BY <1>1, <2>2
    <3>2. (1 \div B) * B = 0
      BY <1>1, <3>1
    <3>3. Len(W) = 0 /\ Len(R) = 1 /\ R[1] = b[1] /\ q + 0 = q
      <4>1. 1 \in 1 .. 1 % B /\ (1 \div B) * B + 1 = 1
        BY <3>1, <3>2
      <4>2. R[1] = b[(1 \div B) * B + 1]
        BY <1>3, <4>1
      <4> QED
        BY <1>1, <1>3, <3>1, <4>1, <4>2
    <3>4. ChunkAt(t, q, r, R, 1)
      BY <1>4, <3>3 DEF ChunkAt
    <3>5. \A i \in 1 .. 0 : ChunkAt(t, q + (i - 1), r, W[i], B)
      OBVIOUS
    <3> QED
      BY <1>4, <3>3, <3>4, <3>5 DEF PutsAll
  <2> QED
    BY <2>1, <2>2
<1> QED
  BY <1>1, <1>5, PutsAllWrote DEF W, R, t, b, q, r

LEMMA WroteChar ==
    ASSUME NEW s \in Streams, NEW x \in Places, NEW p \in Entries, p.op = "char",
           capacity \in Nat, WriterAt(s, x[1], x[2]), s.ok
    PROVE  Wrote(s, PutChar(s, p.bits), x, p)
<1> DEFINE b == p.bits
           t == PutChar(s, b)
           B == ByteBits
           q == x[1]
           r == x[2]
           W == Whole(b, B)
           R == Rest(b, B)
<1>1. /\ p.n = B /\ b \in Seq(Bits) /\ Len(b) = B /\ b \in Bytes
      /\ q \in Nat /\ r \in 0 .. B - 1 /\ B \in Nat \ {0} /\ p.op \notin Aligns
  BY BFSizes DEF Entries, Places, Aligns, Bytes, Bits
<1>2. Puts(s, t, q, r, b, B)
  BY <1>1, PutCharIs
<1>3. B \div B = 1 /\ B % B = 0
  BY <1>1
<1>4. /\ Len(W) = 1 /\ Len(R) = 0
      /\ \A k \in 1 .. 1 : \A j \in 1 .. B : W[k][j] = b[(k - 1) * B + j]
  <2> HIDE DEF b
  <2>1. B \in Nat
    BY <1>1
  <2>2. /\ Len(W) = B \div B /\ Len(R) = B % B
        /\ \A k \in 1 .. B \div B : \A j \in 1 .. B : W[k][j] = b[(k - 1) * B + j]
    BY <1>1, <2>1, PartsAre, Zenon
  <2> HIDE DEF W, R, B
  <2> QED
    BY <1>3, <2>2
<1> HIDE DEF t, b, W, R, q, r
<1>5. \A j \in 1 .. B : W[1][j] = b[j]
  <2>1. 1 \in 1 .. 1 /\ (1 - 1) * B = 0 /\ \A j \in 1 .. B : 0 + j = j
    BY <1>1
  <2> QED
    BY <1>4, <2>1
<1>6. /\ t \in Streams /\ t.at = s.at /\ Kept(s, t, q, r)
      /\ WriterAt(t, ByteAfter(q, r, B), BitAfter(r, B))
      /\ ChunkAt(t, q, r, b, B)
  BY <1>2 DEF Puts
<1>7. ByteAfter(q, r, B) = ByteAfter(q + 1, r, 0) /\ BitAfter(r, B) = BitAfter(r, 0)
  BY <1>1 DEF ByteAfter, BitAfter
<1>8. \A i \in 1 .. 1 : ChunkAt(t, q + (i - 1), r, W[i], B)
  <2>1. q + (1 - 1) = q
    BY <1>1
  <2>2. ChunkAt(t, q + (1 - 1), r, W[1], B)
    BY <1>5, <1>6, <2>1 DEF ChunkAt
  <2> QED
    BY <2>2
<1>9. ChunkAt(t, q + 1, r, R, 0)
  BY DEF ChunkAt
<1>10. PutsAll(s, t, q, r, W, R)
  BY <1>4, <1>6, <1>7, <1>8, <1>9 DEF PutsAll
<1> QED
  BY <1>1, <1>10, PutsAllWrote DEF W, R, t, b, q, r

LEMMA WroteMany ==
    ASSUME NEW s \in Streams, NEW x \in Places, NEW p \in Entries, p.op \notin Aligns,
           capacity \in Nat, WriterAt(s, x[1], x[2]), s.ok
    PROVE  Wrote(s, PutEach(PutWhole(s, Whole(p.bits, p.n)), Rest(p.bits, p.n)), x, p)
<1>1. /\ p.n \in Nat /\ p.bits \in Seq(Bits) /\ Len(p.bits) = p.n
      /\ x[1] \in Nat /\ x[2] \in 0 .. ByteBits - 1
  BY DEF Entries, Places
<1>2. /\ Whole(p.bits, p.n) \in Seq(Bytes) /\ Rest(p.bits, p.n) \in Seq(Bits)
      /\ Len(Rest(p.bits, p.n)) < ByteBits
  BY <1>1, PartsAre
<1>3. s \in Room
  BY <1>1, StaysInRoom
<1> QED
  BY <1>1, <1>2, <1>3, PutsAllIs, PutsAllWrote

LEMMA WroteAlign ==
    ASSUME NEW s \in Streams, NEW x \in Places, NEW p \in Entries, p.op \in Aligns,
           capacity \in Nat, WriterAt(s, x[1], x[2]), NEW fill \in Bits,
           p.op = "close" => fill = 0
    PROVE  Wrote(s, Aligned(Drain(s, fill)), x, p)
<1> DEFINE t == Aligned(Drain(s, fill))
           q == x[1]
           r == x[2]
<1>1. q \in Nat /\ r \in 0 .. ByteBits - 1
  BY DEF Places
<1> HIDE DEF t, q, r
<1>2. /\ t \in Streams /\ t.at = s.at /\ t.count = 0 /\ Kept(s, t, q, r)
      /\ WriterAt(t, IF r = 0 THEN q ELSE q + 1, 0)
      /\ q < capacity => \A j \in r + 1 .. ByteBits : r > 0 => BitAt(t, q, j) = fill
  BY <1>1, DrainIs DEF t, q, r
<1>3. Behind(x, p)[1] = (IF r = 0 THEN q ELSE q + 1) /\ Behind(x, p)[2] = 0
  BY DEF Behind, q, r
<1>4. OpAt(t, x, p)
  BY <1>2 DEF OpAt, q, r
<1> QED
  BY <1>2, <1>3, <1>4 DEF Wrote, t, q, r

-----------------------------------------------------------------------------
(* All that was written.                                                   *)

Laid(s, ps, P) ==
    LET end == P[Len(ps) + 1]
    IN  /\ P \in [1 .. Len(ps) + 1 -> Places] /\ P[1] = <<0, 0>>
        /\ \A k \in 1 .. Len(ps) : P[k + 1] = Behind(P[k], ps[k]) /\ OpAt(s, P[k], ps[k])
        /\ \A k \in 1 .. Len(ps) + 1 : Upto(P[k], end)
        /\ WriterAt(s, end[1], end[2])

LEMMA LaidOn ==
    ASSUME NEW s, NEW t, NEW ps \in Seq(Entries), NEW P, NEW e \in Entries,
           Laid(s, ps, P), Wrote(s, t, P[Len(ps) + 1], e)
    PROVE  \E Q : Laid(t, Append(ps, e), Q)
<1> DEFINE N == Len(ps)
           y == P[N + 1]
           z == Behind(y, e)
           qs == Append(ps, e)
           Q == [k \in 1 .. N + 2 |-> IF k = N + 2 THEN z ELSE P[k]]
<1>1. N \in Nat /\ Len(qs) = N + 1 /\ qs[N + 1] = e /\ \A k \in 1 .. N : qs[k] = ps[k] /\ ps[k] \in Entries
  OBVIOUS
<1>2. /\ P \in [1 .. N + 1 -> Places] /\ P[1] = <<0, 0>> /\ y \in Places
      /\ \A k \in 1 .. N : P[k + 1] = Behind(P[k], ps[k]) /\ OpAt(s, P[k], ps[k])
      /\ \A k \in 1 .. N + 1 : Upto(P[k], y)
  BY <1>1 DEF Laid
<1>3. z \in Places /\ Upto(y, z)
  BY <1>2, BehindIs
<1>4. /\ Kept(s, t, y[1], y[2]) /\ WriterAt(t, z[1], z[2]) /\ OpAt(t, y, e)
  BY DEF Wrote
<1> HIDE DEF N, y, z, qs
<1>5. Q \in [1 .. N + 2 -> Places] /\ Q[1] = <<0, 0>> /\ Q[N + 2] = z /\ Q[N + 1] = y
      /\ \A k \in 1 .. N + 1 : Q[k] = P[k]
  <2>1. \A k \in 1 .. N + 2 : k = N + 2 \/ k \in 1 .. N + 1
    BY <1>1
  <2>2. N + 2 \in 1 .. N + 2 /\ \A k \in 1 .. N + 1 : k \in 1 .. N + 2 /\ k # N + 2
    BY <1>1
  <2>3. 1 \in 1 .. N + 1 /\ N + 1 \in 1 .. N + 1
    BY <1>1
  <2> QED
    BY <1>2, <1>3, <2>1, <2>2, <2>3 DEF y
<1> HIDE DEF Q
<1>6. ASSUME NEW k \in 1 .. N + 1 PROVE Q[k + 1] = Behind(Q[k], qs[k]) /\ OpAt(t, Q[k], qs[k])
  <2>1. CASE k = N + 1
    <3>1. k + 1 = N + 2
      BY <1>1, <2>1
    <3> QED
      BY <1>1, <1>4, <1>5, <2>1, <3>1 DEF z
  <2>2. CASE k # N + 1
    <3>1. k \in 1 .. N /\ k + 1 \in 1 .. N + 1
      BY <1>1, <2>2
    <3>2. P[k] \in Places /\ ps[k] \in Entries /\ OpAt(s, P[k], ps[k]) /\ Upto(Behind(P[k], ps[k]), y)
      BY <1>1, <1>2, <3>1
    <3>3. OpAt(t, P[k], ps[k])
      BY <1>2, <1>4, <3>2, OpKept
    <3>4. Q[k] = P[k] /\ Q[k + 1] = P[k + 1] /\ qs[k] = ps[k]
      BY <1>1, <1>5, <3>1
    <3> QED
      BY <1>2, <3>1, <3>3, <3>4
  <2> QED
    BY <2>1, <2>2
<1>7. ASSUME NEW k \in 1 .. N + 2 PROVE Upto(Q[k], z)
  <2>1. CASE k = N + 2
    BY <1>3, <1>5, <2>1 DEF Upto, Places
  <2>2. CASE k # N + 2
    <3>1. k \in 1 .. N + 1
      BY <1>1, <2>2
    <3>2. Q[k] = P[k] /\ P[k] \in Places /\ Upto(P[k], y)
      BY <1>2, <1>5, <3>1
    <3> QED
      BY <1>2, <1>3, <3>2, UptoTrans
  <2> QED
    BY <2>1, <2>2
<1>8. Laid(t, qs, Q)
  <2>1. Len(qs) + 1 = N + 2
    BY <1>1
  <2> QED
    BY <1>1, <1>4, <1>5, <1>6, <1>7, <2>1 DEF Laid
<1> QED
  BY <1>8 DEF qs

-----------------------------------------------------------------------------
(* Getting.                                                                *)

Readers == {s \in Streams : s.at <= Len(s.bytes)}

\* The reader is at this place.
ReaderAt(s, q, r) ==
    IF r = 0 THEN s.at = q /\ s.count = 0
    ELSE s.at = q + 1 /\ s.count = ByteBits - r /\ s.buffer = s.bytes[q + 1]

\* The bits before this place are in the file.
Fits(s, q, r) == q < Len(s.bytes) \/ (q = Len(s.bytes) /\ r = 0)

FileBit(s, q, r, j) == s.bytes[ByteOf(q, r, j) + 1][BitOf(q, r, j)]

\* t is what a reader at this place leaves that has got n bits, or fails to.
Gets(s, t, q, r, n) ==
    /\ t \in Readers /\ t.bytes = s.bytes
    /\ IF t.ok THEN ReaderAt(t, ByteAfter(q, r, n), BitAfter(r, n))
       ELSE ~ Fits(s, ByteAfter(q, r, n), BitAfter(r, n))

LEMMA ReaderIs ==
    ASSUME NEW s \in Readers
    PROVE  /\ s \in Streams /\ s.bytes \in Seq(Bytes) /\ s.at \in 0 .. Len(s.bytes)
           /\ s.buffer \in Bytes /\ s.count \in 0 .. ByteBits - 1
           /\ s.ok \in BOOLEAN /\ s.bits \in Seq(Bits)
           /\ Len(s.bytes) \in Nat
BY DEF Readers, Streams

\* The fields of a reader are set.
WithFields(s, a, b, n, x) == [s EXCEPT !.at = a, !.buffer = b, !.count = n, !.bits = x]

LEMMA WithFieldsIs ==
    ASSUME NEW s \in Readers, NEW a \in 0 .. Len(s.bytes), NEW b \in Bytes,
           NEW n \in 0 .. ByteBits - 1, NEW x \in Seq(Bits)
    PROVE  LET t == WithFields(s, a, b, n, x)
           IN  /\ t \in Readers /\ t.bytes = s.bytes /\ t.at = a /\ t.buffer = b
               /\ t.count = n /\ t.ok = s.ok /\ t.bits = x
<1> DEFINE t == WithFields(s, a, b, n, x)
<1>1. /\ t.bytes = s.bytes /\ t.at = a /\ t.buffer = b /\ t.count = n /\ t.ok = s.ok /\ t.bits = x
      /\ t \in Streams
  <2>1. s \in Streams /\ Len(s.bytes) \in Nat
    BY ReaderIs
  <2>2. a \in Nat
    BY <2>1
  <2> QED
    BY <2>1, <2>2 DEF Streams, WithFields
<1> HIDE DEF t
<1>2. t \in Readers
  BY <1>1 DEF Readers
<1> QED
  BY <1>1, <1>2 DEF t

\* What a call that fails leaves.
LEMMA FailedIs ==
    ASSUME NEW s \in Readers
    PROVE  LET t == [s EXCEPT !.ok = FALSE]
           IN  t \in Readers /\ t.bytes = s.bytes /\ t.ok = FALSE
BY DEF Readers, Streams

\* The fields after a byte was got.
LEMMA GetCharFields ==
    ASSUME NEW s \in Readers, s.at # Len(s.bytes)
    PROVE  LET b == s.bytes[s.at + 1]
               t == GetChar(s)
           IN  /\ b \in Bytes /\ t \in Readers /\ t.bytes = s.bytes /\ t.at = s.at + 1
               /\ t.count = s.count /\ t.ok = s.ok /\ t.bits \in Bytes
               /\ s.count > 0 => t.buffer = b
               /\ \A j \in 1 .. s.count : t.bits[j] = s.buffer[ByteBits - s.count + j]
               /\ \A j \in s.count + 1 .. ByteBits : t.bits[j] = b[j - s.count]
<1> DEFINE b == s.bytes[s.at + 1]
           t == GetChar(s)
           B == ByteBits
           d == LowBits(s.buffer, s.count) \o FrontBits(b, B - s.count)
<1>1. /\ B \in Nat \ {0} /\ s.bytes \in Seq(Bytes) /\ s.at \in 0 .. Len(s.bytes)
      /\ s.buffer \in Bytes /\ s.count \in 0 .. B - 1
  BY BFSizes, ReaderIs
<1>2. b \in Bytes /\ s.at + 1 \in 0 .. Len(s.bytes)
  BY <1>1
<1>3. t = IF s.count = 0 THEN [s EXCEPT !.at = @ + 1, !.bits = b]
          ELSE [s EXCEPT !.at = @ + 1, !.buffer = b, !.bits = d]
  BY DEF GetChar
<1>4. CASE s.count = 0
  <2>1. t = WithFields(s, s.at + 1, s.buffer, s.count, b)
    BY <1>3, <1>4 DEF WithFields, Readers, Streams
  <2>2. b \in Seq(Bits)
    BY <1>2, BytesAre
  <2> HIDE DEF b, t
  <2>3. /\ t \in Readers /\ t.bytes = s.bytes /\ t.at = s.at + 1
        /\ t.count = s.count /\ t.ok = s.ok /\ t.bits = b
    BY <1>1, <1>2, <2>1, <2>2, WithFieldsIs DEF B
  <2>4. /\ \A j \in 1 .. 0 : t.bits[j] = s.buffer[B - s.count + j]
        /\ \A j \in 0 + 1 .. B : t.bits[j] = b[j - 0]
    BY <1>1, <2>3
  <2> QED
    BY <1>2, <1>4, <2>3, <2>4 DEF b, t, B
<1>5. CASE s.count # 0
  <2>1. t = WithFields(s, s.at + 1, b, s.count, d)
    BY <1>3, <1>5 DEF WithFields, Readers, Streams
  <2>2. /\ d \in Bytes
        /\ \A j \in 1 .. s.count : d[j] = s.buffer[B - s.count + j]
        /\ \A j \in s.count + 1 .. B : d[j] = b[j - s.count]
    BY <1>1, <1>2, TwoParts
  <2>3. d \in Seq(Bits)
    BY <2>2, BytesAre
  <2> HIDE DEF b, t, d
  <2>4. /\ t \in Readers /\ t.bytes = s.bytes /\ t.at = s.at + 1 /\ t.buffer = b
        /\ t.count = s.count /\ t.ok = s.ok /\ t.bits = d
    BY <1>1, <1>2, <2>1, <2>3, WithFieldsIs DEF B
  <2> QED
    BY <1>2, <2>2, <2>4 DEF b, t, B
<1> QED
  BY <1>4, <1>5

LEMMA GetCharIs ==
    ASSUME NEW s \in Readers, NEW q \in Nat, NEW r \in 0 .. ByteBits - 1,
           ReaderAt(s, q, r), s.ok
    PROVE  LET t == GetChar(s)
           IN  /\ t \in Readers /\ t.bytes = s.bytes
               /\ IF t.ok THEN ReaderAt(t, q + 1, r) ELSE ~ Fits(s, q + 1, r)
               /\ t.ok => /\ t.bits \in Bytes
                          /\ \A j \in 1 .. ByteBits : t.bits[j] = FileBit(s, q, r, j)
<1> DEFINE t == GetChar(s)
           B == ByteBits
           b == s.bytes[s.at + 1]
<1>1. /\ B \in Nat \ {0} /\ s.bytes \in Seq(Bytes) /\ s.at \in 0 .. Len(s.bytes)
      /\ s.buffer \in Bytes /\ s.count \in 0 .. B - 1 /\ Len(s.bytes) \in Nat
  BY BFSizes, ReaderIs
<1>2. \/ r = 0 /\ s.at = q /\ s.count = 0
      \/ r # 0 /\ s.at = q + 1 /\ s.count = B - r /\ s.buffer = s.bytes[q + 1]
  BY DEF ReaderAt
<1>3. CASE s.at = Len(s.bytes)
  <2>1. t = [s EXCEPT !.ok = FALSE]
    BY <1>3 DEF GetChar
  <2>2. t \in Readers /\ t.bytes = s.bytes /\ t.ok = FALSE
    BY <2>1, FailedIs
  <2>3. ~ Fits(s, q + 1, r)
    BY <1>1, <1>2, <1>3 DEF Fits
  <2> QED
    BY <2>2, <2>3
<1>4. CASE s.at # Len(s.bytes)
  <2>1. /\ b \in Bytes /\ t \in Readers /\ t.bytes = s.bytes /\ t.at = s.at + 1
        /\ t.count = s.count /\ t.ok = s.ok /\ t.bits \in Bytes
        /\ s.count > 0 => t.buffer = b
        /\ \A j \in 1 .. s.count : t.bits[j] = s.buffer[B - s.count + j]
        /\ \A j \in s.count + 1 .. B : t.bits[j] = b[j - s.count]
    BY <1>4, GetCharFields
  <2> HIDE DEF t, b, B
  <2>2. ReaderAt(t, q + 1, r)
    <3>1. CASE r = 0
      BY <1>2, <2>1, <3>1 DEF ReaderAt
    <3>2. CASE r # 0
      <4>1. s.at = q + 1 /\ s.count = B - r /\ s.count > 0
        BY <1>1, <1>2, <3>2 DEF B
      <4>2. t.at = (q + 1) + 1 /\ t.count = B - r /\ t.buffer = t.bytes[(q + 1) + 1]
        BY <2>1, <4>1 DEF b
      <4> QED
        BY <3>2, <4>2 DEF ReaderAt, B
    <3> QED
      BY <3>1, <3>2
  <2>3. \A j \in 1 .. B : t.bits[j] = FileBit(s, q, r, j)
    <3> SUFFICES ASSUME NEW j \in 1 .. B PROVE t.bits[j] = FileBit(s, q, r, j)
      OBVIOUS
    <3>1. CASE r = 0
      <4>1. s.count = 0 /\ b = s.bytes[q + 1]
        BY <1>2, <3>1 DEF b
      <4>2. ByteOf(q, r, j) = q /\ BitOf(q, r, j) = j
        BY <1>1, <3>1 DEF ByteOf, BitOf, B
      <4>3. j \in 0 + 1 .. B /\ j - 0 = j
        BY <1>1
      <4> QED
        BY <2>1, <4>1, <4>2, <4>3 DEF FileBit
    <3>2. CASE r # 0
      <4>1. s.count = B - r /\ s.buffer = s.bytes[q + 1] /\ b = s.bytes[(q + 1) + 1]
        BY <1>2, <3>2 DEF b, B
      <4>2. CASE r + j <= B
        <5>1. ByteOf(q, r, j) = q /\ BitOf(q, r, j) = r + j
          BY <4>2 DEF ByteOf, BitOf, B
        <5>2. j \in 1 .. s.count /\ B - s.count + j = r + j
          BY <1>1, <4>1, <4>2 DEF B
        <5> QED
          BY <2>1, <4>1, <5>1, <5>2 DEF FileBit
      <4>3. CASE ~ (r + j <= B)
        <5>1. ByteOf(q, r, j) = q + 1 /\ BitOf(q, r, j) = r + j - B
          BY <4>3 DEF ByteOf, BitOf, B
        <5>2. j \in s.count + 1 .. B /\ j - s.count = r + j - B
          BY <1>1, <4>1, <4>3, SMTT(30) DEF B
        <5> QED
          BY <2>1, <4>1, <5>1, <5>2 DEF FileBit
      <4> QED
        BY <4>2, <4>3
    <3> QED
      BY <3>1, <3>2
  <2> QED
    BY <2>1, <2>2, <2>3 DEF t, B
<1> QED
  BY <1>3, <1>4

\* The fields after a bit was got.
LEMMA GetBitFields ==
    ASSUME NEW s \in Readers, ~ (s.count = 0 /\ s.at = Len(s.bytes))
    PROVE  LET b == IF s.count = 0 THEN s.bytes[s.at + 1] ELSE s.buffer
               n == (IF s.count = 0 THEN ByteBits ELSE s.count) - 1
               t == GetBit(s)
           IN  /\ t \in Readers /\ t.bytes = s.bytes
               /\ t.at = (IF s.count = 0 THEN s.at + 1 ELSE s.at)
               /\ t.buffer = b /\ t.count = n /\ t.ok = s.ok
               /\ t.bits = <<b[ByteBits - n]>> /\ t.bits[1] \in Bits
<1> DEFINE b == IF s.count = 0 THEN s.bytes[s.at + 1] ELSE s.buffer
           n == (IF s.count = 0 THEN ByteBits ELSE s.count) - 1
           a == IF s.count = 0 THEN s.at + 1 ELSE s.at
           t == GetBit(s)
           B == ByteBits
<1>1. /\ B \in Nat \ {0} /\ s.bytes \in Seq(Bytes) /\ s.at \in 0 .. Len(s.bytes)
      /\ s.buffer \in Bytes /\ s.count \in 0 .. B - 1
  BY BFSizes, ReaderIs
<1>2. b \in Bytes /\ a \in 0 .. Len(s.bytes)
  BY <1>1
<1>3. n \in 0 .. B - 1 /\ B - n \in 1 .. B
  BY <1>1
<1>4. t = WithFields(s, a, b, n, <<b[B - n]>>)
  BY DEF GetBit, WithFields, Readers, Streams
<1>5. b[B - n] \in Bits
  <2> HIDE DEF b, n
  <2> QED
    BY <1>2, <1>3, BytesAre
<1>6. <<b[B - n]>> \in Seq(Bits) /\ <<b[B - n]>>[1] = b[B - n]
  <2> DEFINE c == b[B - n]
  <2> HIDE DEF c
  <2>1. <<c>> \in Seq(Bits) /\ <<c>>[1] = c
    BY <1>5 DEF c
  <2> QED
    BY <2>1 DEF c
<1> HIDE DEF a, b, n, t
<1>7. /\ t \in Readers /\ t.bytes = s.bytes /\ t.at = a /\ t.buffer = b
      /\ t.count = n /\ t.ok = s.ok /\ t.bits = <<b[B - n]>>
  <2> DEFINE x == <<b[B - n]>>
  <2>1. x \in Seq(Bits) /\ t = WithFields(s, a, b, n, x) /\ n \in 0 .. ByteBits - 1
    BY <1>3, <1>4, <1>6
  <2> HIDE DEF x
  <2>2. /\ t \in Readers /\ t.bytes = s.bytes /\ t.at = a /\ t.buffer = b
        /\ t.count = n /\ t.ok = s.ok /\ t.bits = x
    BY <1>2, <2>1, WithFieldsIs
  <2> QED
    BY <2>2 DEF x
<1> QED
  BY <1>5, <1>6, <1>7 DEF a, b, n, t, B

LEMMA GetBitIs ==
    ASSUME NEW s \in Readers, NEW q \in Nat, NEW r \in 0 .. ByteBits - 1,
           ReaderAt(s, q, r), s.ok
    PROVE  LET t == GetBit(s)
           IN  Gets(s, t, q, r, 1) /\ (t.ok => t.bits = <<FileBit(s, q, r, 1)>> /\ t.bits[1] \in Bits)
<1> DEFINE t == GetBit(s)
           B == ByteBits
           b == IF s.count = 0 THEN s.bytes[s.at + 1] ELSE s.buffer
           n == (IF s.count = 0 THEN B ELSE s.count) - 1
<1>1. /\ B \in Nat \ {0} /\ s.bytes \in Seq(Bytes) /\ s.at \in 0 .. Len(s.bytes)
      /\ s.buffer \in Bytes /\ s.count \in 0 .. B - 1 /\ Len(s.bytes) \in Nat /\ s.ok \in BOOLEAN
  BY BFSizes, ReaderIs
<1>2. \/ r = 0 /\ s.at = q /\ s.count = 0
      \/ r # 0 /\ s.at = q + 1 /\ s.count = B - r /\ s.buffer = s.bytes[q + 1]
  BY DEF ReaderAt
<1>3. \/ r + 1 < B /\ ByteAfter(q, r, 1) = q /\ BitAfter(r, 1) = r + 1
      \/ r + 1 = B /\ ByteAfter(q, r, 1) = q + 1 /\ BitAfter(r, 1) = 0
  BY <1>1 DEF ByteAfter, BitAfter
<1>4. CASE s.count = 0 /\ s.at = Len(s.bytes)
  <2>1. t = [s EXCEPT !.ok = FALSE]
    BY <1>4 DEF GetBit
  <2>2. t \in Readers /\ t.bytes = s.bytes /\ t.ok = FALSE
    BY <2>1, FailedIs
  <2>3. r = 0 /\ q = Len(s.bytes)
    BY <1>1, <1>2, <1>4
  <2> HIDE DEF t
  <2>4. ~ Fits(s, ByteAfter(q, r, 1), BitAfter(r, 1))
    BY <1>1, <1>3, <2>3 DEF Fits
  <2> QED
    BY <2>2, <2>4 DEF Gets, t
<1>5. CASE ~ (s.count = 0 /\ s.at = Len(s.bytes))
  <2>1. /\ t \in Readers /\ t.bytes = s.bytes
        /\ t.at = (IF s.count = 0 THEN s.at + 1 ELSE s.at)
        /\ t.buffer = b /\ t.count = n /\ t.ok = s.ok
        /\ t.bits = <<b[B - n]>> /\ t.bits[1] \in Bits
    BY <1>5, GetBitFields
  <2>2. b = s.bytes[q + 1] /\ B - n = r + 1 /\ t.at = q + 1
    <3>1. CASE r = 0
      BY <1>1, <1>2, <2>1, <3>1
    <3>2. CASE r # 0
      <4>1. s.at = q + 1 /\ s.count = B - r /\ s.count # 0 /\ s.buffer = s.bytes[q + 1]
        BY <1>1, <1>2, <3>2
      <4>2. b = s.bytes[q + 1] /\ n = B - r - 1 /\ t.at = q + 1
        BY <2>1, <4>1
      <4> QED
        BY <1>1, <4>2
    <3> QED
      BY <3>1, <3>2
  <2>3. n = B - (r + 1)
    <3>1. n \in Int
      BY <1>1
    <3> HIDE DEF n
    <3> QED
      BY <1>1, <2>2, <3>1
  <2> HIDE DEF t, b, n
  <2>4. ReaderAt(t, ByteAfter(q, r, 1), BitAfter(r, 1))
    <3>1. CASE r + 1 < B
      <4>1. ByteAfter(q, r, 1) = q /\ BitAfter(r, 1) = r + 1 /\ r + 1 # 0
        BY <1>1, <1>3, <3>1
      <4> QED
        BY <2>1, <2>2, <2>3, <4>1 DEF ReaderAt, B
    <3>2. CASE ~ (r + 1 < B)
      <4>1. ByteAfter(q, r, 1) = q + 1 /\ BitAfter(r, 1) = 0 /\ n = 0
        BY <1>1, <1>3, <2>3, <3>2
      <4> QED
        BY <2>1, <2>2, <4>1 DEF ReaderAt
    <3> QED
      BY <3>1, <3>2
  <2>5. b[B - n] = FileBit(s, q, r, 1)
    <3>1. ByteOf(q, r, 1) = q /\ BitOf(q, r, 1) = r + 1
      BY <1>1 DEF ByteOf, BitOf
    <3> QED
      BY <2>2, <3>1 DEF FileBit
  <2> QED
    BY <2>1, <2>4, <2>5 DEF Gets, t
<1> QED
  BY <1>4, <1>5

\* What the loops carry along.
CharsSoFar == [s : Readers, m : Seq(Seq(Bits))]
BitsSoFar == [s : Readers, b : Bytes]

LEMMA NextCharTyped ==
    ASSUME NEW a \in CharsSoFar
    PROVE  NextChar(a) \in CharsSoFar
<1> DEFINE t == GetChar(a.s)
<1>1. a.s \in Readers /\ a.m \in Seq(Seq(Bits))
  BY DEF CharsSoFar
<1>2. CASE ~ a.s.ok
  BY <1>2 DEF NextChar
<1>3. CASE a.s.ok
  <2>1. t \in Readers
    <3>1. CASE a.s.at = Len(a.s.bytes)
      BY <1>1, <3>1, FailedIs DEF GetChar
    <3>2. CASE a.s.at # Len(a.s.bytes)
      BY <1>1, <3>2, GetCharFields
    <3> QED
      BY <3>1, <3>2
  <2>2. NextChar(a) = [s |-> t, m |-> Append(a.m, t.bits)]
    BY <1>3 DEF NextChar
  <2> HIDE DEF t
  <2>3. t.bits \in Seq(Bits)
    BY <2>1, ReaderIs
  <2>4. Append(a.m, t.bits) \in Seq(Seq(Bits))
    BY <1>1, <2>3
  <2> QED
    BY <2>1, <2>2, <2>4 DEF CharsSoFar
<1> QED
  BY <1>2, <1>3

LEMMA NextBitTyped ==
    ASSUME NEW a \in BitsSoFar
    PROVE  NextBit(a) \in BitsSoFar
<1> DEFINE t == GetBit(a.s)
           c == IF t.ok THEN Append(Tail(a.b), t.bits[1]) ELSE a.b
<1>1. a.s \in Readers /\ a.b \in Bytes
  BY DEF BitsSoFar
<1>2. CASE ~ a.s.ok
  BY <1>2 DEF NextBit
<1>3. CASE a.s.ok
  <2>1. t \in Readers /\ (t.ok => t.bits[1] \in Bits)
    <3>1. CASE a.s.count = 0 /\ a.s.at = Len(a.s.bytes)
      <4>1. t = [a.s EXCEPT !.ok = FALSE]
        BY <3>1 DEF GetBit
      <4> QED
        BY <1>1, <4>1, FailedIs
    <3>2. CASE ~ (a.s.count = 0 /\ a.s.at = Len(a.s.bytes))
      BY <1>1, <3>2, GetBitFields
    <3> QED
      BY <3>1, <3>2
  <2>2. NextBit(a) = [s |-> t, b |-> c]
    BY <1>3 DEF NextBit
  <2> HIDE DEF t
  <2>3. c \in Bytes
    BY <1>1, <2>1, ShiftedIn
  <2> HIDE DEF c
  <2> QED
    BY <2>1, <2>2, <2>3 DEF BitsSoFar
<1> QED
  BY <1>2, <1>3

CharRun(f, s, n) ==
    /\ f \in [0 .. n -> CharsSoFar] /\ f[0] = [s |-> s, m |-> <<>>]
    /\ \A k \in 1 .. n : f[k] = NextChar(f[k - 1])
BitRun(f, s, b, n) ==
    /\ f \in [0 .. n -> BitsSoFar] /\ f[0] = [s |-> s, b |-> b]
    /\ \A k \in 1 .. n : f[k] = NextBit(f[k - 1])

LEMMA GetWholeRuns ==
    ASSUME NEW s \in Readers, NEW N \in Nat
    PROVE  \E f : CharRun(f, s, N) /\ GetWhole(s, N) = f[N]
<1> DEFINE a == [s |-> s, m |-> <<>>]
           Def(t) == t = [k \in 0 .. N |-> IF k = 0 THEN a ELSE NextChar(t[k - 1])]
           g == [p \in (1 .. N) \X CharsSoFar |-> NextChar(p[2])]
<1>1. a \in CharsSoFar
  BY DEF CharsSoFar
<1>2. g \in [(1 .. N) \X CharsSoFar -> CharsSoFar]
  BY NextCharTyped
<1> HIDE DEF a
<1>3. PICK f \in [0 .. N -> CharsSoFar] :
         f[0] = a /\ \A k \in 1 .. N : f[k] = g[<<k, f[k - 1]>>]
  <2> HIDE DEF g
  <2>1. Recursion(CharsSoFar, a, N, g)
    BY <1>1, <1>2, RecursionExists, Zenon
  <2> QED
    BY <2>1 DEF Recursion
<1>4. \A k \in 1 .. N : f[k] = NextChar(f[k - 1])
  <2> SUFFICES ASSUME NEW k \in 1 .. N PROVE f[k] = NextChar(f[k - 1])
    OBVIOUS
  <2>1. k - 1 \in 0 .. N
    OBVIOUS
  <2> QED
    BY <1>3, <2>1
<1>5. CharRun(f, s, N)
  BY <1>3, <1>4 DEF CharRun, a
<1>6. Def(f)
  <2>1. \A k \in 0 .. N : f[k] = IF k = 0 THEN a ELSE NextChar(f[k - 1])
    <3>1. \A k \in 0 .. N : k = 0 \/ k \in 1 .. N
      OBVIOUS
    <3> QED
      BY <1>3, <1>4, <3>1
  <2> QED
    BY <1>3, <2>1
<1> DEFINE t == CHOOSE x : Def(x)
<1>7. Def(t)
  <2> HIDE DEF Def
  <2> QED
    BY <1>6
<1>8. GetWhole(s, N) = t[N]
  BY DEF GetWhole, a
<1>9. t[N] = f[N]
  <2> HIDE DEF t
  <2> DEFINE S == {k \in 0 .. N : t[k] = f[k]}
  <2>1. \A k \in 0 .. N : t[k] = IF k = 0 THEN a ELSE NextChar(t[k - 1])
    BY <1>7, Zenon
  <2>2. 0 \in S
    BY <1>3, <2>1
  <2>3. ASSUME NEW k \in 1 .. N, k - 1 \in S PROVE k \in S
    <3>1. k \in 0 .. N /\ k # 0 /\ t[k - 1] = f[k - 1]
      BY <2>3
    <3>2. t[k] = NextChar(t[k - 1])
      BY <2>1, <3>1, Zenon
    <3> QED
      BY <1>4, <3>1, <3>2
  <2> HIDE DEF S
  <2>4. \A k \in 1 .. N : k - 1 \in S => k \in S
    BY <2>3
  <2>5. \A k \in 0 .. N : k \in S
    BY <2>2, <2>4, UpTo, Zenon
  <2>6. N \in S
    BY <2>5
  <2> QED
    BY <2>6 DEF S
<1> QED
  BY <1>5, <1>8, <1>9

\* The reader has got k bytes, or failed to.
CharsGot(s, a, q, r, k) ==
    /\ a.s \in Readers /\ a.s.bytes = s.bytes
    /\ IF a.s.ok
         THEN /\ ReaderAt(a.s, q + k, r)
              /\ a.m \in Seq(Bytes) /\ Len(a.m) = k
              /\ \A i \in 1 .. k : \A j \in 1 .. ByteBits :
                    a.m[i][j] = FileBit(s, q + (i - 1), r, j)
         ELSE ~ Fits(s, q + k, r)

LEMMA CharGot ==
    ASSUME NEW s \in Readers, NEW q \in Nat, NEW r \in 0 .. ByteBits - 1, NEW k \in Nat \ {0},
           NEW a \in CharsSoFar, CharsGot(s, a, q, r, k - 1)
    PROVE  CharsGot(s, NextChar(a), q, r, k)
<1> DEFINE p == q + (k - 1)
           t == GetChar(a.s)
           B == ByteBits
<1>1. a.s \in Readers /\ a.s.bytes = s.bytes /\ p \in Nat /\ p + 1 = q + k /\ B \in Nat \ {0}
      /\ Len(s.bytes) \in Nat
  BY BFSizes, ReaderIs DEF CharsGot
<1>2. CASE ~ a.s.ok
  <2>1. NextChar(a) = a
    BY <1>2 DEF NextChar
  <2>2. ~ Fits(s, p, r)
    BY <1>2 DEF CharsGot
  <2> HIDE DEF p
  <2>3. ~ Fits(s, p + 1, r)
    BY <1>1, <2>2 DEF Fits
  <2> QED
    BY <1>1, <1>2, <2>1, <2>3 DEF CharsGot
<1>3. CASE a.s.ok
  <2>1. NextChar(a) = [s |-> t, m |-> Append(a.m, t.bits)]
    BY <1>3 DEF NextChar
  <2>2. /\ ReaderAt(a.s, p, r) /\ a.m \in Seq(Bytes) /\ Len(a.m) = k - 1
        /\ \A i \in 1 .. k - 1 : \A j \in 1 .. B : a.m[i][j] = FileBit(s, q + (i - 1), r, j)
    BY <1>3 DEF CharsGot
  <2>3. /\ t \in Readers /\ t.bytes = a.s.bytes
        /\ IF t.ok THEN ReaderAt(t, p + 1, r) ELSE ~ Fits(a.s, p + 1, r)
        /\ t.ok => /\ t.bits \in Bytes
                   /\ \A j \in 1 .. B : t.bits[j] = FileBit(a.s, p, r, j)
    <3> HIDE DEF p
    <3> QED
      BY <1>1, <1>3, <2>2, GetCharIs
  <2>4. \A x \in Nat : \A j \in 1 .. B : FileBit(a.s, x, r, j) = FileBit(s, x, r, j)
    BY <1>1 DEF FileBit
  <2>5. Fits(a.s, p + 1, r) <=> Fits(s, p + 1, r)
    BY <1>1 DEF Fits
  <2> HIDE DEF t
  <2>6. CASE ~ t.ok
    BY <1>1, <2>1, <2>3, <2>5, <2>6 DEF CharsGot
  <2>7. CASE t.ok
    <3> DEFINE m == Append(a.m, t.bits)
    <3>1. m \in Seq(Bytes) /\ Len(m) = k /\ m[k] = t.bits /\ \A i \in 1 .. k - 1 : m[i] = a.m[i]
      BY <2>2, <2>3, <2>7
    <3> HIDE DEF m
    <3>2. ASSUME NEW i \in 1 .. k, NEW j \in 1 .. B PROVE m[i][j] = FileBit(s, q + (i - 1), r, j)
      <4>1. CASE i = k
        <5>1. t.bits[j] = FileBit(s, p, r, j)
          BY <1>1, <2>3, <2>4, <2>7
        <5> QED
          BY <3>1, <4>1, <5>1
      <4>2. CASE i # k
        <5>1. i \in 1 .. k - 1
          BY <4>2
        <5> QED
          BY <2>2, <3>1, <5>1
      <4> QED
        BY <4>1, <4>2
    <3>3. NextChar(a).s = t /\ NextChar(a).m = m
      BY <2>1 DEF m
    <3>4. ReaderAt(t, q + k, r)
      BY <1>1, <2>3, <2>7
    <3> QED
      BY <1>1, <2>3, <2>7, <3>1, <3>2, <3>3, <3>4 DEF CharsGot
  <2> QED
    BY <2>6, <2>7
<1> QED
  BY <1>2, <1>3

LEMMA GetWholeIs ==
    ASSUME NEW s \in Readers, NEW q \in Nat, NEW r \in 0 .. ByteBits - 1, NEW N \in Nat,
           ReaderAt(s, q, r), s.ok
    PROVE  CharsGot(s, GetWhole(s, N), q, r, N)
<1>1. PICK f : CharRun(f, s, N) /\ GetWhole(s, N) = f[N]
  BY GetWholeRuns
<1>2. /\ f[0] = [s |-> s, m |-> <<>>] /\ \A k \in 0 .. N : f[k] \in CharsSoFar
      /\ \A k \in 1 .. N : f[k] = NextChar(f[k - 1])
  BY <1>1 DEF CharRun
<1> DEFINE S == {k \in 0 .. N : CharsGot(s, f[k], q, r, k)}
<1>3. 0 \in S
  <2>1. q + 0 = q /\ f[0].s = s /\ f[0].m = <<>>
    BY <1>2
  <2>2. f[0].m \in Seq(Bytes) /\ Len(f[0].m) = 0
    BY <2>1
  <2>3. CharsGot(s, f[0], q, r, 0)
    BY <2>1, <2>2 DEF CharsGot
  <2> QED
    BY <2>3
<1>4. \A k \in 1 .. N : k - 1 \in S => k \in S
  <2> SUFFICES ASSUME NEW k \in 1 .. N, k - 1 \in S PROVE CharsGot(s, f[k], q, r, k)
    OBVIOUS
  <2>1. k - 1 \in 0 .. N /\ f[k - 1] \in CharsSoFar /\ f[k] = NextChar(f[k - 1]) /\ k \in Nat \ {0}
    BY <1>2
  <2>2. CharsGot(s, f[k - 1], q, r, k - 1)
    OBVIOUS
  <2> QED
    BY <2>1, <2>2, CharGot
<1> HIDE DEF S
<1>5. \A k \in 0 .. N : k \in S
  BY <1>3, <1>4, UpTo, Zenon
<1>6. N \in S
  BY <1>5
<1> QED
  BY <1>1, <1>6 DEF S

LEMMA GetEachRuns ==
    ASSUME NEW s \in Readers, NEW b \in Bytes, NEW N \in Nat
    PROVE  \E f : BitRun(f, s, b, N) /\ GetEach(s, b, N) = f[N]
<1> DEFINE a == [s |-> s, b |-> b]
           Def(t) == t = [k \in 0 .. N |-> IF k = 0 THEN a ELSE NextBit(t[k - 1])]
           g == [p \in (1 .. N) \X BitsSoFar |-> NextBit(p[2])]
<1>1. a \in BitsSoFar
  BY DEF BitsSoFar
<1>2. g \in [(1 .. N) \X BitsSoFar -> BitsSoFar]
  BY NextBitTyped
<1> HIDE DEF a
<1>3. PICK f \in [0 .. N -> BitsSoFar] :
         f[0] = a /\ \A k \in 1 .. N : f[k] = g[<<k, f[k - 1]>>]
  <2> HIDE DEF g
  <2>1. Recursion(BitsSoFar, a, N, g)
    BY <1>1, <1>2, RecursionExists, Zenon
  <2> QED
    BY <2>1 DEF Recursion
<1>4. \A k \in 1 .. N : f[k] = NextBit(f[k - 1])
  <2> SUFFICES ASSUME NEW k \in 1 .. N PROVE f[k] = NextBit(f[k - 1])
    OBVIOUS
  <2>1. k - 1 \in 0 .. N
    OBVIOUS
  <2> QED
    BY <1>3, <2>1
<1>5. BitRun(f, s, b, N)
  BY <1>3, <1>4 DEF BitRun, a
<1>6. Def(f)
  <2>1. \A k \in 0 .. N : f[k] = IF k = 0 THEN a ELSE NextBit(f[k - 1])
    <3>1. \A k \in 0 .. N : k = 0 \/ k \in 1 .. N
      OBVIOUS
    <3> QED
      BY <1>3, <1>4, <3>1
  <2> QED
    BY <1>3, <2>1
<1> DEFINE t == CHOOSE x : Def(x)
<1>7. Def(t)
  <2> HIDE DEF Def
  <2> QED
    BY <1>6
<1>8. GetEach(s, b, N) = t[N]
  BY DEF GetEach, a
<1>9. t[N] = f[N]
  <2> HIDE DEF t
  <2> DEFINE S == {k \in 0 .. N : t[k] = f[k]}
  <2>1. \A k \in 0 .. N : t[k] = IF k = 0 THEN a ELSE NextBit(t[k - 1])
    BY <1>7, Zenon
  <2>2. 0 \in S
    BY <1>3, <2>1
  <2>3. ASSUME NEW k \in 1 .. N, k - 1 \in S PROVE k \in S
    <3>1. k \in 0 .. N /\ k # 0 /\ t[k - 1] = f[k - 1]
      BY <2>3
    <3>2. t[k] = NextBit(t[k - 1])
      BY <2>1, <3>1, Zenon
    <3> QED
      BY <1>4, <3>1, <3>2
  <2> HIDE DEF S
  <2>4. \A k \in 1 .. N : k - 1 \in S => k \in S
    BY <2>3
  <2>5. \A k \in 0 .. N : k \in S
    BY <2>2, <2>4, UpTo, Zenon
  <2>6. N \in S
    BY <2>5
  <2> QED
    BY <2>6 DEF S
<1> QED
  BY <1>5, <1>8, <1>9

\* The reader has got k bits into the byte b, or failed to.
BitsGot(s, a, b, q, r, k) ==
    /\ a.s \in Readers /\ a.s.bytes = s.bytes /\ a.b \in Bytes
    /\ IF a.s.ok
         THEN /\ ReaderAt(a.s, ByteAfter(q, r, k), BitAfter(r, k))
              /\ \A j \in 1 .. k : a.b[ByteBits - k + j] = FileBit(s, q, r, j)
              /\ \A j \in 1 .. ByteBits - k : a.b[j] = b[k + j]
         ELSE ~ Fits(s, ByteAfter(q, r, k), BitAfter(r, k))

LEMMA BitGot ==
    ASSUME NEW s \in Readers, NEW q \in Nat, NEW r \in 0 .. ByteBits - 1,
           NEW k \in 1 .. ByteBits, NEW b \in Bytes,
           NEW a \in BitsSoFar, BitsGot(s, a, b, q, r, k - 1)
    PROVE  BitsGot(s, NextBit(a), b, q, r, k)
<1> DEFINE B == ByteBits
           n == k - 1
           p == ByteAfter(q, r, n)
           i == BitAfter(r, n)
           t == GetBit(a.s)
<1>1. /\ a.s \in Readers /\ a.s.bytes = s.bytes /\ a.b \in Bytes
      /\ B \in Nat \ {0} /\ n \in 0 .. B - 1 /\ n \in 0 .. B /\ n + 1 = k /\ k \in 1 .. B
      /\ Len(s.bytes) \in Nat
  BY BFSizes, ReaderIs DEF BitsGot
<1>2. p \in Nat /\ i \in 0 .. B - 1 /\ q <= p /\ p <= q + 1
  BY <1>1, After DEF B
<1> HIDE DEF B
<1>3. \/ r + n < B /\ p = q /\ i = r + n
      \/ r + n >= B /\ p = q + 1 /\ i = r + n - B
  <2> HIDE DEF n
  <2> QED
    BY <1>1, <1>2 DEF ByteAfter, BitAfter, B
<1>4. /\ ByteAfter(p, i, 1) = ByteAfter(q, r, k) /\ BitAfter(i, 1) = BitAfter(r, k)
      /\ ByteOf(p, i, 1) = ByteOf(q, r, k) /\ BitOf(p, i, 1) = BitOf(q, r, k)
  <2> HIDE DEF p, i, n
  <2> QED
    BY <1>1, <1>2, <1>3 DEF ByteAfter, BitAfter, ByteOf, BitOf, B
<1>5. CASE ~ a.s.ok
  <2>1. NextBit(a) = a
    BY <1>5 DEF NextBit
  <2>2. ~ Fits(s, p, i)
    BY <1>5 DEF BitsGot
  <2>3. ~ Fits(s, ByteAfter(p, i, 1), BitAfter(i, 1))
    <3> HIDE DEF p, i
    <3> QED
      BY <1>1, <1>2, <2>2 DEF Fits, ByteAfter, BitAfter, B
  <2> HIDE DEF p, i
  <2> QED
    BY <1>1, <1>4, <1>5, <2>1, <2>3 DEF BitsGot
<1>6. CASE a.s.ok
  <2> DEFINE c == IF t.ok THEN Append(Tail(a.b), t.bits[1]) ELSE a.b
  <2>1. NextBit(a) = [s |-> t, b |-> c]
    BY <1>6 DEF NextBit
  <2>2. /\ ReaderAt(a.s, p, i)
        /\ \A j \in 1 .. n : a.b[B - n + j] = FileBit(s, q, r, j)
        /\ \A j \in 1 .. B - n : a.b[j] = b[n + j]
    BY <1>6 DEF BitsGot, B
  <2> HIDE DEF p, i, n
  <2>3. Gets(a.s, t, p, i, 1) /\ (t.ok => t.bits = <<FileBit(a.s, p, i, 1)>> /\ t.bits[1] \in Bits)
    BY <1>1, <1>2, <1>6, <2>2, GetBitIs DEF B
  <2> HIDE DEF t
  <2>4. /\ t \in Readers /\ t.bytes = s.bytes
        /\ IF t.ok THEN ReaderAt(t, ByteAfter(q, r, k), BitAfter(r, k))
           ELSE ~ Fits(s, ByteAfter(q, r, k), BitAfter(r, k))
    BY <1>1, <1>4, <2>3 DEF Gets, Fits
  <2>5. NextBit(a).s = t /\ NextBit(a).b = c
    BY <2>1
  <2>6. CASE ~ t.ok
    BY <1>1, <2>4, <2>5, <2>6 DEF BitsGot
  <2>7. CASE t.ok
    <3>1. t.bits[1] = FileBit(s, q, r, k)
      <4>1. FileBit(a.s, p, i, 1) = FileBit(s, q, r, k)
        BY <1>1, <1>4 DEF FileBit
      <4>2. t.bits = <<FileBit(a.s, p, i, 1)>>
        BY <2>3, <2>7
      <4> QED
        BY <4>1, <4>2
    <3>2. t.bits[1] \in Bits /\ c = Append(Tail(a.b), t.bits[1])
      BY <2>3, <2>7
    <3> HIDE DEF c
    <3>3. c \in Bytes /\ c[B] = t.bits[1] /\ \A j \in 1 .. B - 1 : c[j] = a.b[j + 1]
      BY <1>1, <3>2, ShiftedIn DEF B
    <3>4. ASSUME NEW j \in 1 .. k PROVE c[B - k + j] = FileBit(s, q, r, j)
      <4>1. CASE j = k
        <5>1. B - k + j = B
          BY <1>1, <4>1
        <5> QED
          BY <3>1, <3>3, <4>1, <5>1
      <4>2. CASE j # k
        <5>1. B - k + j \in 1 .. B - 1 /\ (B - k + j) + 1 = B - n + j /\ j \in 1 .. n
          BY <1>1, <4>2
        <5>2. c[B - k + j] = a.b[B - n + j]
          BY <3>3, <5>1
        <5> QED
          BY <2>2, <5>1, <5>2
      <4> QED
        BY <4>1, <4>2
    <3>5. ASSUME NEW j \in 1 .. B - k PROVE c[j] = b[k + j]
      <4>1. j \in 1 .. B - 1 /\ j + 1 \in 1 .. B - n /\ n + (j + 1) = k + j
        BY <1>1
      <4>2. c[j] = a.b[j + 1] /\ a.b[j + 1] = b[n + (j + 1)]
        BY <2>2, <3>3, <4>1
      <4> QED
        BY <4>1, <4>2
    <3> QED
      BY <2>4, <2>5, <2>7, <3>3, <3>4, <3>5 DEF BitsGot, B
  <2> QED
    BY <2>6, <2>7
<1> QED
  BY <1>5, <1>6

LEMMA GetEachIs ==
    ASSUME NEW s \in Readers, NEW q \in Nat, NEW r \in 0 .. ByteBits - 1,
           NEW N \in 0 .. ByteBits, NEW b \in Bytes,
           IF s.ok THEN ReaderAt(s, q, r) ELSE ~ Fits(s, q, r)
    PROVE  BitsGot(s, GetEach(s, b, N), b, q, r, N)
<1> DEFINE B == ByteBits
<1>1. N \in Nat /\ B \in Nat \ {0} /\ N <= B
  BY BFSizes
<1>2. PICK f : BitRun(f, s, b, N) /\ GetEach(s, b, N) = f[N]
  BY <1>1, GetEachRuns
<1>3. /\ f[0] = [s |-> s, b |-> b] /\ \A k \in 0 .. N : f[k] \in BitsSoFar
      /\ \A k \in 1 .. N : f[k] = NextBit(f[k - 1])
  BY <1>2 DEF BitRun
<1> DEFINE S == {k \in 0 .. N : BitsGot(s, f[k], b, q, r, k)}
<1>4. 0 \in S
  <2>1. f[0].s = s /\ f[0].b = b /\ 0 \in 0 .. N
    BY <1>1, <1>3
  <2>2. ByteAfter(q, r, 0) = q /\ BitAfter(r, 0) = r
    BY <1>1 DEF ByteAfter, BitAfter
  <2>3. \A j \in 1 .. B - 0 : 0 + j = j
    BY <1>1
  <2>4. BitsGot(s, f[0], b, q, r, 0)
    BY <2>1, <2>2, <2>3 DEF BitsGot
  <2> QED
    BY <2>1, <2>4
<1>5. \A k \in 1 .. N : k - 1 \in S => k \in S
  <2> SUFFICES ASSUME NEW k \in 1 .. N, k - 1 \in S PROVE BitsGot(s, f[k], b, q, r, k)
    BY <1>1
  <2>1. k - 1 \in 0 .. N /\ f[k - 1] \in BitsSoFar /\ f[k] = NextBit(f[k - 1]) /\ k \in 1 .. ByteBits
    BY <1>1, <1>3
  <2>2. BitsGot(s, f[k - 1], b, q, r, k - 1)
    OBVIOUS
  <2> QED
    BY <2>1, <2>2, BitGot
<1> HIDE DEF S
<1>6. \A k \in 0 .. N : k \in S
  BY <1>1, <1>4, <1>5, UpTo, Zenon
<1>7. N \in S
  BY <1>1, <1>6
<1> QED
  BY <1>2, <1>7 DEF S

LEMMA ReaderFits ==
    ASSUME NEW s \in Readers, NEW q \in Nat, NEW r \in 0 .. ByteBits - 1, ReaderAt(s, q, r)
    PROVE  Fits(s, q, r)
<1>1. s.at \in 0 .. Len(s.bytes) /\ Len(s.bytes) \in Nat
  BY ReaderIs
<1> QED
  BY <1>1 DEF ReaderAt, Fits

LEMMA FitsLess ==
    ASSUME NEW s \in Readers, NEW q \in Nat, NEW r \in 0 .. ByteBits - 1,
           NEW n \in 0 .. ByteBits, Fits(s, ByteAfter(q, r, n), BitAfter(r, n))
    PROVE  /\ Fits(s, q, r)
           /\ \A j \in 1 .. n : ByteOf(q, r, j) < Len(s.bytes)
<1>1. ByteBits \in Nat \ {0} /\ Len(s.bytes) \in Nat
  BY BFSizes, ReaderIs
<1>2. CASE r + n < ByteBits
  BY <1>1, <1>2 DEF ByteAfter, BitAfter, ByteOf, Fits
<1>3. CASE ~ (r + n < ByteBits)
  BY <1>1, <1>3 DEF ByteAfter, BitAfter, ByteOf, Fits
<1> QED
  BY <1>2, <1>3

LEMMA ChunkRead ==
    ASSUME NEW s \in Readers, NEW l, l.bytes = s.bytes, capacity \in Nat, Len(s.bytes) <= capacity,
           NEW q \in Nat, NEW r \in 0 .. ByteBits - 1, NEW n \in 0 .. ByteBits, NEW b,
           ChunkAt(l, q, r, b, n), Fits(s, ByteAfter(q, r, n), BitAfter(r, n))
    PROVE  \A j \in 1 .. n : FileBit(s, q, r, j) = b[j]
<1> SUFFICES ASSUME NEW j \in 1 .. n PROVE FileBit(s, q, r, j) = b[j]
  OBVIOUS
<1> DEFINE k == ByteOf(q, r, j)
           i == BitOf(q, r, j)
<1>1. Len(s.bytes) \in Nat /\ k \in Nat
  BY BFSizes, ReaderIs DEF ByteOf
<1>2. k < Len(s.bytes)
  BY FitsLess
<1>3. BitAt(l, k, i) = b[j]
  <2>1. k < capacity
    <3> HIDE DEF k
    <3> QED
      BY <1>1, <1>2
  <2> QED
    BY <2>1 DEF ChunkAt
<1>4. BitAt(l, k, i) = s.bytes[k + 1][i]
  <2> HIDE DEF k, i
  <2> QED
    BY <1>2 DEF BitAt
<1> QED
  BY <1>3, <1>4 DEF FileBit

\* What a reader at this place leaves that has read the operation, or fails to.
Reads(s, t, x, p) ==
    /\ t \in Readers /\ t.bytes = s.bytes
    /\ IF t.ok THEN ReaderAt(t, Behind(x, p)[1], Behind(x, p)[2])
       ELSE ~ Fits(s, Behind(x, p)[1], Behind(x, p)[2])

LEMMA ReadsMany ==
    ASSUME NEW s \in Readers, s.ok, NEW l, l.bytes = s.bytes,
           capacity \in Nat, Len(s.bytes) <= capacity, NEW b \in Bytes,
           NEW x \in Places, NEW p \in Entries, p.op \notin Aligns,
           OpAt(l, x, p), ReaderAt(s, x[1], x[2])
    PROVE  LET r == p.n % ByteBits
               w == GetWhole(s, p.n \div ByteBits)
               e == GetEach(w.s, b, r)
           IN  /\ Reads(s, e.s, x, p) /\ e.b \in Bytes
               /\ e.s.ok => /\ w.m = Whole(p.bits, p.n)
                            /\ \A j \in 1 .. r : e.b[ByteBits - r + j] = Rest(p.bits, p.n)[j]
                            /\ \A j \in 1 .. ByteBits - r : e.b[j] = b[r + j]
<1> DEFINE B == ByteBits
           n == p.n
           N == n \div B
           r == n % B
           w == GetWhole(s, N)
           e == GetEach(w.s, b, r)
           q == x[1]
           u == x[2]
           h == q + N
           y == Behind(x, p)
           W == Whole(p.bits, n)
           R == Rest(p.bits, n)
<1>1. /\ q \in Nat /\ u \in 0 .. B - 1 /\ B \in Nat \ {0} /\ n \in Nat
      /\ p.bits \in Seq(Bits) /\ Len(p.bits) = n /\ Len(s.bytes) \in Nat
  BY BFSizes, ReaderIs DEF Places, Entries
<1>2. N \in Nat /\ r \in 0 .. B - 1 /\ r \in 0 .. B
  <2> HIDE DEF n
  <2>1. n \in Nat /\ B \in Nat
    BY <1>1
  <2>2. N \in Nat /\ r \in 0 .. B - 1
    BY <2>1, Divided, Zenon
  <2> HIDE DEF N, r
  <2> QED
    BY <2>1, <2>2
<1>3. y[1] = ByteAfter(h, u, r) /\ y[2] = BitAfter(u, r)
  BY DEF Behind
<1>4. /\ \A i \in 1 .. N : ChunkAt(l, q + (i - 1), u, W[i], B)
      /\ ChunkAt(l, h, u, R, r)
  BY DEF OpAt
<1>5. W \in Seq(Bytes) /\ Len(W) = N
  BY <1>1, PartsAre
<1> HIDE DEF B, n, N, r, w, e, q, u, h, y, W, R
<1>6. h \in Nat
  BY <1>1, <1>2 DEF h
<1>7. CharsGot(s, w, q, u, N)
  BY <1>1, <1>2, GetWholeIs DEF w, q, u, B
<1>8. /\ w.s \in Readers /\ w.s.bytes = s.bytes
      /\ IF w.s.ok
           THEN /\ ReaderAt(w.s, h, u) /\ w.m \in Seq(Bytes) /\ Len(w.m) = N
                /\ \A i \in 1 .. N : \A j \in 1 .. B : w.m[i][j] = FileBit(s, q + (i - 1), u, j)
           ELSE ~ Fits(s, h, u)
  BY <1>7 DEF CharsGot, h, B
<1>9. /\ \A i, j \in Nat : FileBit(w.s, i, u, j) = FileBit(s, i, u, j)
      /\ \A i, j \in Nat : Fits(w.s, i, j) <=> Fits(s, i, j)
  BY <1>8 DEF FileBit, Fits
<1>10. BitsGot(w.s, e, b, h, u, r)
  <2>1. IF w.s.ok THEN ReaderAt(w.s, h, u) ELSE ~ Fits(w.s, h, u)
    BY <1>1, <1>6, <1>8, <1>9
  <2> QED
    BY <1>1, <1>2, <1>6, <1>8, <2>1, GetEachIs DEF e, B
<1>11. /\ e.s \in Readers /\ e.s.bytes = s.bytes /\ e.b \in Bytes
       /\ IF e.s.ok
            THEN /\ ReaderAt(e.s, y[1], y[2])
                 /\ \A j \in 1 .. r : e.b[B - r + j] = FileBit(w.s, h, u, j)
                 /\ \A j \in 1 .. B - r : e.b[j] = b[r + j]
            ELSE ~ Fits(w.s, y[1], y[2])
  BY <1>3, <1>8, <1>10 DEF BitsGot, B
<1>12. y[1] \in Nat /\ y[2] \in 0 .. B - 1
  BY <1>1, <1>2, <1>3, <1>6, After DEF B
<1>13. Reads(s, e.s, x, p)
  BY <1>1, <1>9, <1>11, <1>12 DEF Reads, y
<1>14. ASSUME e.s.ok
       PROVE  /\ w.m = W /\ \A j \in 1 .. r : e.b[B - r + j] = R[j]
              /\ \A j \in 1 .. B - r : e.b[j] = b[r + j]
  <2>1. Fits(s, ByteAfter(h, u, r), BitAfter(u, r))
    <3>1. Fits(e.s, y[1], y[2])
      BY <1>11, <1>12, <1>14, ReaderFits DEF B
    <3>2. Fits(s, y[1], y[2])
      BY <1>11, <3>1 DEF Fits
    <3> QED
      BY <1>3, <3>2
  <2>2. Fits(s, h, u)
    BY <1>1, <1>2, <1>6, <2>1, FitsLess DEF B
  <2>3. w.s.ok
    BY <1>8, <2>2
  <2>4. \A j \in 1 .. r : FileBit(s, h, u, j) = R[j]
    BY <1>1, <1>2, <1>4, <1>6, <2>1, ChunkRead DEF B
  <2>5. ASSUME NEW i \in 1 .. N PROVE w.m[i] = W[i]
    <3> DEFINE k == q + (i - 1)
    <3>1. k \in Nat /\ k + 1 <= h
      BY <1>1, <1>2 DEF h
    <3>2. ChunkAt(l, k, u, W[i], B)
      BY <1>4
    <3>3. \A j \in 1 .. B : w.m[i][j] = FileBit(s, k, u, j)
      BY <1>8, <2>3
    <3> HIDE DEF k
    <3>4. ByteAfter(k, u, B) = k + 1 /\ BitAfter(u, B) = u
      BY <1>1 DEF ByteAfter, BitAfter, B
    <3>5. Fits(s, k + 1, u)
      BY <1>1, <1>6, <2>2, <3>1 DEF Fits
    <3>6. B \in 0 .. B
      BY <1>1
    <3>7. \A j \in 1 .. B : FileBit(s, k, u, j) = W[i][j]
      BY <1>1, <3>1, <3>2, <3>4, <3>5, <3>6, ChunkRead DEF B
    <3>8. w.m[i] \in [1 .. B -> {0, 1}] /\ W[i] \in [1 .. B -> {0, 1}]
      BY <1>5, <1>8, <2>3 DEF Bytes, B
    <3> DEFINE c == w.m[i]
               d == W[i]
    <3>9. c \in [1 .. B -> {0, 1}] /\ d \in [1 .. B -> {0, 1}] /\ \A j \in 1 .. B : c[j] = d[j]
      BY <3>3, <3>7, <3>8
    <3> HIDE DEF c, d
    <3>10. c = d
      <4>1. c = [j \in 1 .. B |-> c[j]] /\ d = [j \in 1 .. B |-> d[j]]
        BY <3>9
      <4> QED
        BY <3>9, <4>1
    <3> QED
      BY <3>10 DEF c, d
  <2>6. w.m = W
    <3>1. w.m \in Seq(Bytes) /\ Len(w.m) = N
      BY <1>8, <2>3
    <3> DEFINE m == w.m
    <3> HIDE DEF m
    <3>2. m \in Seq(Bytes) /\ Len(m) = N /\ \A i \in 1 .. N : m[i] = W[i]
      BY <2>5, <3>1 DEF m
    <3>3. m = W
      BY <1>2, <1>5, <3>2
    <3> QED
      BY <3>3 DEF m
  <2>7. \A j \in 1 .. r : FileBit(w.s, h, u, j) = FileBit(s, h, u, j)
    <3>1. \A j \in 1 .. r : j \in Nat
      BY <1>2
    <3> QED
      BY <1>6, <1>9, <3>1
  <2> QED
    BY <1>11, <1>14, <2>4, <2>6, <2>7
<1> QED
  BY <1>11, <1>13, <1>14 DEF e, w, W, R, r, N, n, B

LEMMA OneBit ==
    ASSUME NEW l, NEW x \in Places, NEW p \in Entries, p.op = "bit", OpAt(l, x, p)
    PROVE  /\ Behind(x, p) = <<ByteAfter(x[1], x[2], 1), BitAfter(x[2], 1)>>
           /\ ChunkAt(l, x[1], x[2], p.bits, 1)
<1> DEFINE b == p.bits
           B == ByteBits
           q == x[1]
           r == x[2]
           W == Whole(b, 1)
           R == Rest(b, 1)
<1>1. /\ p.n = 1 /\ b \in Seq(Bits) /\ Len(b) = 1 /\ p.op \notin Aligns
      /\ q \in Nat /\ r \in 0 .. B - 1 /\ B \in Nat \ {0}
  BY BFSizes DEF Entries, Places, Aligns
<1>2. Behind(x, p) = <<ByteAfter(q + (1 \div B), r, 1 % B), BitAfter(r, 1 % B)>>
  BY <1>1 DEF Behind
<1>3. /\ \A i \in 1 .. 1 \div B : ChunkAt(l, q + (i - 1), r, W[i], B)
      /\ ChunkAt(l, q + (1 \div B), r, R, 1 % B)
  BY <1>1 DEF OpAt
<1>4. /\ \A k \in 1 .. 1 \div B : \A j \in 1 .. B : W[k][j] = b[(k - 1) * B + j]
      /\ \A j \in 1 .. 1 % B : R[j] = b[(1 \div B) * B + j]
  <2> HIDE DEF b
  <2>1. 1 \in Nat
    OBVIOUS
  <2> QED
    BY <1>1, <2>1, PartsAre, Zenon
<1> HIDE DEF b, W, R, q, r
<1>5. CASE B = 1
  <2>1. r = 0 /\ 1 \div B = 1 /\ 1 % B = 0
    BY <1>1, <1>5
  <2>2. W[1][1] = b[1] /\ ChunkAt(l, q, r, W[1], 1)
    <3>1. 1 \in 1 .. 1 /\ (1 - 1) * 1 + 1 = 1 /\ q + (1 - 1) = q
      BY <1>1
    <3> QED
      BY <1>3, <1>4, <1>5, <2>1, <3>1
  <2>3. ChunkAt(l, q, r, b, 1)
    BY <2>2 DEF ChunkAt
  <2>4. ByteAfter(q, r, 1) = ByteAfter(q + 1, r, 0) /\ BitAfter(r, 1) = BitAfter(r, 0)
    BY <1>1, <1>5, <2>1 DEF ByteAfter, BitAfter
  <2> QED
    BY <1>2, <2>1, <2>3, <2>4 DEF q, r, b
<1>6. CASE B # 1
  <2>1. 1 \div B = 0 /\ 1 % B = 1 /\ (1 \div B) * B = 0 /\ q + 0 = q
    <3>1. 1 \div B = 0 /\ 1 % B = 1
      BY <1>1, <1>6
    <3> QED
      BY <1>1, <3>1
  <2>2. R[1] = b[1] /\ ChunkAt(l, q, r, R, 1)
    BY <1>3, <1>4, <2>1
  <2>3. ChunkAt(l, q, r, b, 1)
    BY <2>2 DEF ChunkAt
  <2> QED
    BY <1>2, <2>1, <2>3 DEF q, r, b
<1> QED
  BY <1>5, <1>6

LEMMA OneChar ==
    ASSUME NEW l, NEW x \in Places, NEW p \in Entries, p.op = "char", OpAt(l, x, p)
    PROVE  /\ Behind(x, p) = <<x[1] + 1, x[2]>>
           /\ ChunkAt(l, x[1], x[2], p.bits, ByteBits)
<1> DEFINE b == p.bits
           B == ByteBits
           q == x[1]
           r == x[2]
           W == Whole(b, B)
<1>1. /\ p.n = B /\ b \in Seq(Bits) /\ Len(b) = B /\ p.op \notin Aligns
      /\ q \in Nat /\ r \in 0 .. B - 1 /\ B \in Nat \ {0}
  BY BFSizes DEF Entries, Places, Aligns
<1>2. B \div B = 1 /\ B % B = 0
  BY <1>1
<1>3. Behind(x, p) = <<ByteAfter(q + 1, r, 0), BitAfter(r, 0)>>
  BY <1>1, <1>2 DEF Behind
<1>4. \A i \in 1 .. 1 : ChunkAt(l, q + (i - 1), r, W[i], B)
  BY <1>1, <1>2 DEF OpAt
<1>5. \A k \in 1 .. 1 : \A j \in 1 .. B : W[k][j] = b[(k - 1) * B + j]
  <2> HIDE DEF b
  <2>1. B \in Nat
    BY <1>1
  <2>2. \A k \in 1 .. B \div B : \A j \in 1 .. B : W[k][j] = b[(k - 1) * B + j]
    BY <1>1, <2>1, PartsAre, Zenon
  <2> HIDE DEF W, B
  <2> QED
    BY <1>2, <2>2
<1> HIDE DEF b, W, q, r
<1>6. ChunkAt(l, q, r, W[1], B) /\ \A j \in 1 .. B : W[1][j] = b[j]
  <2>1. 1 \in 1 .. 1 /\ q + (1 - 1) = q /\ (1 - 1) * B = 0 /\ \A j \in 1 .. B : 0 + j = j
    BY <1>1
  <2> QED
    BY <1>4, <1>5, <2>1
<1>7. ChunkAt(l, q, r, b, B)
  BY <1>6 DEF ChunkAt
<1>8. ByteAfter(q + 1, r, 0) = q + 1 /\ BitAfter(r, 0) = r
  BY <1>1 DEF ByteAfter, BitAfter
<1> QED
  BY <1>3, <1>7, <1>8 DEF q, r, b, B

LEMMA ReadBit ==
    ASSUME NEW s \in Readers, s.ok, NEW l, l.bytes = s.bytes,
           capacity \in Nat, Len(s.bytes) <= capacity,
           NEW x \in Places, NEW p \in Entries, p.op = "bit",
           OpAt(l, x, p), ReaderAt(s, x[1], x[2])
    PROVE  LET t == GetBit(s)
           IN  Reads(s, t, x, p) /\ (t.ok => t.bits = p.bits)
<1> DEFINE t == GetBit(s)
           q == x[1]
           r == x[2]
           b == p.bits
<1>1. q \in Nat /\ r \in 0 .. ByteBits - 1 /\ ByteBits \in Nat \ {0}
  BY BFSizes DEF Places
<1>2. p.n = 1 /\ b \in Seq(Bits) /\ Len(b) = 1
  BY DEF Entries
<1>3. Behind(x, p) = <<ByteAfter(q, r, 1), BitAfter(r, 1)>> /\ ChunkAt(l, q, r, b, 1)
  BY OneBit
<1>4. Gets(s, t, q, r, 1) /\ (t.ok => t.bits = <<FileBit(s, q, r, 1)>>)
  BY <1>1, GetBitIs
<1> HIDE DEF t, q, r, b
<1>5. Reads(s, t, x, p)
  BY <1>3, <1>4 DEF Reads, Gets
<1>6. ASSUME t.ok PROVE t.bits = b
  <2>1. 1 \in 0 .. ByteBits /\ t \in Readers /\ t.bytes = s.bytes
    BY <1>1, <1>4 DEF Gets
  <2>2. Fits(s, ByteAfter(q, r, 1), BitAfter(r, 1))
    <3>1. ReaderAt(t, ByteAfter(q, r, 1), BitAfter(r, 1))
      BY <1>4, <1>6 DEF Gets
    <3>2. ByteAfter(q, r, 1) \in Nat /\ BitAfter(r, 1) \in 0 .. ByteBits - 1
      BY <1>1, <2>1, After
    <3>3. Fits(t, ByteAfter(q, r, 1), BitAfter(r, 1))
      BY <2>1, <3>1, <3>2, ReaderFits
    <3> QED
      BY <2>1, <3>3 DEF Fits
  <2>3. FileBit(s, q, r, 1) = b[1]
    <3>1. \A j \in 1 .. 1 : FileBit(s, q, r, j) = b[j]
      BY <1>1, <1>3, <2>1, <2>2, ChunkRead
    <3> QED
      BY <3>1
  <2> DEFINE c == b[1]
  <2>4. c \in Bits
    <3>1. 1 \in 1 .. Len(b)
      BY <1>2
    <3> QED
      BY <1>2, <3>1, ElementOfSeq
  <2> HIDE DEF c
  <2>5. <<c>> \in Seq(Bits) /\ Len(<<c>>) = 1 /\ <<c>>[1] = b[1]
    BY <2>4 DEF c
  <2>6. <<c>> = b
    <3> DEFINE d == <<c>>
    <3> HIDE DEF d
    <3>1. d \in Seq(Bits) /\ Len(d) = 1 /\ d[1] = b[1]
      BY <2>5 DEF d
    <3>2. d = b
      BY <1>2, <3>1
    <3> QED
      BY <3>2 DEF d
  <2> QED
    BY <1>4, <1>6, <2>3, <2>6 DEF c
<1> QED
  BY <1>5, <1>6 DEF t, b

LEMMA ReadChar ==
    ASSUME NEW s \in Readers, s.ok, NEW l, l.bytes = s.bytes,
           capacity \in Nat, Len(s.bytes) <= capacity,
           NEW x \in Places, NEW p \in Entries, p.op = "char",
           OpAt(l, x, p), ReaderAt(s, x[1], x[2])
    PROVE  LET t == GetChar(s)
           IN  Reads(s, t, x, p) /\ (t.ok => t.bits = p.bits)
<1> DEFINE t == GetChar(s)
           q == x[1]
           r == x[2]
           b == p.bits
           B == ByteBits
<1>1. q \in Nat /\ r \in 0 .. B - 1 /\ B \in Nat \ {0}
  BY BFSizes DEF Places
<1>2. p.n = B /\ b \in Seq(Bits) /\ Len(b) = B
  BY DEF Entries
<1>3. Behind(x, p) = <<q + 1, r>> /\ ChunkAt(l, q, r, b, B)
  BY OneChar
<1>4. /\ t \in Readers /\ t.bytes = s.bytes
      /\ IF t.ok THEN ReaderAt(t, q + 1, r) ELSE ~ Fits(s, q + 1, r)
      /\ t.ok => t.bits \in Bytes /\ \A j \in 1 .. B : t.bits[j] = FileBit(s, q, r, j)
  BY <1>1, GetCharIs
<1> HIDE DEF t, q, r, b
<1>5. Reads(s, t, x, p)
  BY <1>3, <1>4 DEF Reads
<1>6. ASSUME t.ok PROVE t.bits = b
  <2>1. B \in 0 .. B /\ q + 1 \in Nat
    BY <1>1
  <2>2. Fits(s, q + 1, r)
    <3>1. Fits(t, q + 1, r)
      BY <1>1, <1>4, <1>6, <2>1, ReaderFits
    <3> QED
      BY <1>4, <3>1 DEF Fits
  <2>3. ByteAfter(q, r, B) = q + 1 /\ BitAfter(r, B) = r
    BY <1>1 DEF ByteAfter, BitAfter
  <2>4. \A j \in 1 .. B : FileBit(s, q, r, j) = b[j]
    BY <1>1, <1>3, <2>1, <2>2, <2>3, ChunkRead DEF B
  <2> DEFINE c == t.bits
  <2>5. c \in Seq(Bits) /\ Len(c) = B /\ \A j \in 1 .. B : c[j] = b[j]
    BY <1>4, <1>6, <2>4, BytesAre
  <2> HIDE DEF c
  <2>6. c = b
    BY <1>1, <1>2, <2>5
  <2> QED
    BY <2>6 DEF c
<1> QED
  BY <1>5, <1>6 DEF t, b

LEMMA FlattenWhole ==
    ASSUME NEW n \in Nat, NEW x \in Seq(Bits), Len(x) = n
    PROVE  FlattenSeq(Whole(x, n)) = SubSeq(x, 1, (n \div ByteBits) * ByteBits)
<1> DEFINE B == ByteBits
           w == n \div B
           W == Whole(x, n)
<1>1. B \in Nat \ {0} /\ w \in Nat /\ n = w * B + (n % B) /\ n % B \in 0 .. B - 1
  BY BFSizes, Divided
<1>2. W \in Seq(Bytes) /\ Len(W) = w
  BY PartsAre
<1>3. \A k \in 1 .. w : W[k] = SubSeq(x, (k - 1) * B + 1, k * B)
  BY DEF Whole
<1>4. w * B \in Nat /\ w * B <= n
  <2> DEFINE c == w * B
             r == n % B
  <2>1. c \in Nat
    <3> HIDE DEF w, B
    <3> QED
      BY <1>1
  <2>2. n = c + r /\ r \in Nat
    BY <1>1
  <2> HIDE DEF c, r
  <2>3. c <= n
    BY <2>1, <2>2
  <2> QED
    BY <2>1, <2>3 DEF c
<1> HIDE DEF W
<1>5. CASE w = 0
  <2>1. W = <<>>
    BY <1>2, <1>5
  <2>2. FlattenSeq(W) = <<>>
    BY <1>2, <1>5, <2>1 DEF FlattenSeq
  <2>3. w * B = 0
    BY <1>1, <1>5
  <2>4. SubSeq(x, 1, 0) = <<>>
    OBVIOUS
  <2> QED
    BY <2>2, <2>3, <2>4 DEF W
<1>6. CASE w # 0
  <2>1. PICK f : Parts(Bits, W, f)
    <3>1. \A k \in 1 .. w : W[k] \in Seq(Bits)
      BY <1>2, BytesAre
    <3>2. W \in Seq(Seq(Bits))
      BY <1>1, <1>2, <3>1
    <3> QED
      BY <1>2, <1>6, <3>2, FlattenIs
  <2>2. /\ f[1] = W[1] /\ \A k \in 2 .. w : f[k] = f[k - 1] \o W[k]
        /\ FlattenSeq(W) = f[w]
    BY <1>2, <2>1 DEF Parts
  <2> DEFINE S == {k \in 0 .. w : k = 0 \/ f[k] = SubSeq(x, 1, k * B)}
  <2>3. 0 \in S
    BY <1>1
  <2>4. \A k \in 1 .. w : k - 1 \in S => k \in S
    <3> SUFFICES ASSUME NEW k \in 1 .. w, k - 1 \in S PROVE f[k] = SubSeq(x, 1, k * B)
      BY <1>1
    <3> DEFINE c == (k - 1) * B
               d == k * B
    <3>1. c \in Nat /\ d = c + B /\ d <= w * B
      BY ByteWithin
    <3>2. W[k] = SubSeq(x, c + 1, d)
      BY <1>3
    <3>3. CASE k = 1
      <4>1. c = 0
        BY <1>1, <3>3
      <4> HIDE DEF c
      <4>2. W[k] = SubSeq(x, 1, d)
        BY <3>2, <4>1
      <4> QED
        BY <2>2, <3>3, <4>2
    <3>4. CASE k # 1
      <4>1. f[k - 1] = SubSeq(x, 1, c) /\ f[k] = f[k - 1] \o W[k]
        <5>1. k \in 2 .. w /\ k - 1 # 0
          <6> HIDE DEF w
          <6> QED
            BY <1>1, <3>4
        <5>2. f[k - 1] = SubSeq(x, 1, (k - 1) * B)
          BY <5>1
        <5> QED
          BY <2>2, <5>1, <5>2
      <4>2. c \in 1 - 1 .. Len(x) /\ d \in c .. Len(x) /\ 1 \in 1 .. Len(x) + 1
        <5> DEFINE g == w * B
        <5>1. g \in Nat /\ g <= n /\ d <= g
          BY <1>4, <3>1
        <5> HIDE DEF c, d, g
        <5> QED
          BY <1>1, <3>1, <5>1
      <4> HIDE DEF c, d
      <4>3. SubSeq(x, 1, c) \o SubSeq(x, c + 1, d) = SubSeq(x, 1, d)
        BY <4>2, ConcatAdjacentSubSeq
      <4> QED
        BY <3>2, <4>1, <4>3 DEF d
    <3> QED
      BY <3>3, <3>4
  <2> HIDE DEF S, w
  <2>5. \A k \in 0 .. w : k \in S
    BY <1>1, <2>3, <2>4, UpTo, Zenon
  <2>6. w \in S
    BY <1>1, <2>5
  <2>7. f[w] = SubSeq(x, 1, w * B)
    BY <1>6, <2>6 DEF S
  <2> QED
    BY <2>2, <2>7 DEF W, w
<1> QED
  BY <1>5, <1>6

LEMMA WithBits ==
    ASSUME NEW s \in Readers, NEW x \in Seq(Bits)
    PROVE  LET t == [s EXCEPT !.bits = x]
           IN  /\ t \in Readers /\ t.bytes = s.bytes /\ t.at = s.at /\ t.buffer = s.buffer
               /\ t.count = s.count /\ t.ok = s.ok /\ t.bits = x
BY DEF Readers, Streams

\* What is read does not change what the place tells.
LEMMA ReadsBits ==
    ASSUME NEW s, NEW t \in Readers, NEW x, NEW p, NEW b \in Seq(Bits), Reads(s, t, x, p)
    PROVE  Reads(s, [t EXCEPT !.bits = b], x, p)
<1> DEFINE u == [t EXCEPT !.bits = b]
<1>1. /\ u \in Readers /\ u.bytes = t.bytes /\ u.at = t.at /\ u.buffer = t.buffer
      /\ u.count = t.count /\ u.ok = t.ok
  BY WithBits
<1> HIDE DEF u
<1>2. Reads(s, u, x, p)
  BY <1>1 DEF Reads, ReaderAt
<1> QED
  BY <1>2 DEF u

LEMMA ReadBits ==
    ASSUME NEW s \in Readers, s.ok, NEW l, l.bytes = s.bytes,
           capacity \in Nat, Len(s.bytes) <= capacity,
           NEW x \in Places, NEW p \in Entries, p.op = "bits",
           OpAt(l, x, p), ReaderAt(s, x[1], x[2])
    PROVE  LET t == GetBits(s, p.n)
           IN  Reads(s, t, x, p) /\ (t.ok => t.bits = p.bits)
<1> DEFINE B == ByteBits
           n == p.n
           r == n % B
           w == GetWhole(s, n \div B)
           e == GetEach(w.s, Empty, r)
           f == FrontBits(Shifted(e.b, B - r), r)
           g == FlattenSeq(w.m)
           t == GetBits(s, n)
           W == Whole(p.bits, n)
           R == Rest(p.bits, n)
<1>1. n \in Nat /\ p.bits \in Seq(Bits) /\ Len(p.bits) = n /\ p.op \notin Aligns
  BY DEF Entries, Aligns
<1>2. Empty \in Bytes
  BY DEF Empty, Bytes
<1>3. /\ Reads(s, e.s, x, p) /\ e.b \in Bytes
      /\ e.s.ok => w.m = W /\ \A j \in 1 .. r : e.b[B - r + j] = R[j]
  BY <1>1, <1>2, ReadsMany
<1>4. t = IF ~ e.s.ok THEN e.s ELSE [e.s EXCEPT !.bits = g \o f]
  BY DEF GetBits
<1>5. e.s \in Readers
  BY <1>3 DEF Reads
<1> HIDE DEF w, e, t
<1>6. CASE ~ e.s.ok
  BY <1>3, <1>4, <1>6 DEF t
<1>7. CASE e.s.ok
  <2>1. /\ R \in Seq(Bits) /\ Len(R) = r /\ r \in 0 .. B - 1
    <3>1. r \in 0 .. B - 1
      <4> HIDE DEF n
      <4> QED
        BY <1>1, Divided
    <3> QED
      BY <1>1, <3>1, PartsAre
  <2>2. f = R
    <3>1. f \in Seq(Bits) /\ Len(f) = r /\ \A j \in 1 .. r : f[j] = e.b[B - r + j]
      BY <1>3, <2>1, ShiftedFront
    <3> HIDE DEF f, r, R
    <3>2. \A j \in 1 .. r : f[j] = R[j]
      BY <1>3, <1>7, <3>1
    <3> QED
      BY <2>1, <3>1, <3>2
  <2>3. g = SubSeq(p.bits, 1, (n \div B) * B)
    BY <1>1, <1>3, <1>7, FlattenWhole
  <2>4. g \o f = p.bits
    <3> DEFINE c == (n \div B) * B
               b == p.bits
    <3>1. c \in 1 - 1 .. Len(b) /\ n \in c .. Len(b) /\ 1 \in 1 .. Len(b) + 1
      <4>1. n \div B \in Nat /\ B \in Nat /\ n = c + r /\ r \in Nat
        <5> HIDE DEF n
        <5>1. n \in Nat
          BY <1>1
        <5>2. n \div B \in Nat /\ r \in 0 .. B - 1 /\ n = c + r
          BY <5>1, Divided, Zenon
        <5> HIDE DEF c, r
        <5> QED
          BY <5>2, BFSizes
      <4>2. c \in Nat
        <5> DEFINE v == n \div B
        <5> HIDE DEF v
        <5>1. v * B \in Nat
          BY <4>1 DEF v
        <5> QED
          BY <5>1 DEF v
      <4> HIDE DEF c, r
      <4> QED
        BY <1>1, <4>1, <4>2
    <3>2. R = SubSeq(b, c + 1, n)
      BY DEF Rest
    <3> HIDE DEF c, b, g, f
    <3>3. SubSeq(b, 1, c) \o SubSeq(b, c + 1, n) = SubSeq(b, 1, n)
      BY <1>1, <3>1, ConcatAdjacentSubSeq DEF b
    <3>4. SubSeq(b, 1, n) = b
      BY <1>1 DEF b
    <3> QED
      BY <2>2, <2>3, <3>2, <3>3, <3>4 DEF c, b
  <2> HIDE DEF f, g, n
  <2>5. t = [e.s EXCEPT !.bits = p.bits]
    BY <1>4, <1>7, <2>4
  <2>6. Reads(s, t, x, p)
    BY <1>1, <1>3, <1>5, <2>5, ReadsBits
  <2>7. t.bits = p.bits
    BY <1>1, <1>5, <2>5, WithBits
  <2> QED
    BY <2>6, <2>7 DEF t, n
<1> QED
  BY <1>6, <1>7

\* The bytes of a number that lies in memory in this order.
LEMMA ReadNumber ==
    ASSUME NEW s \in Readers, s.ok, NEW l, l.bytes = s.bytes,
           capacity \in Nat, Len(s.bytes) <= capacity,
           NEW x \in Places, NEW p \in Entries, p.op = "num",
           OpAt(l, x, p), ReaderAt(s, x[1], x[2]),
           NEW cell \in [0 .. Size - 1 -> 1 .. Size],
           \A i, j \in 0 .. Size - 1 : cell[i] = cell[j] => i = j
    PROVE  LET t == GetNumber(s, p.n, cell)
               v == FlattenSeq(LeastFirst(p.bits, p.n))
           IN  Reads(s, t, x, p) /\ v \in Seq(Bits) /\ (t.ok => t.bits = v)
<1> DEFINE B == ByteBits
           n == p.n
           r == n % B
           N == n \div B
           w == GetWhole(s, N)
           b == Cleared[IF r = 0 THEN 1 ELSE cell[N]]
           e == GetEach(w.s, b, r)
           K(c) == {k \in 1 .. Len(w.m) : c = cell[k - 1]}
           memory == [c \in 1 .. Size |->
                        IF \E k \in 1 .. Len(w.m) : c = cell[k - 1]
                          THEN w.m[CHOOSE k \in 1 .. Len(w.m) : c = cell[k - 1]]
                        ELSE IF r > 0 /\ c = cell[N] THEN e.b ELSE Cleared[c]]
           bs == [k \in 1 .. Size |-> memory[cell[k - 1]]]
           t == GetNumber(s, n, cell)
           W == Whole(p.bits, n)
           R == Rest(p.bits, n)
           L == LeastFirst(p.bits, n)
<1>1. n \in Counts /\ p.bits \in Seq(Bits) /\ Len(p.bits) = n /\ p.op \notin Aligns
  BY DEF Entries, Aligns
<1>2. /\ N \in 0 .. Size /\ r \in 0 .. B - 1 /\ B \in Nat \ {0} /\ Size \in Nat \ {0} /\ n \in Nat
      /\ r # 0 => N + 1 \in 1 .. Size
  <2> HIDE DEF n
  <2> QED
    BY <1>1, CountDivided, BFSizes
<1>3. /\ L \in Seq(Bytes) /\ Len(L) = Size
      /\ \A k \in 1 .. N : L[k] = W[k]
      /\ r # 0 => /\ \A j \in 1 .. r : L[N + 1][B - r + j] = R[j]
                  /\ \A j \in 1 .. B - r : L[N + 1][j] = 0
      /\ \A k \in N + 1 .. Size : r = 0 \/ k > N + 1 => L[k] = Empty
  <2> HIDE DEF n
  <2> QED
    BY <1>1, LeastFirstIs
<1>4. Len(W) = N
  <2> HIDE DEF n
  <2> QED
    BY <1>1, <1>2, PartsAre
<1>5. Empty \in Bytes /\ \A j \in 1 .. B : Empty[j] = 0
  BY DEF Empty, Bytes
<1>6. \A c \in 1 .. Size : Cleared[c] = Empty
  BY DEF Cleared
<1> HIDE DEF n, r, N, W, R, L
<1>7. b = Empty
  <2>1. r # 0 => N \in 0 .. Size - 1
    BY <1>2
  <2> QED
    BY <1>2, <1>6, <2>1
<1>8. /\ Reads(s, e.s, x, p) /\ e.b \in Bytes
      /\ e.s.ok => /\ w.m = W /\ \A j \in 1 .. r : e.b[B - r + j] = R[j]
                   /\ \A j \in 1 .. B - r : e.b[j] = b[r + j]
  <2>1. b \in Bytes
    BY <1>5, <1>7
  <2> HIDE DEF b
  <2> QED
    BY <1>1, <2>1, ReadsMany, SMTT(30) DEF n, r, N, W, R
<1>9. t = IF ~ e.s.ok THEN e.s ELSE [e.s EXCEPT !.bits = FlattenSeq(bs)]
  BY DEF GetNumber, n, r, N
<1> HIDE DEF w, e, b, t
<1>10. e.s \in Readers
  BY <1>8 DEF Reads
<1>11. FlattenSeq(L) \in Seq(Bits)
  <2>1. \A k \in 1 .. Size : L[k] \in Seq(Bits)
    BY <1>3, BytesAre
  <2>2. L \in Seq(Seq(Bits))
    BY <1>2, <1>3, <2>1
  <2>3. PICK f : Parts(Bits, L, f)
    BY <1>2, <1>3, <2>2, FlattenIs
  <2> QED
    BY <1>2, <1>3, <2>3 DEF Parts
<1>12. CASE ~ e.s.ok
  BY <1>8, <1>9, <1>11, <1>12 DEF t, L, n
<1>13. CASE e.s.ok
  <2>1. Len(w.m) = N /\ w.m = W
    BY <1>4, <1>8, <1>13
  <2>2. ASSUME NEW k \in 1 .. Size PROVE memory[cell[k - 1]] = L[k]
    <3> DEFINE c == cell[k - 1]
    <3>1. k - 1 \in 0 .. Size - 1 /\ c \in 1 .. Size
      BY <1>2
    <3>2. \A i \in 1 .. N : c = cell[i - 1] => i = k
      <4> SUFFICES ASSUME NEW i \in 1 .. N, c = cell[i - 1] PROVE i = k
        OBVIOUS
      <4>1. i - 1 \in 0 .. Size - 1
        BY <1>2
      <4>2. i - 1 = k - 1
        BY <3>1, <4>1
      <4> QED
        BY <1>2, <4>2
    <3>3. memory[c] = IF \E i \in 1 .. N : c = cell[i - 1]
                        THEN w.m[CHOOSE i \in 1 .. N : c = cell[i - 1]]
                      ELSE IF r > 0 /\ c = cell[N] THEN e.b ELSE Cleared[c]
      BY <2>1, <3>1
    <3> HIDE DEF memory
    <3>4. CASE k \in 1 .. N
      <4>1. (CHOOSE i \in 1 .. N : c = cell[i - 1]) = k
        BY <3>2, <3>4
      <4>2. memory[c] = w.m[k]
        BY <3>3, <3>4, <4>1
      <4> QED
        BY <1>3, <2>1, <3>4, <4>2
    <3>5. CASE k \notin 1 .. N
      <4>1. ~ \E i \in 1 .. N : c = cell[i - 1]
        BY <3>2, <3>5
      <4>2. memory[c] = IF r > 0 /\ c = cell[N] THEN e.b ELSE Empty
        BY <1>6, <3>1, <3>3, <4>1
      <4>3. CASE r > 0 /\ k = N + 1
        <5>1. memory[c] = e.b /\ r # 0
          <6>1. k - 1 = N
            BY <1>2, <4>3
          <6> QED
            BY <1>2, <4>2, <4>3, <6>1
        <5>2. \A j \in 1 .. B : e.b[j] = L[N + 1][j]
          <6> SUFFICES ASSUME NEW j \in 1 .. B PROVE e.b[j] = L[N + 1][j]
            OBVIOUS
          <6>1. CASE j <= B - r
            <7>1. j \in 1 .. B - r /\ r + j \in 1 .. B
              BY <1>2, <6>1
            <7>2. e.b[j] = 0
              BY <1>5, <1>7, <1>8, <1>13, <7>1
            <7> QED
              BY <1>3, <5>1, <7>1, <7>2
          <6>2. CASE ~ (j <= B - r)
            <7> DEFINE i == j - (B - r)
            <7>1. i \in 1 .. r /\ B - r + i = j
              BY <1>2, <6>2
            <7> HIDE DEF i
            <7>2. e.b[B - r + i] = R[i] /\ L[N + 1][B - r + i] = R[i]
              BY <1>3, <1>8, <1>13, <5>1, <7>1
            <7> QED
              BY <7>1, <7>2
          <6> QED
            BY <6>1, <6>2
        <5>3. e.b = L[N + 1]
          <6> DEFINE d == e.b
                     f == L[N + 1]
          <6>1. d \in [1 .. B -> {0, 1}] /\ f \in [1 .. B -> {0, 1}] /\ \A j \in 1 .. B : d[j] = f[j]
            <7>1. L[N + 1] \in Bytes
              BY <1>2, <1>3, <5>1
            <7> QED
              BY <1>8, <5>2, <7>1 DEF Bytes
          <6> HIDE DEF d, f
          <6>2. d = [j \in 1 .. B |-> d[j]] /\ f = [j \in 1 .. B |-> f[j]]
            BY <6>1
          <6>3. d = f
            BY <6>1, <6>2
          <6> QED
            BY <6>3 DEF d, f
        <5> QED
          BY <4>3, <5>1, <5>3
      <4>4. CASE ~ (r > 0 /\ k = N + 1)
        <5>1. k \in N + 1 .. Size /\ (r = 0 \/ k > N + 1)
          BY <1>2, <3>5, <4>4
        <5>2. ~ (r > 0 /\ c = cell[N])
          <6> SUFFICES ASSUME r > 0, c = cell[N] PROVE FALSE
            OBVIOUS
          <6>1. N \in 0 .. Size - 1
            BY <1>2
          <6>2. k - 1 = N
            BY <3>1, <6>1
          <6> QED
            BY <1>2, <4>4, <6>2
        <5> QED
          BY <1>3, <4>2, <5>1, <5>2
      <4> QED
        BY <4>3, <4>4
    <3> QED
      BY <3>4, <3>5
  <2>3. bs = L
    <3>1. L = [k \in 1 .. Size |-> L[k]]
      BY <1>3
    <3> HIDE DEF memory
    <3> QED
      BY <2>2, <3>1
  <2> HIDE DEF bs
  <2>4. t = [e.s EXCEPT !.bits = FlattenSeq(L)]
    BY <1>9, <1>13, <2>3
  <2>5. Reads(s, t, x, p)
    BY <1>8, <1>10, <1>11, <2>4, ReadsBits
  <2>6. t.bits = FlattenSeq(L)
    BY <1>10, <1>11, <2>4, WithBits
  <2> QED
    BY <1>11, <2>5, <2>6 DEF t, L, n
<1> QED
  BY <1>12, <1>13

-----------------------------------------------------------------------------
(* The bits that a writer takes.                                           *)

LEMMA UsedIs ==
    ASSUME put \in Seq(Entries)
    PROVE  Used \in Nat
<1> DEFINE N == Len(put)
           Def(t) == t = [k \in 0 .. N |-> IF k = 0 THEN 0 ELSE t[k - 1] + put[k].n]
           g == [p \in (1 .. N) \X Nat |-> p[2] + put[p[1]].n]
<1>1. N \in Nat /\ \A k \in 1 .. N : put[k].n \in Nat
  BY DEF Entries
<1> HIDE DEF N
<1>2. g \in [(1 .. N) \X Nat -> Nat]
  BY <1>1
<1>3. PICK f \in [0 .. N -> Nat] :
         f[0] = 0 /\ \A k \in 1 .. N : f[k] = g[<<k, f[k - 1]>>]
  <2> HIDE DEF g
  <2>1. Recursion(Nat, 0, N, g)
    BY <1>1, <1>2, RecursionExists, Zenon
  <2> QED
    BY <2>1 DEF Recursion
<1>4. \A k \in 1 .. N : f[k] = f[k - 1] + put[k].n
  <2> SUFFICES ASSUME NEW k \in 1 .. N PROVE f[k] = f[k - 1] + put[k].n
    OBVIOUS
  <2>1. k - 1 \in 0 .. N
    BY <1>1
  <2> QED
    BY <1>3, <2>1
<1>5. Def(f)
  <2>1. \A k \in 0 .. N : f[k] = IF k = 0 THEN 0 ELSE f[k - 1] + put[k].n
    <3>1. \A k \in 0 .. N : k = 0 \/ k \in 1 .. N
      BY <1>1
    <3> QED
      BY <1>3, <1>4, <3>1
  <2> QED
    BY <1>3, <2>1
<1> DEFINE t == CHOOSE x : Def(x)
<1>6. Def(t)
  <2> HIDE DEF Def
  <2> QED
    BY <1>5
<1>7. Used = t[N]
  BY DEF Used, N
<1>8. t[N] \in Nat
  <2> HIDE DEF t
  <2> DEFINE S == {k \in 0 .. N : t[k] \in Nat}
  <2>1. \A k \in 0 .. N : t[k] = IF k = 0 THEN 0 ELSE t[k - 1] + put[k].n
    BY <1>6, Zenon
  <2>2. 0 \in S
    BY <1>1, <2>1
  <2>3. ASSUME NEW k \in 1 .. N, k - 1 \in S PROVE k \in S
    <3>1. k \in 0 .. N /\ k # 0 /\ t[k - 1] \in Nat
      BY <1>1, <2>3
    <3>2. t[k] = t[k - 1] + put[k].n
      BY <2>1, <3>1, Zenon
    <3> QED
      BY <1>1, <3>1, <3>2
  <2> HIDE DEF S
  <2>4. \A k \in 1 .. N : k - 1 \in S => k \in S
    BY <2>3
  <2>5. \A k \in 0 .. N : k \in S
    BY <1>1, <2>2, <2>4, UpTo, Zenon
  <2>6. N \in S
    BY <1>1, <2>5
  <2> QED
    BY <2>6 DEF S
<1> QED
  BY <1>7, <1>8

LEMMA NextBitsAre ==
    ASSUME put \in Seq(Entries), data \in Seq(Bits), NEW n \in Nat, Used + n <= Len(data)
    PROVE  /\ NextBits(n) \in Seq(Bits) /\ Len(NextBits(n)) = n
           /\ n > 0 => NextBits(n)[1] = data[Used + 1]
<1> DEFINE u == Used
           b == SubSeq(data, u + 1, u + n)
<1>1. u \in Nat /\ u + n <= Len(data) /\ NextBits(n) = b
  BY UsedIs DEF NextBits
<1> HIDE DEF u
<1>2. b \in Seq(Bits) /\ Len(b) = n
  <2>1. u + 1 \in Nat \ {0} /\ u + n \in Nat /\ u + 1 <= (u + n) + 1 /\ (u + n) - (u + 1) + 1 = n
    BY <1>1
  <2> QED
    BY <1>1, <2>1
<1>3. n > 0 => b[1] = data[u + 1]
  BY <1>1
<1> QED
  BY <1>1, <1>2, <1>3 DEF u

-----------------------------------------------------------------------------
(* The inductive invariant.                                                *)

\* The file, with the bits of a writer that wait.
File == [bytes |-> bytes, at |-> at,
         buffer |-> IF mode = "read" THEN Empty ELSE bitBuffer,
         count |-> IF mode = "read" THEN 0 ELSE bitCount, ok |-> TRUE, bits |-> <<>>]

FilePhases ==
    /\ mode = "none" => bitBuffer = Empty /\ bitCount = 0
    /\ Writing => status = "running"
    /\ status = "stopped" => mode = "read"
    /\ Writing \/ (mode = "none" /\ status = "running") => got = <<>> /\ at = 0
    /\ ~ Writing => put = <<>> \/ put[Len(put)].op = "close"
    /\ mode = "read" => put # <<>> /\ status # "over"

StoppedWhy ==
    status = "stopped" =>
        \/ host = "unknown" /\ put[Len(got) + 1].op = "num"
        \/ Len(bytes) = capacity

ReaderIn(P) ==
    mode = "read" /\ status = "running" =>
        ReaderAt(Now, P[Len(got) + 1][1], P[Len(got) + 1][2])

BFInv ==
    /\ BFTypeOK
    /\ put \in Seq(Entries) /\ got \in Seq(Seq(Bits)) /\ data \in Seq(Bits) /\ capacity \in Nat
    /\ status \in {"running", "stopped", "over"}
    /\ FilePhases
    /\ \E P : Laid(File, put, P) /\ ReaderIn(P)
    /\ ReadsWhatWasPut
    /\ StoppedWhy

LEMMA NowIs ==
    ASSUME BFTypeOK
    PROVE  /\ Now \in Readers /\ Now \in Streams /\ Now.ok /\ Now.at = at /\ Now.bytes = bytes
           /\ Now.buffer = bitBuffer /\ Now.count = bitCount
           /\ Writing => File = Now
           /\ File.bytes = bytes
<1>1. /\ bytes \in Seq(Bytes) /\ at \in 0 .. Len(bytes) /\ bitBuffer \in Bytes
      /\ bitCount \in 0 .. ByteBits - 1
  BY DEF BFTypeOK
<1>2. at \in Nat /\ at <= Len(bytes)
  BY <1>1
<1>3. Now \in Streams
  BY <1>1, <1>2 DEF Now, Streams
<1>4. Writing => mode # "read"
  BY DEF Writing
<1> QED
  BY <1>2, <1>3, <1>4 DEF Now, Readers, File

\* Of a stream the layout knows only what waits and what is in the file.
LEMMA LaidAt ==
    ASSUME NEW s, NEW t, NEW ps, NEW P, Laid(s, ps, P),
           t.bytes = s.bytes, t.buffer = s.buffer, t.count = s.count
    PROVE  Laid(t, ps, P)
<1>1. \A q, j : BitAt(t, q, j) = BitAt(s, q, j)
  BY DEF BitAt
<1>2. \A x, p : OpAt(s, x, p) => OpAt(t, x, p)
  BY <1>1 DEF OpAt, ChunkAt
<1>3. \A q, r : WriterAt(s, q, r) => WriterAt(t, q, r)
  BY DEF WriterAt
<1> QED
  BY <1>2, <1>3 DEF Laid

LEMMA LaidNext ==
    ASSUME capacity' = capacity, NEW P, Laid(File', put', P)
    PROVE  Laid(File, put, P)'
<1> QED
  BY SMTT(30) DEF Laid, OpAt, ChunkAt, BitAt, WriterAt

LEMMA Begin == BFInit => BFInv
<1> SUFFICES ASSUME BFInit PROVE BFInv
  OBVIOUS
<1>1. ByteBits \in Nat \ {0} /\ Data \subseteq Seq(Bits) /\ Capacities \subseteq Nat
  BY BFSizes, BitFileAssumption DEF Bits
<1>2. Empty \in Bytes
  BY DEF Empty, Bytes
<1>3. BFTypeOK
  <2>1. bytes \in Seq(Bytes) /\ Len(bytes) = 0 /\ 0 \in 0 .. ByteBits - 1 /\ Len(got) = 0 /\ Len(put) = 0
    BY <1>1 DEF BFInit
  <2> QED
    BY <1>2, <2>1 DEF BFInit, BFTypeOK
<1>4. /\ put \in Seq(Entries) /\ got \in Seq(Seq(Bits)) /\ data \in Seq(Bits) /\ capacity \in Nat
      /\ status \in {"running", "stopped", "over"}
  BY <1>1 DEF BFInit
<1>5. FilePhases /\ StoppedWhy
  BY DEF BFInit, FilePhases, Writing, StoppedWhy
<1>6. ReadsWhatWasPut
  BY DEF BFInit, ReadsWhatWasPut
<1>7. \E P : Laid(File, put, P) /\ ReaderIn(P)
  <2> DEFINE P == [k \in 1 .. 1 |-> <<0, 0>>]
  <2>1. Len(put) = 0 /\ put = <<>> /\ bytes = <<>> /\ bitCount = 0 /\ mode = "none" /\ Len(bytes) = 0
    BY DEF BFInit
  <2>2. File.bytes = bytes /\ File.count = 0
    BY <2>1 DEF File
  <2>3. P \in [1 .. 0 + 1 -> Places] /\ P[1] = <<0, 0>>
    BY <1>1 DEF Places
  <2>4. WriterAt(File, 0, 0)
    BY <1>4, <2>1, <2>2 DEF WriterAt
  <2>5. \A k \in 1 .. 0 + 1 : Upto(P[k], P[0 + 1])
    BY DEF Upto
  <2> HIDE DEF P
  <2>6. Laid(File, put, P)
    BY <2>1, <2>3, <2>4, <2>5 DEF Laid
  <2>7. ReaderIn(P)
    BY <2>1 DEF ReaderIn
  <2> QED
    BY <2>6, <2>7
<1> QED
  BY <1>3, <1>4, <1>5, <1>6, <1>7 DEF BFInv

-----------------------------------------------------------------------------
(* The steps of a writer.                                                  *)

\* What all the steps disturb, put together again.
LEMMA InvNext ==
    ASSUME BFTypeOK', FilePhases', StoppedWhy', ReadsWhatWasPut',
           put' \in Seq(Entries), got' \in Seq(Seq(Bits)), data' \in Seq(Bits), capacity' \in Nat,
           status' \in {"running", "stopped", "over"},
           capacity' = capacity, NEW P, Laid(File', put', P), ReaderIn(P)'
    PROVE  BFInv'
<1>1. Laid(File, put, P)'
  BY LaidNext
<1>2. (\E Q : Laid(File, put, Q) /\ ReaderIn(Q))'
  BY <1>1
<1> QED
  BY <1>2 DEF BFInv

LEMMA WriterStep ==
    ASSUME BFInv, Writing, NEW s, NEW e \in Entries,
           \A x \in Places : WriterAt(Now, x[1], x[2]) => Wrote(Now, s, x, e),
           Becomes(s), put' = Append(put, e), UNCHANGED <<host, got, data, capacity, status>>,
           \/ UNCHANGED <<mode, fp>>
           \/ /\ mode' = "none" /\ fp' \in {"closed", "used"} /\ e.op = "close"
              /\ s.buffer = Empty /\ s.count = 0
    PROVE  BFInv'
<1>1. /\ BFTypeOK /\ put \in Seq(Entries) /\ data \in Seq(Bits) /\ capacity \in Nat
      /\ status = "running" /\ got = <<>> /\ at = 0 /\ mode # "none"
  BY DEF BFInv, FilePhases, Writing
<1>2. Now \in Streams /\ File = Now /\ Now.at = 0
  BY <1>1, NowIs
<1>3. PICK P : Laid(Now, put, P)
  BY <1>2 DEF BFInv
<1> DEFINE y == P[Len(put) + 1]
<1>4. Wrote(Now, s, y, e)
  <2>1. y \in Places /\ WriterAt(Now, y[1], y[2])
    <3>1. Len(put) + 1 \in 1 .. Len(put) + 1
      BY <1>1
    <3> QED
      BY <1>3, <3>1 DEF Laid
  <2> QED
    BY <2>1
<1>5. s \in Streams /\ s.at = 0
  BY <1>2, <1>4 DEF Wrote
<1>6. PICK Q : Laid(s, put', Q)
  BY <1>1, <1>3, <1>4, LaidOn
<1>7. mode' # "read" /\ mode' \in {"none", "write", "append"}
  BY DEF Writing
<1>8. File'.bytes = s.bytes /\ File'.buffer = s.buffer /\ File'.count = s.count
  BY <1>7 DEF File, Becomes
<1>9. Laid(File', put', Q)
  BY <1>6, <1>8, LaidAt
<1>10. /\ put' \in Seq(Entries) /\ Len(put') = Len(put) + 1 /\ put'[Len(put')] = e
       /\ got' = <<>> /\ status' = "running" /\ at' = 0
  BY <1>1, <1>5 DEF Becomes
<1>11. BFTypeOK'
  <2>1. /\ s.bytes \in Seq(Bytes) /\ s.buffer \in Bytes /\ s.count \in 0 .. ByteBits - 1
        /\ 0 \in 0 .. Len(s.bytes) /\ 0 <= Len(put) + 1
    BY <1>1, <1>5 DEF Streams
  <2>2. host \in Hosts /\ fp = "used"
    BY <1>1 DEF BFTypeOK
  <2> QED
    BY <1>7, <1>10, <2>1, <2>2 DEF BFTypeOK, Becomes, Writing
<1>12. FilePhases'
  <2>1. mode' = "none" => bitBuffer' = Empty /\ bitCount' = 0 /\ e.op = "close"
    BY <1>1 DEF Becomes
  <2> QED
    BY <1>7, <1>10, <2>1 DEF FilePhases, Writing
<1>13. StoppedWhy' /\ ReadsWhatWasPut' /\ ReaderIn(Q)'
  BY <1>7, <1>10 DEF StoppedWhy, ReadsWhatWasPut, ReaderIn
<1>14. got' \in Seq(Seq(Bits)) /\ data' \in Seq(Bits) /\ capacity' \in Nat /\ capacity' = capacity
  BY <1>1, <1>10
<1> QED
  BY <1>9, <1>10, <1>11, <1>12, <1>13, <1>14, InvNext

\* One operation puts the next n bits of the program.
LEMMA PutStep ==
    ASSUME BFInv, NEW op, NEW n \in Nat, NEW s, PutOne(op, n, s),
           op = "bit" => n = 1, op = "char" => n = ByteBits,
           op \in {"bits", "num"} => n \in Counts,
           op \in {"bit", "char", "bits", "num", "align"},
           \A x \in Places, p \in Entries :
               /\ p.op = op /\ p.n = n /\ p.bits = NextBits(n)
               /\ WriterAt(Now, x[1], x[2])
               => Wrote(Now, s, x, p)
    PROVE  BFInv'
<1> DEFINE e == [op |-> op, n |-> n, bits |-> NextBits(n)]
<1>1. /\ Writing /\ Used + n <= Len(data) /\ Becomes(s) /\ put' = Append(put, e)
      /\ UNCHANGED <<host, mode, fp, got, data, capacity, status>>
  BY DEF PutOne, Note
<1>2. NextBits(n) \in Seq(Bits) /\ Len(NextBits(n)) = n
  BY <1>1, NextBitsAre DEF BFInv
<1>3. e \in Entries
  BY <1>2 DEF Entries, Aligns
<1>4. \A x \in Places : WriterAt(Now, x[1], x[2]) => Wrote(Now, s, x, e)
  BY <1>3
<1> HIDE DEF e
<1> QED
  BY <1>1, <1>3, <1>4, WriterStep

LEMMA PutBitStep == BFInv /\ BitFilePutBit => BFInv'
<1> SUFFICES ASSUME BFInv, BitFilePutBit PROVE BFInv'
  OBVIOUS
<1> DEFINE s == PutBit(Now, data[Used + 1])
<1>1. PutOne("bit", 1, s)
  BY DEF BitFilePutBit
<1>2. Now \in Streams /\ Now.ok /\ capacity \in Nat
  BY NowIs DEF BFInv
<1>3. NextBits(1)[1] = data[Used + 1]
  <2>1. Used + 1 <= Len(data)
    BY <1>1 DEF PutOne
  <2> QED
    BY <2>1, NextBitsAre DEF BFInv
<1>4. ASSUME NEW x \in Places, NEW p \in Entries, p.op = "bit", p.bits = NextBits(1),
             WriterAt(Now, x[1], x[2])
      PROVE  Wrote(Now, s, x, p)
  <2>1. Wrote(Now, PutBit(Now, p.bits[1]), x, p)
    BY <1>2, <1>4, WroteBit
  <2> QED
    BY <1>3, <1>4, <2>1
<1> HIDE DEF s
<1> QED
  BY <1>1, <1>4, PutStep

LEMMA PutCharStep == BFInv /\ BitFilePutChar => BFInv'
<1> SUFFICES ASSUME BFInv, BitFilePutChar PROVE BFInv'
  OBVIOUS
<1> DEFINE s == PutChar(Now, NextBits(ByteBits))
<1>1. PutOne("char", ByteBits, s) /\ ByteBits \in Nat
  BY BFSizes DEF BitFilePutChar
<1>2. Now \in Streams /\ Now.ok /\ capacity \in Nat
  BY NowIs DEF BFInv
<1>3. ASSUME NEW x \in Places, NEW p \in Entries, p.op = "char", p.bits = NextBits(ByteBits),
             WriterAt(Now, x[1], x[2])
      PROVE  Wrote(Now, s, x, p)
  <2>1. Wrote(Now, PutChar(Now, p.bits), x, p)
    BY <1>2, <1>3, WroteChar
  <2> QED
    BY <1>3, <2>1
<1> HIDE DEF s
<1> QED
  BY <1>1, <1>3, PutStep

\* Both operations with more bits put whole bytes and then the rest.
LEMMA PutManyStep ==
    ASSUME BFInv, NEW op \in {"bits", "num"}, NEW n \in Counts, NEW s, PutOne(op, n, s),
           NextBits(n) \in Seq(Bits) /\ Len(NextBits(n)) = n
               => s = PutEach(PutWhole(Now, Whole(NextBits(n), n)), Rest(NextBits(n), n))
    PROVE  BFInv'
<1>1. Now \in Streams /\ Now.ok /\ capacity \in Nat
  BY NowIs DEF BFInv
<1>2. n \in Nat /\ Used + n <= Len(data)
  BY CountDivided DEF PutOne
<1>3. s = PutEach(PutWhole(Now, Whole(NextBits(n), n)), Rest(NextBits(n), n))
  BY <1>2, NextBitsAre DEF BFInv
<1>4. ASSUME NEW x \in Places, NEW p \in Entries, p.op = op, p.n = n, p.bits = NextBits(n),
             WriterAt(Now, x[1], x[2])
      PROVE  Wrote(Now, s, x, p)
  <2>1. p.op \notin Aligns
    BY <1>4 DEF Aligns
  <2>2. Wrote(Now, PutEach(PutWhole(Now, Whole(p.bits, p.n)), Rest(p.bits, p.n)), x, p)
    BY <1>1, <1>4, <2>1, WroteMany
  <2> QED
    BY <1>3, <1>4, <2>2
<1> QED
  BY <1>2, <1>4, PutStep

LEMMA PutBitsStep ==
    ASSUME BFInv, NEW n \in Counts, BitFilePutBits(n)
    PROVE  BFInv'
<1> DEFINE s == PutBits(Now, AsMemory(NextBits(n), n), n)
<1>1. PutOne("bits", n, s)
  BY DEF BitFilePutBits
<1>2. NextBits(n) \in Seq(Bits) /\ Len(NextBits(n)) = n
          => s = PutEach(PutWhole(Now, Whole(NextBits(n), n)), Rest(NextBits(n), n))
  BY PutBitsIs
<1> HIDE DEF s
<1> QED
  BY <1>1, <1>2, PutManyStep

LEMMA PutBitsNumStep ==
    ASSUME BFInv, NEW n \in Counts, BitFilePutBitsNum(n)
    PROVE  BFInv'
<1> DEFINE m == AsNumber(NextBits(n), n)
<1>1. PICK cell : /\ PutOne("num", n, PutNumber(Now, m, n, cell))
                  /\ \/ host = "little" /\ cell = CellLE
                     \/ host = "big" /\ cell = CellBE
  BY DEF BitFilePutBitsNum, BitFilePutBitsLE, BitFilePutBitsBE
<1> DEFINE s == PutNumber(Now, m, n, cell)
<1>2. ASSUME NextBits(n) \in Seq(Bits), Len(NextBits(n)) = n
      PROVE  s = PutEach(PutWhole(Now, Whole(NextBits(n), n)), Rest(NextBits(n), n))
  <2>1. CellsHold(m, cell, LeastFirst(NextBits(n), n))
    BY <1>1, <1>2, NumberCells
  <2> HIDE DEF m
  <2> QED
    BY <1>2, <2>1, PutNumberIs
<1> HIDE DEF s
<1>3. PutOne("num", n, s)
  BY <1>1 DEF s
<1> QED
  BY <1>2, <1>3, PutManyStep

LEMMA AlignStep ==
    ASSUME BFInv, NEW fill \in Bits, PutOne("align", 0, Aligned(Drain(Now, fill)))
    PROVE  BFInv'
<1> DEFINE s == Aligned(Drain(Now, fill))
<1>1. Now \in Streams /\ capacity \in Nat
  BY NowIs DEF BFInv
<1>2. ASSUME NEW x \in Places, NEW p \in Entries, p.op = "align", WriterAt(Now, x[1], x[2])
      PROVE  Wrote(Now, s, x, p)
  BY <1>1, <1>2, WroteAlign DEF Aligns
<1>3. PutOne("align", 0, s)
  OBVIOUS
<1> HIDE DEF s
<1> QED
  BY <1>2, <1>3, PutStep

\* What Aligned leaves.
LEMMA AlignedIs ==
    ASSUME NEW s \in Streams
    PROVE  /\ Aligned(s) \in Streams /\ Aligned(s).bytes = s.bytes /\ Aligned(s).at = s.at
           /\ Aligned(s).buffer = Empty /\ Aligned(s).count = 0
           /\ Aligned(s).ok = s.ok /\ Aligned(s).bits = s.bits
<1>1. Empty \in Bytes /\ 0 \in 0 .. ByteBits - 1
  BY BFSizes DEF Empty, Bytes
<1>2. Aligned(s) = WithBuffer(s, Empty, 0)
  BY DEF Aligned, WithBuffer
<1> QED
  BY <1>1, <1>2, WithBufferIs

LEMMA ClosedStep ==
    ASSUME BFInv, Writing, Ended, fp' \in {"closed", "used"}
    PROVE  BFInv'
<1> DEFINE s == Aligned(Drain(Now, 0))
           e == [op |-> "close", n |-> 0, bits |-> NextBits(0)]
<1>1. /\ mode # "read" /\ mode' = "none" /\ Becomes(s) /\ put' = Append(put, e)
      /\ UNCHANGED <<host, got, data, capacity, status>>
  BY DEF Ended, Writing, Note
<1>2. Now \in Streams /\ capacity \in Nat
  BY NowIs DEF BFInv
<1>3. e \in Entries
  <2>1. NextBits(0) = <<>>
    <3>1. Used \in Nat
      BY UsedIs DEF BFInv
    <3> DEFINE u == Used
    <3> HIDE DEF u
    <3>2. SubSeq(data, u + 1, u + 0) = <<>>
      BY <3>1 DEF BFInv, u
    <3> QED
      BY <3>2 DEF NextBits, u
  <2>2. NextBits(0) \in Seq(Bits) /\ Len(NextBits(0)) = 0
    <3>1. <<>> \in Seq(Bits) /\ Len(<<>>) = 0
      OBVIOUS
    <3> QED
      BY <2>1, <3>1, Zenon
  <2> QED
    BY <2>2 DEF Entries, Aligns
<1>4. \A x \in Places : WriterAt(Now, x[1], x[2]) => Wrote(Now, s, x, e)
  BY <1>2, <1>3, WroteAlign DEF Aligns, Bits
<1>5. s.buffer = Empty /\ s.count = 0
  BY DEF Aligned
<1>6. e.op = "close"
  OBVIOUS
<1> HIDE DEF s, e
<1> QED
  BY <1>1, <1>3, <1>4, <1>5, <1>6, WriterStep

-----------------------------------------------------------------------------
(* The steps that leave the file alone.                                    *)

LEMMA QuietStep ==
    ASSUME BFInv, BFTypeOK', FilePhases', StoppedWhy', UNCHANGED <<bytes, put, got, data, capacity>>,
           status' \in {"running", "stopped", "over"},
           got = <<>> \/ host' = host,
           File'.buffer = File.buffer, File'.count = File.count,
           mode' = "read" /\ status' = "running" => got = <<>> /\ at' = 0 /\ bitCount' = 0
    PROVE  BFInv'
<1>1. PICK P : Laid(File, put, P)
  BY DEF BFInv
<1>2. File'.bytes = File.bytes
  BY DEF File
<1>3. Laid(File', put', P)
  <2>1. Laid(File', put, P)
    BY <1>1, <1>2, LaidAt
  <2> QED
    BY <2>1
<1>4. P[1] = <<0, 0>>
  BY <1>1 DEF Laid
<1>5. ReaderIn(P)'
  <2> SUFFICES ASSUME mode' = "read", status' = "running"
               PROVE  ReaderAt(Now', P[Len(got') + 1][1], P[Len(got') + 1][2])
    BY DEF ReaderIn, ReaderAt
  <2>1. Len(got') = 0 /\ Now'.at = 0 /\ Now'.count = 0
    BY DEF Now
  <2>2. Len(got') + 1 = 1
    BY <2>1
  <2> QED
    BY <1>4, <2>1, <2>2 DEF ReaderAt
<1>6. ReadsWhatWasPut'
  <2>1. CASE got = <<>>
    BY <2>1 DEF ReadsWhatWasPut
  <2>2. CASE host' = host
    BY <2>2 DEF BFInv, ReadsWhatWasPut, Expected, AsNumber
  <2> QED
    BY <2>1, <2>2
<1> QED
  BY <1>3, <1>5, <1>6, InvNext DEF BFInv

LEMMA fopenStep == BFInv /\ (fopen \/ fclose \/ OpenFails) => BFInv'
<1> SUFFICES ASSUME BFInv, fopen \/ fclose \/ OpenFails PROVE BFInv'
  OBVIOUS
<1>1. /\ mode = "none" /\ UNCHANGED <<host, mode, stream, put, got, data, capacity>>
      /\ status' = status \/ status' = "over"
      /\ fp' \in {"closed", "fresh", "used"}
  BY DEF fopen, fclose, OpenFails, BFInv, BFTypeOK
<1>2. UNCHANGED <<bytes, at, bitBuffer, bitCount>>
  BY <1>1 DEF stream
<1>3. BFTypeOK'
  BY <1>1, <1>2 DEF BFInv, BFTypeOK
<1>4. status \in {"running", "stopped", "over"} /\ FilePhases /\ StoppedWhy
  BY DEF BFInv
<1>5. FilePhases'
  BY <1>1, <1>2, <1>4 DEF FilePhases, Writing
<1>6. StoppedWhy'
  BY <1>1, <1>2, <1>4 DEF StoppedWhy, FilePhases
<1>7. File'.buffer = File.buffer /\ File'.count = File.count
  BY <1>1, <1>2 DEF File
<1> QED
  BY <1>1, <1>2, <1>3, <1>4, <1>5, <1>6, <1>7, QuietStep

LEMMA MadeStep ==
    ASSUME BFInv, NEW m \in {"write", "append", "read"}, Made(m)
    PROVE  BFInv'
<1>1. /\ mode = "none" /\ status = "running" /\ mode' = m /\ fp' = "used"
      /\ bitBuffer' = Empty /\ bitCount' = 0
      /\ UNCHANGED <<bytes, at, put, got, data, capacity, status>>
      /\ m = "read" => Written
  BY DEF Made
<1>2. BFTypeOK /\ FilePhases
  BY DEF BFInv
<1>3. got = <<>> /\ at = 0 /\ bitBuffer = Empty /\ bitCount = 0
      /\ (put = <<>> \/ put[Len(put)].op = "close")
  BY <1>1, <1>2 DEF FilePhases, Writing
<1>4. host' \in Hosts
  BY <1>2 DEF Made, BFTypeOK
<1>5. BFTypeOK'
  <2>1. bitBuffer \in Bytes /\ bitCount \in 0 .. ByteBits - 1
    BY <1>2 DEF BFTypeOK
  <2> QED
    BY <1>1, <1>2, <1>3, <1>4, <2>1 DEF BFTypeOK
<1>6. m = "read" => put # <<>>
  BY <1>1 DEF Written
<1>7. FilePhases'
  BY <1>1, <1>3, <1>6 DEF FilePhases, Writing
<1>8. StoppedWhy'
  BY <1>1 DEF StoppedWhy
<1>9. File'.buffer = File.buffer /\ File'.count = File.count
  BY <1>1, <1>3 DEF File
<1> QED
  BY <1>1, <1>3, <1>5, <1>7, <1>8, <1>9, QuietStep

LEMMA EndedStep == BFInv /\ (BitFileClose \/ BitFileToFILE) => BFInv'
<1> SUFFICES ASSUME BFInv, BitFileClose \/ BitFileToFILE PROVE BFInv'
  OBVIOUS
<1>1. BFTypeOK /\ FilePhases
  BY DEF BFInv
<1>2. Ended /\ mode # "none" /\ mode' = "none" /\ fp' \in {"closed", "used"}
  BY <1>1 DEF BitFileClose, BitFileToFILE, Ended, BFTypeOK
<1>3. CASE Writing
  BY <1>2, <1>3, ClosedStep
<1>4. CASE ~ Writing
  <2>1. /\ mode = "read" /\ Becomes(Aligned(Now)) /\ status' = "over"
        /\ UNCHANGED <<host, put, got, data, capacity>>
    BY <1>1, <1>2, <1>4 DEF Ended, Writing, BFTypeOK
  <2>2. Now \in Streams /\ Now.at = at /\ Now.bytes = bytes
    BY <1>1, NowIs
  <2>3. UNCHANGED <<bytes, at>> /\ bitBuffer' = Empty /\ bitCount' = 0
    BY <2>1, <2>2, AlignedIs DEF Becomes
  <2>4. Aligned(Now).buffer \in Bytes /\ Aligned(Now).count \in 0 .. ByteBits - 1
    BY <2>2, AlignedIs DEF Streams
  <2>5. BFTypeOK'
    BY <1>1, <1>2, <2>1, <2>3, <2>4 DEF BFTypeOK, Becomes
  <2>6. FilePhases' /\ StoppedWhy'
    BY <1>1, <1>2, <1>4, <2>1, <2>3 DEF FilePhases, Writing, StoppedWhy
  <2>7. File'.buffer = File.buffer /\ File'.count = File.count
    BY <1>2, <2>1, <2>3 DEF File
  <2> QED
    BY <1>2, <2>1, <2>3, <2>5, <2>6, <2>7, QuietStep
<1> QED
  BY <1>3, <1>4

LEMMA StutterStep == BFInv /\ UNCHANGED bfVars => BFInv'
<1> SUFFICES ASSUME BFInv, UNCHANGED bfVars PROVE BFInv'
  OBVIOUS
<1>1. /\ UNCHANGED <<host, mode, fp, bytes, at, bitBuffer, bitCount>>
      /\ UNCHANGED <<put, got, data, capacity, status>>
  BY DEF bfVars, stream
<1>2. BFTypeOK' /\ FilePhases' /\ StoppedWhy' /\ ReadsWhatWasPut'
  BY <1>1 DEF BFInv, BFTypeOK, FilePhases, Writing, StoppedWhy, ReadsWhatWasPut, Expected, AsNumber
<1>3. PICK P : Laid(File, put, P) /\ ReaderIn(P)
  BY DEF BFInv
<1>4. Laid(File', put', P) /\ ReaderIn(P)'
  BY <1>1, <1>3 DEF File, ReaderIn, Now
<1> QED
  BY <1>1, <1>2, <1>4, InvNext DEF BFInv

-----------------------------------------------------------------------------
(* The steps of a reader.                                                  *)

\* t is what the reader of the operation p leaves, which is at the place x.
ReadRight(t, x, p) ==
    /\ t \in Readers /\ t.bytes = bytes
    /\ Reads(Now, t, x, p) \/ (~ t.ok /\ host = "unknown" /\ p.op = "num")
    /\ t.ok => p.op \in Aligns \/ t.bits = Expected(p)

\* How far the writers got.
LEMMA FileEnds ==
    ASSUME mode = "read", BFTypeOK, capacity \in Nat, NEW y \in Places, NEW end \in Places,
           Upto(y, end), WriterAt(File, end[1], end[2])
    PROVE  Len(bytes) <= capacity /\ (Fits(Now, y[1], y[2]) \/ Len(bytes) = capacity)
<1>1. File.bytes = bytes /\ File.count = 0 /\ Now.bytes = bytes
  BY DEF File, Now
<1>2. Len(bytes) \in Nat
  BY DEF BFTypeOK
<1>3. \/ end[1] < capacity /\ Len(bytes) = end[1] /\ end[2] = 0
      \/ Len(bytes) = capacity
  BY <1>1 DEF WriterAt
<1>4. y[1] \in Nat /\ y[2] \in Nat /\ end[1] \in Nat /\ end[2] \in Nat
  BY BFSizes DEF Places
<1> QED
  BY <1>1, <1>2, <1>3, <1>4 DEF Upto, Fits

LEMMA GetStep ==
    ASSUME BFInv, NEW ops, NEW s, Getting(ops, s),
           \A x \in Places, p \in Entries :
               /\ p = put[Len(got) + 1] /\ p.op \in ops
               /\ OpAt(File, x, p) /\ ReaderAt(Now, x[1], x[2]) /\ Len(bytes) <= capacity
               => ReadRight(s, x, p)
    PROVE  BFInv'
<1> DEFINE N == Len(got)
           p == put[N + 1]
<1>1. /\ BFTypeOK /\ put \in Seq(Entries) /\ got \in Seq(Seq(Bits)) /\ data \in Seq(Bits)
      /\ capacity \in Nat /\ FilePhases /\ ReadsWhatWasPut
  BY DEF BFInv
<1>2. /\ mode = "read" /\ status = "running" /\ N < Len(put) /\ p.op \in ops /\ Becomes(s)
      /\ IF s.ok THEN got' = Append(got, s.bits) /\ UNCHANGED status
         ELSE UNCHANGED got /\ status' = "stopped"
      /\ UNCHANGED <<host, mode, fp, put, data, capacity>>
  BY DEF Getting
<1>3. PICK P : Laid(File, put, P) /\ ReaderAt(Now, P[N + 1][1], P[N + 1][2])
  BY <1>2 DEF BFInv, ReaderIn
<1> DEFINE x == P[N + 1]
           y == P[N + 2]
           M == Len(put)
           end == P[M + 1]
<1>4. N \in Nat /\ M \in Nat /\ N + 1 \in 1 .. M /\ N + 2 \in 1 .. M + 1 /\ N + 1 \in 1 .. M + 1
      /\ M + 1 \in 1 .. M + 1
  BY <1>1, <1>2
<1>5. p \in Entries
  BY <1>1, <1>4
<1>6. /\ x \in Places /\ y \in Places /\ end \in Places /\ y = Behind(x, p)
      /\ OpAt(File, x, p) /\ Upto(y, end) /\ WriterAt(File, end[1], end[2])
  <2>1. /\ P \in [1 .. M + 1 -> Places]
        /\ \A k \in 1 .. M : P[k + 1] = Behind(P[k], put[k]) /\ OpAt(File, P[k], put[k])
        /\ \A k \in 1 .. M + 1 : Upto(P[k], end)
        /\ WriterAt(File, end[1], end[2])
    BY <1>3 DEF Laid
  <2>2. (N + 1) + 1 = N + 2
    BY <1>4
  <2> HIDE DEF M, N
  <2>3. P[(N + 1) + 1] = Behind(P[N + 1], put[N + 1]) /\ OpAt(File, P[N + 1], put[N + 1])
    BY <1>4, <2>1
  <2> QED
    BY <1>4, <2>1, <2>2, <2>3
<1> HIDE DEF x, y, end, M
<1>7. Len(bytes) <= capacity /\ (Fits(Now, y[1], y[2]) \/ Len(bytes) = capacity)
  BY <1>1, <1>2, <1>6, FileEnds
<1>8. ReadRight(s, x, p)
  BY <1>2, <1>3, <1>5, <1>6, <1>7 DEF x
<1>9. s \in Readers /\ s.bytes = bytes /\ s.bits \in Seq(Bits)
  BY <1>8, ReaderIs DEF ReadRight
<1>10. bytes' = bytes /\ at' = s.at /\ bitBuffer' = s.buffer /\ bitCount' = s.count
  BY <1>2, <1>9 DEF Becomes
<1>11. Laid(File', put', P)
  <2>1. File'.bytes = File.bytes /\ File'.buffer = File.buffer /\ File'.count = File.count
    BY <1>2, <1>10 DEF File
  <2>2. Laid(File', put, P)
    BY <1>3, <2>1, LaidAt
  <2> QED
    BY <1>2, <2>2
<1>12. /\ got' \in Seq(Seq(Bits)) /\ Len(got') <= Len(put)
       /\ status' \in {"running", "stopped"}
  <2>1. CASE s.ok
    <3>1. got' = Append(got, s.bits) /\ status' = "running"
      BY <1>2, <2>1
    <3> QED
      BY <1>1, <1>2, <1>9, <3>1
  <2>2. CASE ~ s.ok
    BY <1>1, <1>2, <2>2
  <2> QED
    BY <2>1, <2>2
<1>13. BFTypeOK'
  <2>1. s.at \in 0 .. Len(bytes) /\ s.buffer \in Bytes /\ s.count \in 0 .. ByteBits - 1
    BY <1>9, ReaderIs
  <2> QED
    BY <1>1, <1>2, <1>10, <1>12, <2>1 DEF BFTypeOK
<1>14. FilePhases'
  BY <1>1, <1>2, <1>12 DEF FilePhases, Writing
<1>15. StoppedWhy'
  <2> SUFFICES ASSUME status' = "stopped"
               PROVE  \/ host = "unknown" /\ put[Len(got') + 1].op = "num"
                      \/ Len(bytes) = capacity
    BY <1>2, <1>10 DEF StoppedWhy
  <2>1. ~ s.ok /\ got' = got
    BY <1>2
  <2>2. CASE host = "unknown" /\ p.op = "num"
    BY <2>1, <2>2
  <2>3. CASE Reads(Now, s, x, p)
    <3>1. ~ Fits(Now, y[1], y[2])
      BY <1>6, <2>1, <2>3 DEF Reads
    <3> QED
      BY <1>7, <3>1
  <2> QED
    BY <1>8, <2>1, <2>2, <2>3 DEF ReadRight
<1>16. ReaderIn(P)'
  <2> SUFFICES ASSUME status' = "running"
               PROVE  ReaderAt(Now', P[Len(got') + 1][1], P[Len(got') + 1][2])
    BY DEF ReaderIn, ReaderAt
  <2>1. s.ok
    BY <1>2
  <2>2. Len(got') + 1 = N + 2
    BY <1>1, <1>2, <2>1
  <2>3. ReaderAt(s, y[1], y[2])
    BY <1>6, <1>8, <2>1 DEF ReadRight, Reads
  <2>4. Now'.at = s.at /\ Now'.count = s.count /\ Now'.buffer = s.buffer /\ Now'.bytes = s.bytes
    BY <1>9, <1>10 DEF Now
  <2>5. ReaderAt(Now', y[1], y[2])
    BY <2>3, <2>4 DEF ReaderAt
  <2> QED
    BY <2>2, <2>5 DEF y
<1>17. ReadsWhatWasPut'
  <2>1. \A q : Expected(q)' = Expected(q)
    BY <1>2 DEF Expected, AsNumber
  <2>2. \A k \in 1 .. N : put[k].op \in Aligns \/ got[k] = Expected(put[k])
    BY <1>1 DEF ReadsWhatWasPut, Aligns
  <2> SUFFICES ASSUME NEW k \in DOMAIN got'
               PROVE  put[k].op \in Aligns \/ got'[k] = Expected(put[k])
    BY <1>2, <2>1 DEF ReadsWhatWasPut, Aligns
  <2>3. CASE ~ s.ok
    <3>1. got' = got
      BY <1>2, <2>3
    <3>2. k \in 1 .. N
      BY <1>1, <3>1
    <3> QED
      BY <2>2, <3>1, <3>2
  <2>4. CASE s.ok
    <3>1. got' = Append(got, s.bits) /\ (k \in 1 .. N \/ k = N + 1)
      BY <1>1, <1>2, <2>4
    <3>2. CASE k \in 1 .. N
      BY <1>1, <2>2, <3>1, <3>2
    <3>3. CASE k = N + 1
      <4>1. got'[k] = s.bits
        BY <1>1, <3>1, <3>3
      <4>2. p.op \in Aligns \/ s.bits = Expected(p)
        BY <1>8, <2>4 DEF ReadRight
      <4> QED
        BY <3>3, <4>1, <4>2
    <3> QED
      BY <3>1, <3>2, <3>3
  <2> QED
    BY <2>3, <2>4
<1> QED
  BY <1>1, <1>2, <1>11, <1>12, <1>13, <1>14, <1>15, <1>16, <1>17, InvNext

LEMMA ExpectedIs ==
    ASSUME NEW p \in Entries
    PROVE  /\ p.op # "num" => Expected(p) = p.bits
           /\ p.op = "num" => Expected(p) = FlattenSeq(LeastFirst(p.bits, p.n))
<1> DEFINE L == LeastFirst(p.bits, p.n)
<1>1. CASE p.op = "num"
  <2>1. p.n \in Counts /\ p.bits \in Seq(Bits) /\ Len(p.bits) = p.n
    BY <1>1 DEF Entries
  <2>2. L \in Seq(Bytes) /\ Len(L) = Size
    BY <2>1, LeastFirstIs
  <2> HIDE DEF L
  <2>3. Reverse(Reverse(L)) = L
    <3> DEFINE R == Reverse(L)
    <3>1. R = [k \in 1 .. Size |-> L[(Size - k) + 1]]
      BY <2>2 DEF Reverse
    <3>2. Size \in Nat /\ \A k \in 1 .. Size : (Size - k) + 1 \in 1 .. Size /\ (Size - ((Size - k) + 1)) + 1 = k
      BY BFSizes
    <3>3. R \in [1 .. Size -> Bytes] /\ \A k \in 1 .. Size : R[(Size - k) + 1] = L[k]
      BY <2>2, <3>1, <3>2
    <3> HIDE DEF R
    <3>4. Len(R) = Size
      BY <3>2, <3>3
    <3>5. Reverse(R) = [k \in 1 .. Size |-> R[(Size - k) + 1]]
      BY <3>4 DEF Reverse
    <3>6. L = [k \in 1 .. Size |-> L[k]]
      BY <2>2
    <3>7. Reverse(R) = L
      BY <3>3, <3>5, <3>6
    <3> QED
      BY <3>7 DEF R
  <2> QED
    BY <1>1, <2>3 DEF Expected, AsNumber, L
<1>2. CASE p.op # "num"
  BY <1>2 DEF Expected
<1> QED
  BY <1>1, <1>2

LEMMA GetBitStep == BFInv /\ BitFileGetBit => BFInv'
<1> SUFFICES ASSUME BFInv, BitFileGetBit PROVE BFInv'
  OBVIOUS
<1> DEFINE s == GetBit(Now)
<1>1. Getting({"bit"}, s)
  BY DEF BitFileGetBit
<1>2. Now \in Readers /\ Now.ok /\ Now.bytes = bytes /\ File.bytes = bytes /\ capacity \in Nat
  BY NowIs DEF BFInv
<1>3. ASSUME NEW x \in Places, NEW p \in Entries, p.op \in {"bit"}, OpAt(File, x, p),
             ReaderAt(Now, x[1], x[2]), Len(bytes) <= capacity
      PROVE  ReadRight(s, x, p)
  <2>1. Reads(Now, s, x, p) /\ (s.ok => s.bits = p.bits)
    BY <1>2, <1>3, ReadBit
  <2>2. Expected(p) = p.bits
    BY <1>3, ExpectedIs
  <2> QED
    BY <1>2, <2>1, <2>2 DEF ReadRight, Reads
<1> HIDE DEF s
<1> QED
  BY <1>1, <1>3, GetStep

LEMMA GetCharStep == BFInv /\ BitFileGetChar => BFInv'
<1> SUFFICES ASSUME BFInv, BitFileGetChar PROVE BFInv'
  OBVIOUS
<1> DEFINE s == GetChar(Now)
<1>1. Getting({"char"}, s)
  BY DEF BitFileGetChar
<1>2. Now \in Readers /\ Now.ok /\ Now.bytes = bytes /\ File.bytes = bytes /\ capacity \in Nat
  BY NowIs DEF BFInv
<1>3. ASSUME NEW x \in Places, NEW p \in Entries, p.op \in {"char"}, OpAt(File, x, p),
             ReaderAt(Now, x[1], x[2]), Len(bytes) <= capacity
      PROVE  ReadRight(s, x, p)
  <2>1. Reads(Now, s, x, p) /\ (s.ok => s.bits = p.bits)
    BY <1>2, <1>3, ReadChar
  <2>2. Expected(p) = p.bits
    BY <1>3, ExpectedIs
  <2> QED
    BY <1>2, <2>1, <2>2 DEF ReadRight, Reads
<1> HIDE DEF s
<1> QED
  BY <1>1, <1>3, GetStep

LEMMA GetBitsStep == BFInv /\ BitFileGetBits => BFInv'
<1> SUFFICES ASSUME BFInv, BitFileGetBits PROVE BFInv'
  OBVIOUS
<1> DEFINE s == GetBits(Now, Wanted)
<1>1. Getting({"bits"}, s)
  BY DEF BitFileGetBits
<1>2. Now \in Readers /\ Now.ok /\ Now.bytes = bytes /\ File.bytes = bytes /\ capacity \in Nat
  BY NowIs DEF BFInv
<1>3. ASSUME NEW x \in Places, NEW p \in Entries, p = put[Len(got) + 1], p.op \in {"bits"},
             OpAt(File, x, p), ReaderAt(Now, x[1], x[2]), Len(bytes) <= capacity
      PROVE  ReadRight(s, x, p)
  <2>1. Reads(Now, s, x, p) /\ (s.ok => s.bits = p.bits)
    <3>1. s = GetBits(Now, p.n)
      BY <1>3 DEF Wanted
    <3> QED
      BY <1>2, <1>3, <3>1, ReadBits
  <2>2. Expected(p) = p.bits
    BY <1>3, ExpectedIs
  <2> QED
    BY <1>2, <2>1, <2>2 DEF ReadRight, Reads
<1> HIDE DEF s
<1> QED
  BY <1>1, <1>3, GetStep

\* Each cell holds one byte of the number.
LEMMA CellsDiffer ==
    ASSUME NEW cell \in {CellLE, CellBE}
    PROVE  /\ cell \in [0 .. Size - 1 -> 1 .. Size]
           /\ \A i, j \in 0 .. Size - 1 : cell[i] = cell[j] => i = j
<1>1. Size \in Nat \ {0}
  BY BFSizes
<1>2. CASE cell = CellLE
  <2>1. cell = [k \in 0 .. Size - 1 |-> k + 1]
    BY <1>2 DEF CellLE
  <2> QED
    BY <1>1, <2>1
<1>3. CASE cell = CellBE
  <2>1. cell = [k \in 0 .. Size - 1 |-> Size - k]
    BY <1>3 DEF CellBE
  <2> QED
    BY <1>1, <2>1
<1> QED
  BY <1>2, <1>3

LEMMA GetBitsNumStep == BFInv /\ BitFileGetBitsNum => BFInv'
<1> SUFFICES ASSUME BFInv, BitFileGetBitsNum PROVE BFInv'
  OBVIOUS
<1>1. Now \in Readers /\ Now.ok /\ Now.bytes = bytes /\ File.bytes = bytes /\ capacity \in Nat
  BY NowIs DEF BFInv
<1>2. CASE host = "unknown"
  <2> DEFINE s == BitFileNotSupported(Now)
  <2>1. Getting({"num"}, s)
    BY <1>2 DEF BitFileGetBitsNum
  <2>2. s \in Readers /\ s.bytes = bytes /\ s.ok = FALSE
    BY <1>1, FailedIs DEF BitFileNotSupported
  <2>3. ASSUME NEW x \in Places, NEW p \in Entries, p.op \in {"num"}
        PROVE  ReadRight(s, x, p)
    BY <1>2, <2>2, <2>3 DEF ReadRight
  <2> HIDE DEF s
  <2> QED
    BY <2>1, <2>3, GetStep
<1>3. CASE host # "unknown"
  <2>1. PICK cell \in {CellLE, CellBE} : Getting({"num"}, GetNumber(Now, Wanted, cell))
    BY <1>3 DEF BitFileGetBitsNum, BitFileGetBitsLE, BitFileGetBitsBE
  <2> DEFINE s == GetNumber(Now, Wanted, cell)
  <2>2. ASSUME NEW x \in Places, NEW p \in Entries, p = put[Len(got) + 1], p.op \in {"num"},
               OpAt(File, x, p), ReaderAt(Now, x[1], x[2]), Len(bytes) <= capacity
        PROVE  ReadRight(s, x, p)
    <3> DEFINE v == FlattenSeq(LeastFirst(p.bits, p.n))
    <3>1. Reads(Now, s, x, p) /\ (s.ok => s.bits = v)
      <4>1. s = GetNumber(Now, p.n, cell)
        BY <2>2 DEF Wanted
      <4>2. /\ cell \in [0 .. Size - 1 -> 1 .. Size]
            /\ \A i, j \in 0 .. Size - 1 : cell[i] = cell[j] => i = j
        BY CellsDiffer
      <4>3. /\ Now \in Readers /\ Now.ok /\ File.bytes = Now.bytes /\ Len(Now.bytes) <= capacity
            /\ p.op = "num" /\ capacity \in Nat /\ OpAt(File, x, p) /\ ReaderAt(Now, x[1], x[2])
        BY <1>1, <2>2
      <4>4. /\ Reads(Now, GetNumber(Now, p.n, cell), x, p)
            /\ GetNumber(Now, p.n, cell).ok => GetNumber(Now, p.n, cell).bits = v
        BY <4>2, <4>3, ReadNumber, Zenon
      <4> HIDE DEF s, v
      <4> QED
        BY <4>1, <4>4
    <3>2. Expected(p) = v
      BY <2>2, ExpectedIs
    <3> HIDE DEF v
    <3> QED
      BY <1>1, <3>1, <3>2 DEF ReadRight, Reads
  <2>3. Getting({"num"}, s)
    BY <2>1
  <2> HIDE DEF s
  <2> QED
    BY <2>2, <2>3, GetStep
<1> QED
  BY <1>2, <1>3

LEMMA AlignReaderStep == BFInv /\ BitFileAlignReader => BFInv'
<1> SUFFICES ASSUME BFInv, BitFileAlignReader PROVE BFInv'
  OBVIOUS
<1> DEFINE s == Aligned(Now)
<1>1. Getting({"align", "close"}, s)
  BY DEF BitFileAlignReader
<1>2. Now \in Readers /\ Now \in Streams /\ Now.ok /\ Now.bytes = bytes
  BY NowIs DEF BFInv
<1>3. s \in Streams /\ s.bytes = bytes /\ s.at = Now.at /\ s.count = 0 /\ s.ok
  BY <1>2, AlignedIs
<1>4. s \in Readers
  BY <1>2, <1>3 DEF Readers
<1>5. ASSUME NEW x \in Places, NEW p \in Entries, p.op \in {"align", "close"},
             ReaderAt(Now, x[1], x[2])
      PROVE  ReadRight(s, x, p)
  <2>1. p.op \in Aligns
    BY <1>5 DEF Aligns
  <2>2. Behind(x, p)[1] = (IF x[2] = 0 THEN x[1] ELSE x[1] + 1) /\ Behind(x, p)[2] = 0
    BY <2>1 DEF Behind
  <2>3. ReaderAt(s, Behind(x, p)[1], Behind(x, p)[2])
    BY <1>3, <1>5, <2>2 DEF ReaderAt
  <2> HIDE DEF s
  <2> QED
    BY <1>2, <1>3, <1>4, <2>1, <2>3 DEF ReadRight, Reads
<1> HIDE DEF s
<1> QED
  BY <1>1, <1>5, GetStep

-----------------------------------------------------------------------------
(* The theorems.                                                           *)

LEMMA BFStep == BFInv /\ [BFNext]_bfVars => BFInv'
<1> SUFFICES ASSUME BFInv, [BFNext]_bfVars PROVE BFInv'
  OBVIOUS
<1>1. CASE \E m \in {"write", "append", "read"} : BitFileOpen(m) \/ MakeBitFile(m)
  BY <1>1, MadeStep DEF BitFileOpen, MakeBitFile
<1>2. CASE fopen \/ fclose \/ OpenFails
  BY <1>2, fopenStep
<1>3. CASE BitFilePutBit \/ BitFilePutChar
  BY <1>3, PutBitStep, PutCharStep
<1>4. CASE \E n \in Counts : BitFilePutBits(n) \/ BitFilePutBitsNum(n)
  BY <1>4, PutBitsStep, PutBitsNumStep
<1>5. CASE (\E onesFill \in {0, 1} : BitFileFlushOutput(onesFill)) \/ BitFileByteAlign
  <2>1. PICK fill \in Bits : PutOne("align", 0, Aligned(Drain(Now, fill)))
    BY <1>5 DEF BitFileFlushOutput, BitFileByteAlign, Bits
  <2> QED
    BY <2>1, AlignStep
<1>6. CASE BitFileClose \/ BitFileToFILE
  BY <1>6, EndedStep
<1>7. CASE BitFileGetBit \/ BitFileGetChar \/ BitFileGetBits \/ BitFileGetBitsNum
  BY <1>7, GetBitStep, GetCharStep, GetBitsStep, GetBitsNumStep
<1>8. CASE BitFileAlignReader
  BY <1>8, AlignReaderStep
<1>9. CASE UNCHANGED bfVars
  BY <1>9, StutterStep
<1> QED
  BY <1>1, <1>2, <1>3, <1>4, <1>5, <1>6, <1>7, <1>8, <1>9 DEF BFNext

\* What stopped a reader was the end of a full device, or its host; what is
\* left behind the last operation is the fill of the last close.
LEMMA ReadToTheEnd == BFInv => AllIsRead
<1> SUFFICES ASSUME BFInv PROVE AllIsRead
  OBVIOUS
<1>1. /\ BFTypeOK /\ FilePhases /\ StoppedWhy /\ put \in Seq(Entries) /\ got \in Seq(Seq(Bits))
      /\ capacity \in Nat /\ status \in {"running", "stopped", "over"}
  BY DEF BFInv
<1>2. status = "stopped" => (host = "unknown" /\ put[Len(got) + 1].op = "num") \/ Len(bytes) = capacity
  BY <1>1 DEF StoppedWhy
<1>3. ASSUME mode = "read", Len(got) = Len(put) - 1, Len(bytes) < capacity
      PROVE  at = Len(bytes) /\ LowBits(bitBuffer, bitCount) = FrontBits(Empty, bitCount)
  <2> DEFINE N == Len(put)
             p == put[N]
             B == ByteBits
  <2>1. /\ N \in Nat \ {0} /\ Len(got) + 1 = N /\ p \in Entries /\ p.op = "close"
        /\ status # "over" /\ B \in Nat \ {0} /\ Len(bytes) \in Nat
    <3>1. put # <<>> /\ status # "over" /\ p.op = "close"
      BY <1>1, <1>3 DEF FilePhases, Writing
    <3> QED
      BY <1>1, <1>3, <3>1, BFSizes DEF BFTypeOK
  <2>2. status = "running"
    BY <1>1, <1>2, <1>3, <2>1
  <2>3. PICK P : Laid(File, put, P) /\ ReaderAt(Now, P[N][1], P[N][2])
    BY <1>3, <2>1, <2>2 DEF BFInv, ReaderIn
  <2> DEFINE x == P[N]
             q == x[1]
             r == x[2]
             end == P[N + 1]
  <2>4. /\ x \in Places /\ end = Behind(x, p) /\ OpAt(File, x, p)
        /\ WriterAt(File, end[1], end[2])
    <3>1. N \in 1 .. N /\ N \in 1 .. N + 1
      BY <2>1
    <3> QED
      BY <2>3, <3>1 DEF Laid
  <2>5. File.bytes = bytes /\ Now.bytes = bytes /\ Now.at = at /\ Now.count = bitCount /\ Now.buffer = bitBuffer
    BY DEF File, Now
  <2>6. q \in Nat /\ r \in 0 .. B - 1
    BY <2>4 DEF Places
  <2>7. end[1] = IF r = 0 THEN q ELSE q + 1
    BY <2>1, <2>4 DEF Behind, Aligns
  <2> HIDE DEF q, r, x, end, N, p
  <2>8. Len(bytes) = end[1]
    BY <1>3, <2>1, <2>4, <2>5 DEF WriterAt
  <2>9. CASE r = 0
    <3>1. at = q /\ bitCount = 0
      BY <2>3, <2>5, <2>9 DEF ReaderAt, x, q, r
    <3>2. at = Len(bytes)
      BY <2>7, <2>8, <2>9, <3>1
    <3>3. LowBits(bitBuffer, 0) = <<>> /\ FrontBits(Empty, 0) = <<>>
      <4>1. bitBuffer \in Seq(Bits) /\ Empty \in Seq(Bits) /\ Len(bitBuffer) = B
        <5>1. bitBuffer \in Bytes /\ Empty \in Bytes
          BY <1>1 DEF BFTypeOK, Empty, Bytes
        <5> QED
          BY <5>1, BytesAre
      <4>2. SubSeq(bitBuffer, B + 1, B) = <<>> /\ SubSeq(Empty, 1, 0) = <<>> /\ B - 0 + 1 = B + 1
        BY <2>1, <4>1
      <4> QED
        BY <4>2 DEF LowBits, FrontBits
    <3> QED
      BY <3>1, <3>2, <3>3
  <2>10. CASE r # 0
    <3>1. at = q + 1 /\ bitCount = B - r /\ bitBuffer = bytes[q + 1]
      BY <2>3, <2>5, <2>10 DEF ReaderAt, x, q, r
    <3>2. at = Len(bytes) /\ q < capacity /\ q < Len(bytes)
      BY <1>1, <1>3, <2>6, <2>7, <2>8, <2>10, <3>1
    <3>3. \A j \in r + 1 .. B : bitBuffer[j] = 0
      <4>1. \A j \in r + 1 .. B : BitAt(File, q, j) = 0
        BY <2>1, <2>4, <2>6, <2>10, <3>2 DEF OpAt, q, r
      <4>2. \A j \in r + 1 .. B : BitAt(File, q, j) = bytes[q + 1][j]
        BY <2>5, <3>2 DEF BitAt
      <4> QED
        BY <3>1, <4>1, <4>2
    <3>4. LowBits(bitBuffer, bitCount) = FrontBits(Empty, bitCount)
      <4> DEFINE c == bitCount
                 f == LowBits(bitBuffer, c)
                 g == FrontBits(Empty, c)
      <4>1. bitBuffer \in Seq(Bits) /\ Len(bitBuffer) = B /\ Empty \in Seq(Bits) /\ Len(Empty) = B
        <5>1. bitBuffer \in Bytes /\ Empty \in Bytes
          BY <1>1 DEF BFTypeOK, Empty, Bytes
        <5> QED
          BY <5>1, BytesAre
      <4>2. c \in 1 .. B - 1 /\ B - c = r
        BY <2>6, <2>10, <3>1, <2>1
      <4> HIDE DEF c
      <4>3. f = [j \in 1 .. c |-> bitBuffer[r + j]]
        <5>1. f = SubSeq(bitBuffer, r + 1, B)
          BY <4>2 DEF LowBits
        <5>2. f \in Seq(Bits) /\ Len(f) = c /\ \A j \in 1 .. c : f[j] = bitBuffer[r + j]
          BY <2>6, <4>1, <4>2, <5>1
        <5> HIDE DEF f
        <5>3. f = [j \in 1 .. c |-> f[j]]
          BY <5>2
        <5> QED
          BY <5>2, <5>3
      <4>4. g = [j \in 1 .. c |-> 0]
        <5>1. g \in Seq(Bits) /\ Len(g) = c /\ \A j \in 1 .. c : g[j] = 0
          BY <4>1, <4>2, <2>1 DEF FrontBits, Empty
        <5> HIDE DEF g
        <5>2. g = [j \in 1 .. c |-> g[j]]
          BY <5>1
        <5> QED
          BY <5>1, <5>2
      <4>5. \A j \in 1 .. c : bitBuffer[r + j] = 0
        BY <2>6, <3>3, <4>2, <2>1
      <4> HIDE DEF f, g
      <4>6. f = g
        BY <4>3, <4>4, <4>5
      <4> QED
        BY <4>6 DEF f, g, c
    <3> QED
      BY <3>2, <3>4
  <2> QED
    BY <2>9, <2>10
<1> QED
  BY <1>2, <1>3 DEF AllIsRead

\* The places of the operations in the file stay what they were when each was
\* written, and a reader is always at the place of the operation it does next.
THEOREM FilesInvariance == BFSpec => []BFInv
<1>1. BFInit => BFInv
  BY Begin
<1>2. BFInv /\ [BFNext]_bfVars => BFInv'
  BY BFStep
<1> QED
  BY <1>1, <1>2, PTL DEF BFSpec

\* BFTypeOK of BitFile: less than a byte of bits waits between two calls, for
\* every size of a byte and of a number, every device and any mix of calls.
THEOREM BitsKeepTheirTypes == BFSpec => []BFTypeOK
<1>1. BFInv => BFTypeOK
  BY DEF BFInv
<1> QED
  BY <1>1, FilesInvariance, PTL

\* ReadsWhatWasPut of BitFile: what the BitFilePut functions wrote, in one run
\* or several, the same BitFileGet functions give back, at any position within
\* a byte, on hosts of the same or of different endianness.
THEOREM SameBitsRead == BFSpec => []ReadsWhatWasPut
<1>1. BFInv => ReadsWhatWasPut
  BY DEF BFInv
<1> QED
  BY <1>1, FilesInvariance, PTL

\* AllIsRead of BitFile: a reader only gets EOF if the device of the writer was
\* full or its own host has an unknown endianness; behind the last operation
\* there are fewer bits than a byte, and all of them are 0.
THEOREM NoBitsLost == BFSpec => []AllIsRead
BY FilesInvariance, ReadToTheEnd, PTL

=============================================================================
