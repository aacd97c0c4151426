------------------------------ MODULE GpuProofs ------------------------------
(***************************************************************************)
(* Proofs about what CULZSS does on a device.                              *)
(*                                                                         *)
(* GpuStreams, whatever the number of blocks, slots and segments and in    *)
(* whatever order CUDA lets the streams run: tokens go wrong only where    *)
(* the two causes named there have been at work, and without them the      *)
(* streams are the atomic device of SlotDevice.                            *)
(*                                                                         *)
(* Packing, for every number of threads and rounds, every buffer and every *)
(* order in which the threads run between two barriers: the window and the *)
(* lookahead they share hold what the search of a thread takes them to     *)
(* hold, and the tokens it leaves say what follows.                        *)
(* What aftercomp packs of these tokens, packet by packet and with the     *)
(* sizes of the packets in the trailer, DecodeKernel unpacks.              *)
(***************************************************************************)
EXTENDS GpuStreams, Packing, SequenceTheorems, WellFoundedInduction, TLAPS

-----------------------------------------------------------------------------
(* The inductive invariant.                                                *)

Harm == crossed \cup late

GSTypeOK ==
    /\ filled \in 0 .. NumBlocks /\ issued \in 0 .. filled /\ taken \in 0 .. issued
    /\ filled <= taken + NumSlots
    /\ loop \in 0 .. 2 /\ seg \in Segs /\ (Issuing => issued < filled)
    /\ ran \in [Blocks -> [Segs -> 0 .. 3]]
    /\ buf \in [Slots -> [Segs -> Int]] /\ bufout \in [Slots -> [Segs -> Int]]
    /\ in_d \in [Segs -> Int] /\ out_d \in [Segs -> Int]
    /\ tokens \in Seq([Segs -> Int]) /\ Len(tokens) = taken

\* The device runs what has been queued.
QueueInv == \A b \in Blocks, g \in Segs : ran[b][g] <= Called(b, g)

\* A stream does a block's operations after those of earlier blocks.
StreamInv ==
    \A b, c \in Blocks : b < c /\ SlotOf(b) = SlotOf(c) =>
        \A g \in Segs : ran[c][g] > 0 => ran[b][g] = 3

\* A block is in its slot from its reading to its packing.
BufInv == \A b \in taken .. filled - 1, g \in Segs : buf[SlotOf(b)][g] = b

\* What an operation has moved stays where it is until the next one of the
\* segment has moved it on, if no harm was done to the segment.
SegmentInv(b, g) ==
    /\ ran[b][g] \in {1, 2} => in_d[g] = b
    /\ ran[b][g] = 2 => out_d[g] = b
    /\ ran[b][g] = 3 /\ taken <= b => bufout[SlotOf(b)][g] = b

DataInv == \A b \in Blocks, g \in Segs : <<b, g>> \in Harm \/ SegmentInv(b, g)

\* A block whose last stream is done is done but for the late segments, and
\* that of every packed block is.
LastInv ==
    /\ \A b \in Blocks, g \in Segs :
          ran[b][LastSeg] = 3 => ran[b][g] = 3 \/ <<b, g>> \in late
    /\ \A b \in 0 .. taken - 1 : ran[b][LastSeg] = 3

GSInv ==
    /\ GSTypeOK /\ QueueInv /\ StreamInv /\ BufInv /\ DataInv /\ LastInv
    /\ TokensOfTheirBlock

-----------------------------------------------------------------------------
(* Slots, blocks and calls.                                                *)

LEMMA Division ==
    ASSUME NEW m \in Nat \ {0}, NEW n \in Nat
    PROVE  /\ n \div m \in Nat /\ n % m \in 0 .. m - 1
           /\ n = m * (n \div m) + (n % m)
<1>1. n = m * (n \div m) + (n % m)
  OBVIOUS
<1>0. n \div m \in Int
  OBVIOUS
<1>2. n % m \in 0 .. m - 1
  OBVIOUS
<1>3. n \div m >= 0
  <2>1. SUFFICES ASSUME n \div m <= -1 PROVE FALSE
    BY <1>0
  <2>2. m * (n \div m) <= -m
    BY <1>0, <2>1
  <2> QED
    BY <1>0, <1>1, <1>2, <2>2
<1> QED
  BY <1>0, <1>1, <1>2, <1>3

LEMMA SlotInRange == ASSUME NEW b \in Nat PROVE SlotOf(b) \in Slots
BY StreamsAssumption DEF SlotOf, Slots

\* Of the blocks of a turn of the ring, each has a slot of its own.
LEMMA SlotsDiffer ==
    ASSUME NEW b \in Nat, NEW c \in Nat, b <= c, c < b + NumSlots,
           SlotOf(b) = SlotOf(c)
    PROVE  b = c
<1> DEFINE q == b \div NumSlots
           p == c \div NumSlots
           r == b % NumSlots
<1>1. NumSlots \in Nat /\ NumSlots > 0
  BY StreamsAssumption
<1>2. b = NumSlots * q + r /\ q \in Int /\ r \in Int
  BY <1>1, Division
<1>3. c = NumSlots * p + r /\ p \in Int
  BY <1>1, Division DEF SlotOf
<1>4. NumSlots * q \in Int /\ NumSlots * p \in Int
  BY <1>1, <1>2, <1>3
<1> HIDE DEF q, p, r
<1>5. c - b = NumSlots * p - NumSlots * q
  BY <1>2, <1>3, <1>4
<1>6. NumSlots * p - NumSlots * q = NumSlots * (p - q)
  BY <1>1, <1>2, <1>3
<1>7. 0 <= NumSlots * (p - q) /\ NumSlots * (p - q) < NumSlots
  BY <1>1, <1>5, <1>6
<1>8. p - q < 1
  BY <1>1, <1>2, <1>3, <1>7
<1>9. p - q > -1
  BY <1>1, <1>2, <1>3, <1>7
<1>10. p - q = 0
  BY <1>2, <1>3, <1>8, <1>9
<1> QED
  BY <1>1, <1>5, <1>6, <1>10

\* How many of a segment's operations are queued; of a block that is read.
LEMMA CalledTyped ==
    ASSUME GSTypeOK, NEW b \in Blocks, NEW g \in Segs
    PROVE  /\ Called(b, g) \in 0 .. 3
           /\ b < issued => Called(b, g) = 3
           /\ b > issued => Called(b, g) = 0
           /\ Called(b, g) > 0 => b < filled
           /\ Called(b, g) = 3 /\ g = LastSeg => b < issued
BY StreamsAssumption DEF GSTypeOK, Called, Blocks, Segs, LastSeg, Issuing

\* A call is queued behind the others.
LEMMA CalledMore ==
    ASSUME GSTypeOK, IssueCall, NEW b \in Blocks, NEW g \in Segs
    PROVE  /\ Called(b, g)' = IF b = issued /\ g = seg THEN Called(b, g) + 1
                              ELSE Called(b, g)
           /\ b = issued /\ g = seg => Called(b, g) = loop
<1>1. /\ issued \in Nat /\ filled \in Nat /\ loop \in 0 .. 2 /\ seg \in 0 .. LastSeg /\ b \in Int
      /\ g \in 0 .. LastSeg /\ LastSeg \in Nat
  BY StreamsAssumption DEF GSTypeOK, Blocks, Segs, LastSeg
<1>2. CASE seg < LastSeg
  BY <1>1, <1>2 DEF IssueCall, Called
<1>3. CASE ~ (seg < LastSeg) /\ loop < 2
  BY <1>1, <1>3 DEF IssueCall, Called
<1>4. CASE ~ (seg < LastSeg) /\ ~ (loop < 2)
  BY <1>1, <1>4 DEF IssueCall, Called
<1> QED
  BY <1>2, <1>3, <1>4

\* Only a call changes what is queued.
LEMMA CalledSame ==
    ASSUME UNCHANGED callVars, NEW b, NEW g
    PROVE  Called(b, g)' = Called(b, g)
BY DEF callVars, Called

\* What a step of the device does to the counts.
LEMMA RanMore ==
    ASSUME GSTypeOK, NEW b \in Blocks, NEW g \in Segs, DeviceRun(b, g)
    PROVE  /\ ran[b][g] \in 0 .. 2 /\ ran[b][g] < Called(b, g)
           /\ ran' \in [Blocks -> [Segs -> 0 .. 3]]
           /\ \A c \in Blocks, h \in Segs :
                 ran'[c][h] = IF c = b /\ h = g THEN ran[c][h] + 1 ELSE ran[c][h]
<1>1. /\ ran \in [Blocks -> [Segs -> 0 .. 3]]
      /\ ran' = [ran EXCEPT ![b][g] = @ + 1]
      /\ ran[b][g] < Called(b, g)
  BY DEF DeviceRun, Runnable, GSTypeOK
<1>2. Called(b, g) \in 0 .. 3
  BY CalledTyped
<1>3. ran[b][g] \in 0 .. 3
  BY <1>1
<1>4. ran[b][g] \in 0 .. 2
  BY <1>1, <1>2, <1>3
<1> QED
  BY <1>1, <1>4

\* The next operation of a segment is known from how many have run.
LEMMA OperationIs ==
    ASSUME GSTypeOK, NEW b \in Blocks, NEW g \in Segs, DeviceRun(b, g)
    PROVE  \/ ran[b][g] = 0 /\ CopyIn(b, g)
           \/ ran[b][g] = 1 /\ Kernel(b, g)
           \/ ran[b][g] = 2 /\ CopyOut(b, g)
<1>1. ran[b][g] \in 0 .. 2
  BY RanMore
<1>2. Kinds[1] = "h2d" /\ Kinds[2] = "kernel" /\ Kinds[3] = "d2h"
  BY DEF Kinds
<1>3. /\ CopyIn(b, g) => Kinds[ran[b][g] + 1] = "h2d"
      /\ Kernel(b, g) => Kinds[ran[b][g] + 1] = "kernel"
      /\ CopyOut(b, g) => Kinds[ran[b][g] + 1] = "d2h"
      /\ CopyIn(b, g) \/ Kernel(b, g) \/ CopyOut(b, g)
  BY DEF CopyIn, Kernel, CopyOut, DeviceRun
<1>4. CASE ran[b][g] = 0
  BY <1>2, <1>3, <1>4
<1>5. CASE ran[b][g] = 1
  BY <1>2, <1>3, <1>5
<1>6. CASE ran[b][g] = 2
  BY <1>2, <1>3, <1>6
<1> QED
  BY <1>1, <1>4, <1>5, <1>6

\* Once the last stream of the next slot is found done, all operations of
\* that stream on the block have run.
LEMMA FinishedIs ==
    ASSUME GSTypeOK, QueueInv, Take
    PROVE  taken \in Blocks /\ taken < issued /\ ran[taken][LastSeg] = 3
<1>1. taken < issued /\ ~ Outstanding(SlotOf(taken), LastSeg)
  BY DEF Take, Finished
<1>2. taken \in Blocks /\ LastSeg \in Segs
  BY <1>1, StreamsAssumption DEF GSTypeOK, Blocks, LastSeg, Segs
<1>3. ~ (ran[taken][LastSeg] < Called(taken, LastSeg))
  BY <1>1, <1>2 DEF Outstanding
<1>4. Called(taken, LastSeg) = 3
  BY <1>1, <1>2, CalledTyped
<1>5. ran[taken][LastSeg] \in 0 .. 3
  BY <1>2 DEF GSTypeOK
<1> QED
  BY <1>1, <1>2, <1>3, <1>4, <1>5

-----------------------------------------------------------------------------
(* The invariant is inductive.                                             *)

LEMMA InvInit == GSInit => GSInv
<1> SUFFICES ASSUME GSInit PROVE GSInv
  OBVIOUS
<1>1. /\ NumBlocks \in Nat /\ NumSlots \in Nat /\ NumSegs \in Nat
      /\ NumBlocks > 0 /\ NumSlots > 0 /\ NumSegs > 0
  BY StreamsAssumption
<1>2. GSTypeOK
  BY <1>1 DEF GSInit, GSTypeOK, Issuing, Segs, NoBlock
<1>3. QueueInv
  BY <1>1 DEF GSInit, QueueInv, Called, Segs, Blocks
<1>5. StreamInv
  BY DEF GSInit, StreamInv
<1>4. BufInv /\ DataInv /\ LastInv /\ TokensOfTheirBlock
  BY <1>1 DEF GSInit, BufInv, DataInv, SegmentInv, LastInv, TokensOfTheirBlock, Segs,
              LastSeg, Blocks
<1> QED
  BY <1>2, <1>3, <1>4, <1>5 DEF GSInv

LEMMA FillSlotKeeps == ASSUME GSInv, FillSlot PROVE GSInv'
<1>1. /\ filled < NumBlocks /\ filled < taken + NumSlots /\ filled' = filled + 1
      /\ buf' = [buf EXCEPT ![SlotOf(filled)] = [g \in Segs |-> filled]]
      /\ UNCHANGED <<issued, loop, seg, taken, tokens, ran, in_d, out_d, bufout,
                     crossed, late>>
  BY DEF FillSlot, callVars, historyVars
<1>2. GSTypeOK /\ filled \in Nat /\ taken \in Nat /\ NumSlots \in Nat
  BY StreamsAssumption DEF GSInv, GSTypeOK
<1>3. SlotOf(filled) \in Slots
  BY <1>2, SlotInRange
<1>4. GSTypeOK'
  BY <1>1, <1>2, <1>3, StreamsAssumption DEF GSTypeOK, Issuing
<1>5. QueueInv' /\ StreamInv'
  BY <1>1 DEF GSInv, QueueInv, StreamInv, Called
<1>6. BufInv'
  <2> SUFFICES ASSUME NEW b \in taken .. filled, NEW g \in Segs
               PROVE  buf'[SlotOf(b)][g] = b
    BY <1>1, <1>2 DEF BufInv
  <2>1. SlotOf(b) \in Slots
    BY <1>2, SlotInRange
  <2>2. CASE b = filled
    BY <1>1, <1>2, <1>3, <2>2 DEF GSTypeOK
  <2>3. CASE b # filled
    <3>1. SlotOf(b) # SlotOf(filled)
      BY <1>1, <1>2, <2>3, SlotsDiffer
    <3>2. buf[SlotOf(b)][g] = b
      BY <1>2, <2>3 DEF GSInv, BufInv
    <3> QED
      BY <1>1, <1>2, <2>1, <3>1, <3>2 DEF GSTypeOK
  <2> QED
    BY <2>2, <2>3
<1>7. DataInv' /\ LastInv' /\ TokensOfTheirBlock'
  BY <1>1 DEF GSInv, DataInv, SegmentInv, LastInv, TokensOfTheirBlock, Harm
<1> QED
  BY <1>4, <1>5, <1>6, <1>7 DEF GSInv

LEMMA IssueKeeps == ASSUME GSInv, IssueCall PROVE GSInv'
<1>1. UNCHANGED <<filled, taken, tokens, ran, buf, in_d, out_d, bufout, crossed, late>>
  BY DEF IssueCall, historyVars
<1>2. GSTypeOK
  BY DEF GSInv
<1>3. GSTypeOK'
  <2>1. /\ issued \in Nat /\ filled \in Nat /\ issued < filled /\ loop \in 0 .. 2
        /\ seg \in 0 .. NumSegs - 1 /\ NumSegs \in Nat \ {0} /\ LastSeg = NumSegs - 1
    BY <1>2, StreamsAssumption DEF GSTypeOK, IssueCall, Segs, LastSeg
  <2>2. /\ issued' \in 0 .. filled /\ issued' >= issued
        /\ loop' \in 0 .. 2 /\ seg' \in 0 .. NumSegs - 1
        /\ loop' > 0 \/ seg' > 0 => issued' < filled
    BY <2>1 DEF IssueCall
  <2> QED
    BY <1>1, <1>2, <2>1, <2>2 DEF GSTypeOK, Issuing, Segs
<1>4. QueueInv'
  <2> SUFFICES ASSUME NEW b \in Blocks, NEW g \in Segs
               PROVE  ran[b][g] <= Called(b, g)'
    BY <1>1 DEF QueueInv
  <2>1. ran[b][g] <= Called(b, g) /\ ran[b][g] \in 0 .. 3 /\ Called(b, g) \in 0 .. 3
    BY <1>2, CalledTyped DEF GSInv, QueueInv, GSTypeOK
  <2>2. Called(b, g)' \in {Called(b, g), Called(b, g) + 1}
    BY <1>2, CalledMore
  <2> QED
    BY <2>1, <2>2
<1>5. StreamInv' /\ BufInv' /\ DataInv' /\ LastInv' /\ TokensOfTheirBlock'
  BY <1>1 DEF GSInv, StreamInv, BufInv, DataInv, SegmentInv, LastInv, TokensOfTheirBlock, Harm
<1> QED
  BY <1>3, <1>4, <1>5 DEF GSInv

LEMMA TakeKeeps == ASSUME GSInv, Take PROVE GSInv'
<1>1. /\ taken < issued /\ taken' = taken + 1
      /\ tokens' = Append(tokens, bufout[SlotOf(taken)])
      /\ buf' = [buf EXCEPT ![SlotOf(taken)] = [g \in Segs |-> NoBlock]]
      /\ UNCHANGED <<filled, issued, loop, seg, ran, in_d, out_d, bufout, crossed, late>>
  BY DEF Take, callVars, historyVars
<1>2. /\ GSTypeOK /\ filled \in Nat /\ taken \in Nat /\ NumSlots \in Nat /\ issued \in Nat
      /\ issued <= filled /\ filled <= NumBlocks /\ NumBlocks \in Nat
  BY StreamsAssumption DEF GSInv, GSTypeOK
<1>3. SlotOf(taken) \in Slots
  BY <1>2, SlotInRange
<1>4. taken \in Blocks /\ ran[taken][LastSeg] = 3
  BY FinishedIs DEF GSInv
<1>5. bufout[SlotOf(taken)] \in [Segs -> Int]
  BY <1>2, <1>3 DEF GSTypeOK
<1>6. [g \in Segs |-> NoBlock] \in [Segs -> Int]
  BY DEF NoBlock
<1>7. GSTypeOK'
  <2>1. tokens' \in Seq([Segs -> Int]) /\ Len(tokens') = taken + 1
    BY <1>1, <1>2, <1>5 DEF GSTypeOK
  <2>2. buf' \in [Slots -> [Segs -> Int]]
    BY <1>1, <1>2, <1>3, <1>6 DEF GSTypeOK
  <2> QED
    BY <1>1, <1>2, <2>1, <2>2 DEF GSTypeOK, Issuing
<1>8. QueueInv' /\ StreamInv'
  BY <1>1 DEF GSInv, QueueInv, StreamInv, Called
<1>9. BufInv'
  <2> SUFFICES ASSUME NEW b \in taken + 1 .. filled - 1, NEW g \in Segs
               PROVE  buf'[SlotOf(b)][g] = b
    BY <1>1, <1>2 DEF BufInv
  <2>1. SlotOf(b) \in Slots
    BY <1>2, SlotInRange
  <2>2. SlotOf(b) # SlotOf(taken)
    BY <1>2, SlotsDiffer DEF GSTypeOK
  <2>3. buf[SlotOf(b)][g] = b
    BY <1>2 DEF GSInv, BufInv
  <2> QED
    BY <1>1, <1>2, <2>1, <2>2, <2>3 DEF GSTypeOK
<1>10. DataInv'
  <2> SUFFICES ASSUME NEW b \in Blocks, NEW g \in Segs, <<b, g>> \notin Harm'
               PROVE  SegmentInv(b, g)'
    BY DEF DataInv
  <2>1. SegmentInv(b, g)
    BY <1>1 DEF GSInv, DataInv, Harm
  <2>2. taken + 1 <= b => taken <= b
    BY <1>2 DEF Blocks
  <2> QED
    BY <1>1, <2>1, <2>2 DEF SegmentInv
<1>11. LastInv'
  BY <1>1, <1>2, <1>4 DEF GSInv, LastInv
<1>12. TokensOfTheirBlock'
  <2> SUFFICES ASSUME NEW b \in 0 .. taken, NEW g \in Segs
               PROVE  tokens'[b + 1][g] = b \/ <<b, g>> \in Harm
    <3>1. taken' - 1 = taken /\ Harm' = Harm /\ Harm = crossed \cup late
      BY <1>1, <1>2 DEF Harm
    <3> QED
      BY <3>1 DEF TokensOfTheirBlock, Harm
  <2>1. CASE b = taken
    <3>1. tokens'[b + 1] = bufout[SlotOf(taken)]
      BY <1>1, <1>2, <2>1 DEF GSTypeOK
    <3>2. <<taken, g>> \in Harm \/ (ran[taken][g] = 3 /\ SegmentInv(taken, g))
      <4>1. ran[taken][g] = 3 \/ <<taken, g>> \in late
        BY <1>4 DEF GSInv, LastInv
      <4>2. <<taken, g>> \in Harm \/ SegmentInv(taken, g)
        BY <1>4 DEF GSInv, DataInv
      <4>3. ran[taken][g] = 3 \/ <<taken, g>> \in Harm
        BY <4>1 DEF Harm
      <4> QED
        BY <4>2, <4>3
    <3> QED
      BY <1>2, <2>1, <3>1, <3>2 DEF SegmentInv
  <2>2. CASE b # taken
    <3>1. b \in 0 .. taken - 1
      BY <1>2, <2>2
    <3>2. tokens'[b + 1] = tokens[b + 1]
      BY <1>1, <1>2, <3>1 DEF GSTypeOK
    <3> QED
      BY <3>1, <3>2 DEF GSInv, TokensOfTheirBlock, Harm
  <2> QED
    BY <2>1, <2>2
<1> QED
  BY <1>7, <1>8, <1>9, <1>10, <1>11, <1>12 DEF GSInv

\* No operation disturbs tokens that wait in the host's buffer: of a later
\* block it cannot run yet, of an earlier one it has run before.
LEMMA StreamTurn ==
    ASSUME GSInv, NEW b \in Blocks, NEW g \in Segs, DeviceRun(b, g),
           NEW c \in Blocks, c # b, taken <= c, SlotOf(c) = SlotOf(b)
    PROVE  ran[c][g] # 3
<1>1. /\ GSTypeOK /\ b \in Nat /\ c \in Nat /\ taken \in Nat /\ filled \in Nat
      /\ NumSlots \in Nat /\ filled <= taken + NumSlots
  BY StreamsAssumption DEF GSInv, GSTypeOK, Blocks
<1>2. ran[b][g] < Called(b, g) /\ ran[b][g] \in 0 .. 2 /\ Called(b, g) \in 0 .. 3
  BY <1>1, RanMore, CalledTyped
<1>3. b < filled
  BY <1>1, <1>2, CalledTyped
<1>4. CASE b < c
  BY <1>2, <1>4 DEF GSInv, StreamInv
<1>5. CASE c < b
  BY <1>1, <1>3, <1>5, SlotsDiffer
<1> QED
  BY <1>1, <1>4, <1>5

LEMMA RunKeeps ==
    ASSUME GSInv, NEW b \in Blocks, NEW g \in Segs, DeviceRun(b, g)
    PROVE  GSInv'
<1>1. /\ GSTypeOK /\ b \in Nat /\ taken \in Nat /\ filled \in Nat
      /\ NumSlots \in Nat /\ filled <= taken + NumSlots
  BY StreamsAssumption DEF GSInv, GSTypeOK, Blocks
<1>2. UNCHANGED <<filled, issued, loop, seg, taken, tokens, buf>>
  BY DEF DeviceRun, callVars
<1>3. /\ ran[b][g] \in 0 .. 2 /\ ran[b][g] < Called(b, g)
      /\ ran' \in [Blocks -> [Segs -> 0 .. 3]]
      /\ \A c \in Blocks, h \in Segs :
            ran'[c][h] = IF c = b /\ h = g THEN ran[c][h] + 1 ELSE ran[c][h]
  BY <1>1, RanMore
<1>4. \/ ran[b][g] = 0 /\ CopyIn(b, g)
      \/ ran[b][g] = 1 /\ Kernel(b, g)
      \/ ran[b][g] = 2 /\ CopyOut(b, g)
  BY <1>1, OperationIs
<1>5. SlotOf(b) \in Slots /\ Called(b, g) \in 0 .. 3
  BY <1>1, SlotInRange, CalledTyped
<1>6. b < filled
  BY <1>1, <1>3, <1>5, CalledTyped
<1>7. Harm \subseteq Harm' /\ late \subseteq late'
  BY <1>4 DEF CopyIn, Kernel, CopyOut, Harm, historyVars
<1>8. GSTypeOK'
  <2>1. /\ in_d' \in [Segs -> Int] /\ out_d' \in [Segs -> Int]
        /\ bufout' \in [Slots -> [Segs -> Int]]
    <3>1. /\ in_d \in [Segs -> Int] /\ out_d \in [Segs -> Int]
          /\ bufout \in [Slots -> [Segs -> Int]] /\ buf \in [Slots -> [Segs -> Int]]
      BY <1>1 DEF GSTypeOK
    <3>2. CASE CopyIn(b, g)
      BY <1>5, <3>1, <3>2 DEF CopyIn
    <3>3. CASE Kernel(b, g)
      BY <3>1, <3>3 DEF Kernel
    <3>4. CASE CopyOut(b, g)
      BY <1>5, <3>1, <3>4 DEF CopyOut
    <3> QED
      BY <1>4, <3>2, <3>3, <3>4
  <2> QED
    BY <1>1, <1>2, <1>3, <2>1 DEF GSTypeOK, Issuing
<1>9. QueueInv'
  <2> SUFFICES ASSUME NEW c \in Blocks, NEW h \in Segs
               PROVE  ran'[c][h] <= Called(c, h)'
    BY DEF QueueInv
  <2>1. Called(c, h)' = Called(c, h) /\ Called(c, h) \in 0 .. 3
    BY <1>1, <1>2, CalledSame, CalledTyped DEF callVars
  <2>2. ran[c][h] <= Called(c, h)
    BY DEF GSInv, QueueInv
  <2> QED
    BY <1>3, <1>5, <2>1, <2>2
<1>10. StreamInv'
  <2> SUFFICES ASSUME NEW c \in Blocks, NEW d \in Blocks, c < d, SlotOf(c) = SlotOf(d),
                      NEW h \in Segs, ran'[d][h] > 0
               PROVE  ran'[c][h] = 3
    BY DEF StreamInv
  <2>1. CASE d = b /\ h = g
    <3>1. ran[c][h] = 3
      BY <2>1 DEF DeviceRun, Runnable
    <3> QED
      BY <1>3, <2>1, <3>1 DEF Blocks
  <2>2. CASE ~ (d = b /\ h = g)
    <3>1. ran[c][h] = 3
      BY <1>3, <2>2 DEF GSInv, StreamInv
    <3> QED
      BY <1>3, <3>1
  <2> QED
    BY <2>1, <2>2
<1>11. BufInv'
  BY <1>2 DEF GSInv, BufInv
<1>12. LastInv'
  <2>1. \A c \in 0 .. taken - 1 : ran'[c][LastSeg] = 3
    <3> SUFFICES ASSUME NEW c \in 0 .. taken - 1 PROVE ran'[c][LastSeg] = 3
      OBVIOUS
    <3>1. c \in Blocks /\ LastSeg \in Segs
      BY <1>1, StreamsAssumption DEF GSTypeOK, Blocks, Segs, LastSeg
    <3>2. ran[c][LastSeg] = 3
      BY DEF GSInv, LastInv
    <3> QED
      BY <1>3, <3>1, <3>2
  <2>2. ASSUME NEW c \in Blocks, NEW h \in Segs, ran'[c][LastSeg] = 3
        PROVE  ran'[c][h] = 3 \/ <<c, h>> \in late'
    <3>0. LastSeg \in Segs /\ ran[c][h] \in 0 .. 3
      BY <1>1, StreamsAssumption DEF Segs, LastSeg, GSTypeOK
    <3>1. CASE c = b /\ g = LastSeg
      <4>1. ran[b][g] = 2 /\ CopyOut(b, g)
        BY <1>3, <1>4, <2>2, <3>0, <3>1
      <4>2. h # g /\ ran[b][h] < 3 => <<b, h>> \in late'
        BY <3>1, <4>1 DEF CopyOut
      <4>3. CASE h = g
        BY <2>2, <3>1, <4>3
      <4>4. CASE h # g
        BY <1>3, <3>0, <3>1, <4>2, <4>4
      <4> QED
        BY <4>3, <4>4
    <3>2. CASE ~ (c = b /\ g = LastSeg)
      <4>1. ran[c][LastSeg] = 3
        BY <1>3, <2>2, <3>0, <3>2
      <4>2. ran[c][h] = 3 \/ <<c, h>> \in late
        BY <4>1 DEF GSInv, LastInv
      <4> QED
        BY <1>3, <1>7, <4>2
    <3> QED
      BY <3>1, <3>2
  <2> QED
    BY <1>2, <2>1, <2>2 DEF LastInv
<1>13. DataInv'
  <2> SUFFICES ASSUME NEW c \in Blocks, NEW h \in Segs, <<c, h>> \notin Harm'
               PROVE  SegmentInv(c, h)'
    BY DEF DataInv
  <2>1. <<c, h>> \notin Harm /\ SegmentInv(c, h)
    BY <1>7 DEF GSInv, DataInv
  <2>2. c \in Nat /\ SlotOf(c) \in Slots
    BY SlotInRange DEF Blocks
  <2>3. CASE h # g
    <3>1. /\ ran'[c][h] = ran[c][h] /\ in_d'[h] = in_d[h] /\ out_d'[h] = out_d[h]
          /\ bufout'[SlotOf(c)][h] = bufout[SlotOf(c)][h]
      <4>1. /\ in_d \in [Segs -> Int] /\ out_d \in [Segs -> Int]
            /\ bufout \in [Slots -> [Segs -> Int]]
        BY <1>1 DEF GSTypeOK
      <4>2. CASE CopyIn(b, g)
        BY <1>3, <2>3, <4>1, <4>2 DEF CopyIn
      <4>3. CASE Kernel(b, g)
        BY <1>3, <2>3, <4>1, <4>3 DEF Kernel
      <4>4. CASE CopyOut(b, g)
        BY <1>3, <1>5, <2>2, <2>3, <4>1, <4>4 DEF CopyOut
      <4> QED
        BY <1>4, <4>2, <4>3, <4>4
    <3> QED
      BY <1>2, <2>1, <3>1 DEF SegmentInv
  <2>4. CASE h = g /\ c = b
    <3>1. taken <= b \/ ran[b][g] = 3 \/ <<b, g>> \in late
      BY <1>1 DEF GSInv, LastInv
    <3>2. taken <= b
      BY <1>3, <2>1, <2>4, <3>1 DEF Harm
    <3>3. buf[SlotOf(b)][g] = b
      BY <1>1, <1>6, <3>2 DEF GSInv, BufInv
    <3>4. CASE ran[b][g] = 0 /\ CopyIn(b, g)
      BY <1>1, <1>3, <2>4, <3>3, <3>4 DEF SegmentInv, CopyIn, GSTypeOK
    <3>5. CASE ran[b][g] = 1 /\ Kernel(b, g)
      BY <1>1, <1>3, <2>1, <2>4, <3>5 DEF SegmentInv, Kernel, GSTypeOK
    <3>6. CASE ran[b][g] = 2 /\ CopyOut(b, g)
      BY <1>1, <1>3, <1>5, <2>1, <2>4, <3>6 DEF SegmentInv, CopyOut, GSTypeOK
    <3> QED
      BY <1>4, <3>4, <3>5, <3>6
  <2>5. CASE h = g /\ c # b
    <3>1. ran'[c][h] = ran[c][h]
      BY <1>3, <2>5
    <3>2. CASE CopyIn(b, g)
      <4>1. ran[c][h] \notin {1, 2}
        BY <2>1, <2>5, <3>2 DEF CopyIn, OnDevice, Harm
      <4> QED
        BY <1>2, <2>1, <3>1, <3>2, <4>1 DEF SegmentInv, CopyIn
    <3>3. CASE Kernel(b, g)
      BY <1>1, <1>2, <2>1, <2>5, <3>1, <3>3 DEF SegmentInv, Kernel, GSTypeOK
    <3>4. CASE CopyOut(b, g)
      <4>1. ran[c][h] = 3 /\ taken <= c => SlotOf(c) # SlotOf(b)
        BY <2>5, StreamTurn
      <4>2. ran[c][h] = 3 /\ taken <= c =>
               bufout'[SlotOf(c)][h] = bufout[SlotOf(c)][h]
        BY <1>1, <1>5, <2>2, <3>4, <4>1 DEF CopyOut, GSTypeOK
      <4> QED
        BY <1>2, <2>1, <3>1, <3>4, <4>2 DEF SegmentInv, CopyOut
    <3> QED
      BY <1>4, <3>2, <3>3, <3>4
  <2> QED
    BY <2>3, <2>4, <2>5
<1>14. TokensOfTheirBlock'
  BY <1>2, <1>7 DEF GSInv, TokensOfTheirBlock, Harm
<1> QED
  BY <1>8, <1>9, <1>10, <1>11, <1>12, <1>13, <1>14 DEF GSInv

LEMMA InvStep == GSInv /\ [GSNext]_gsVars => GSInv'
<1> SUFFICES ASSUME GSInv, [GSNext]_gsVars PROVE GSInv'
  OBVIOUS
<1>1. CASE FillSlot
  BY <1>1, FillSlotKeeps
<1>2. CASE IssueCall
  BY <1>2, IssueKeeps
<1>3. CASE Take
  BY <1>3, TakeKeeps
<1>4. CASE \E b \in Blocks, g \in Segs : DeviceRun(b, g)
  BY <1>4, RunKeeps
<1>5. CASE UNCHANGED gsVars
  BY <1>5 DEF gsVars, callVars, historyVars, GSInv, GSTypeOK, QueueInv, StreamInv, BufInv,
              DataInv, SegmentInv, LastInv, TokensOfTheirBlock, Harm, Called, Issuing
<1> QED
  BY <1>1, <1>2, <1>3, <1>4, <1>5 DEF GSNext

-----------------------------------------------------------------------------
(* The theorems about the tokens.                                          *)

\* The invariant holds.
THEOREM InvariantHolds == GSSpec => []GSInv
<1> QED
  BY InvInit, InvStep, PTL DEF GSSpec

\* Whatever the order in which streams run, the tokens of a segment are those
\* of its block, but for the two causes named.
THEOREM TokensRight == GSSpec => []TokensOfTheirBlock
<1>1. GSInv => TokensOfTheirBlock
  BY DEF GSInv
<1> QED
  BY <1>1, InvariantHolds, PTL

\* Of a packed block only late segments have operations left.
THEOREM QueueClean == GSSpec => []NothingLeftBehind
<1>1. ASSUME GSInv PROVE NothingLeftBehind
  <2>1. 0 .. taken - 1 \subseteq Blocks
    BY <1>1, StreamsAssumption DEF GSInv, GSTypeOK, Blocks
  <2> QED
    BY <1>1, <2>1 DEF GSInv, LastInv, NothingLeftBehind
<1> QED
  BY <1>1, InvariantHolds, PTL

-----------------------------------------------------------------------------
(* The streams are the atomic device.                                      *)

AbsBuf == [s \in Slots |-> Whole(buf[s])]
AbsBufout == [s \in Slots |-> IF Busy(s) THEN NoBlock ELSE Whole(bufout[s])]
AbsStream == [s \in Slots |-> IF Busy(s) THEN "busy" ELSE "idle"]

LEMMA WholeIs ==
    ASSUME NEW f, NEW x, \A g \in Segs : f[g] = x
    PROVE  Whole(f) = x
<1>1. 0 \in Segs
  BY StreamsAssumption DEF Segs
<1> QED
  BY <1>1 DEF Whole

LEMMA DeviceInit == GSInit => Device!SDInit
<1> SUFFICES ASSUME GSInit PROVE Device!SDInit
  OBVIOUS
<1>1. \A s \in Slots : Whole(buf[s]) = NoBlock /\ Whole(bufout[s]) = NoBlock
  <2> SUFFICES ASSUME NEW s \in Slots
               PROVE  Whole(buf[s]) = NoBlock /\ Whole(bufout[s]) = NoBlock
    OBVIOUS
  <2>1. \A g \in Segs : buf[s][g] = NoBlock /\ bufout[s][g] = NoBlock
    BY DEF GSInit
  <2> QED
    BY <2>1, WholeIs
<1>2. Begun = 0
  BY DEF GSInit, Begun, Issuing
<1>3. \A s \in Slots : ~ Busy(s)
  <2>1. \A b \in Blocks, g \in Segs : Called(b, g) = 0 /\ ran[b][g] = 0
    BY StreamsAssumption DEF GSInit, Called, Blocks, Segs
  <2> QED
    BY <2>1 DEF GSInit, Busy, Outstanding, Issuing
<1>4. (crossed \cup late = {}) = TRUE
  BY DEF GSInit
<1> QED
  BY <1>1, <1>2, <1>3, <1>4 DEF GSInit, Device!SDInit, Device!NoBlock, NoBlock, Slots

LEMMA RefineFill ==
    ASSUME GSInv, FillSlot PROVE Device!SDFill
<1>1. /\ filled < NumBlocks /\ filled < taken + NumSlots /\ filled' = filled + 1
      /\ buf' = [buf EXCEPT ![SlotOf(filled)] = [g \in Segs |-> filled]]
      /\ UNCHANGED <<issued, loop, seg, taken, ran, bufout>>
  BY DEF FillSlot, callVars
<1>2. SlotOf(filled) \in Slots
  BY SlotInRange DEF GSInv, GSTypeOK
<1>3. Whole([g \in Segs |-> filled]) = filled
  BY WholeIs
<1>4. AbsBuf' = [AbsBuf EXCEPT ![SlotOf(filled)] = filled]
  BY <1>1, <1>2, <1>3 DEF AbsBuf, GSInv, GSTypeOK
<1>5. \A s \in Slots : Busy(s)' <=> Busy(s)
  BY <1>1 DEF Busy, Outstanding, Called, Issuing
<1>6. AbsBufout' = AbsBufout /\ AbsStream' = AbsStream /\ Begun' = Begun
  BY <1>1, <1>5 DEF AbsBufout, AbsStream, Begun, Issuing
<1> QED
  BY <1>1, <1>4, <1>6
     DEF Device!SDFill, Device!SlotOf, SlotOf, AbsBuf, AbsBufout, AbsStream

\* A call makes its slot busy, whatever the device has run, and no other.
LEMMA BusyIssue ==
    ASSUME GSInv, IssueCall, NEW b \in Blocks, b = issued, NEW s \in Slots
    PROVE  Busy(s)' <=> Busy(s) \/ s = SlotOf(b)
<1>1. GSTypeOK /\ ran' = ran
  BY DEF GSInv, IssueCall
<1>2. PICK h \in Segs : h = seg
  BY <1>1 DEF GSTypeOK
<1>3. \A c \in Blocks, g \in Segs :
        Called(c, g)' = IF c = b /\ g = h THEN Called(c, g) + 1 ELSE Called(c, g)
  BY <1>1, <1>2, CalledMore
<1>4. ran[b][h] <= Called(b, h) /\ ran[b][h] \in 0 .. 3 /\ Called(b, h) \in 0 .. 3
  BY <1>1, CalledTyped DEF GSInv, QueueInv, GSTypeOK
<1>5. ran'[b][h] < Called(b, h)'
  BY <1>1, <1>3, <1>4
<1>6. CASE s = SlotOf(b)
  BY <1>5, <1>6 DEF Busy, Outstanding
<1>7. CASE s # SlotOf(b)
  <2>1. \A g \in Segs : Outstanding(s, g)' <=> Outstanding(s, g)
    BY <1>1, <1>3, <1>7 DEF Outstanding
  <2>2. Issuing' => issued' = b
    BY DEF IssueCall, Issuing
  <2> QED
    BY <1>7, <2>1, <2>2 DEF Busy
<1> QED
  BY <1>6, <1>7

LEMMA RefineIssue ==
    ASSUME GSInv, IssueCall
    PROVE  Device!SDIssue \/ UNCHANGED <<filled, Begun, taken, AbsBuf, AbsBufout, AbsStream>>
<1>1. /\ GSTypeOK /\ issued < filled /\ issued \in Blocks /\ issued \in Nat
      /\ UNCHANGED <<filled, taken, ran, buf, bufout>>
  BY StreamsAssumption DEF GSInv, GSTypeOK, IssueCall, Blocks
<1>2. PICK b \in Blocks : b = issued
  BY <1>1
<1>3. \A s \in Slots : Busy(s)' <=> Busy(s) \/ s = SlotOf(b)
  BY <1>2, BusyIssue
<1>4. AbsBuf' = AbsBuf
  BY <1>1 DEF AbsBuf
<1>5. /\ Issuing => Begun' = Begun
      /\ ~ Issuing => Begun' = Begun + 1 /\ Begun = b
  BY <1>1, <1>2, StreamsAssumption
     DEF IssueCall, Issuing, Begun, GSTypeOK, Segs, LastSeg
<1>6. CASE Issuing
  <2>1. \A s \in Slots : Busy(s)' <=> Busy(s)
    BY <1>2, <1>3, <1>6 DEF Busy
  <2> QED
    BY <1>1, <1>4, <1>5, <1>6, <2>1 DEF AbsBufout, AbsStream
<1>7. CASE ~ Issuing
  <2>1. SlotOf(b) \in Slots
    BY <1>1, <1>2, SlotInRange
  <2>2. AbsStream' = [AbsStream EXCEPT ![SlotOf(b)] = "busy"]
    BY <1>3, <2>1 DEF AbsStream
  <2>3. AbsBufout' = [AbsBufout EXCEPT ![SlotOf(b)] = NoBlock]
    BY <1>1, <1>3, <2>1 DEF AbsBufout
  <2> QED
    BY <1>1, <1>2, <1>4, <1>5, <1>7, <2>2, <2>3
       DEF Device!SDIssue, Device!SlotOf, SlotOf, AbsBuf, AbsBufout, AbsStream,
           Device!NoBlock, NoBlock
<1> QED
  BY <1>6, <1>7

\* A block in flight is the only one of its slot that can have operations
\* outstanding, if none were left behind.
LEMMA OthersDone ==
    ASSUME GSInv, late = {}, NEW b \in Blocks, taken <= b, b < filled,
           NEW c \in Blocks, c # b, SlotOf(c) = SlotOf(b), NEW g \in Segs
    PROVE  ~ (ran[c][g] < Called(c, g))
<1>1. /\ GSTypeOK /\ b \in Nat /\ c \in Nat /\ taken \in Nat /\ filled \in Nat
      /\ NumSlots \in Nat /\ filled <= taken + NumSlots
  BY StreamsAssumption DEF GSInv, GSTypeOK, Blocks
<1>2. ran[c][g] \in 0 .. 3 /\ Called(c, g) \in 0 .. 3
  BY <1>1, CalledTyped DEF GSTypeOK
<1>3. CASE c < taken
  BY <1>1, <1>2, <1>3 DEF GSInv, LastInv
<1>4. CASE taken <= c
  <2>1. ~ (c < filled)
    BY <1>1, <1>4, SlotsDiffer
  <2>2. ~ (Called(c, g) > 0)
    BY <1>1, <2>1, CalledTyped
  <2> QED
    BY <1>2, <2>2
<1> QED
  BY <1>1, <1>3, <1>4

LEMMA RefineTake ==
    ASSUME GSInv, Take, late = {} PROVE Device!SDTake
<1>1. /\ taken < issued /\ taken' = taken + 1
      /\ buf' = [buf EXCEPT ![SlotOf(taken)] = [g \in Segs |-> NoBlock]]
      /\ UNCHANGED <<filled, issued, loop, seg, ran, bufout>>
  BY DEF Take, callVars
<1>2. /\ GSTypeOK /\ taken \in Nat /\ issued \in Nat /\ filled \in Nat /\ issued <= filled
      /\ filled <= taken + NumSlots /\ NumSlots \in Nat /\ filled <= NumBlocks /\ NumBlocks \in Nat
  BY StreamsAssumption DEF GSInv, GSTypeOK
<1>3. SlotOf(taken) \in Slots /\ taken \in Blocks /\ ran[taken][LastSeg] = 3
  BY <1>2, SlotInRange, FinishedIs DEF GSInv
<1>4. ~ Busy(SlotOf(taken))
  <2>1. ASSUME NEW c \in Blocks, NEW g \in Segs, SlotOf(c) = SlotOf(taken)
        PROVE  ~ (ran[c][g] < Called(c, g))
    <3>1. CASE c = taken
      <4>1. ran[taken][g] = 3
        BY <1>3 DEF GSInv, LastInv
      <4>2. Called(c, g) \in 0 .. 3
        BY <1>2, CalledTyped
      <4> QED
        BY <3>1, <4>1, <4>2
    <3>2. CASE c # taken
      <4>1. PICK b \in Blocks : b = taken
        BY <1>3
      <4>2. b < filled /\ taken <= b
        BY <1>1, <1>2, <4>1
      <4> QED
        BY <2>1, <3>2, <4>1, <4>2, OthersDone
    <3> QED
      BY <3>1, <3>2
  <2>2. Issuing => SlotOf(issued) # SlotOf(taken)
    BY <1>1, <1>2, SlotsDiffer DEF GSTypeOK
  <2> QED
    BY <2>1, <2>2 DEF Busy, Outstanding
<1>5. AbsStream[SlotOf(taken)] = "idle"
  BY <1>3, <1>4 DEF AbsStream
<1>6. Whole([g \in Segs |-> NoBlock]) = NoBlock
  BY WholeIs
<1>7. AbsBuf' = [AbsBuf EXCEPT ![SlotOf(taken)] = NoBlock]
  BY <1>1, <1>2, <1>3, <1>6 DEF AbsBuf, GSTypeOK
<1>8. \A s \in Slots : Busy(s)' <=> Busy(s)
  BY <1>1 DEF Busy, Outstanding, Called, Issuing
<1>9. AbsBufout' = AbsBufout /\ AbsStream' = AbsStream /\ Begun' = Begun
  BY <1>1, <1>8 DEF AbsBufout, AbsStream, Begun, Issuing
<1>10. taken < Begun
  BY <1>1, <1>2 DEF Begun
<1> QED
  BY <1>1, <1>5, <1>7, <1>9, <1>10
     DEF Device!SDTake, Device!SlotOf, SlotOf, AbsBuf, AbsBufout, AbsStream,
         Device!NoBlock, NoBlock

LEMMA RefineRun ==
    ASSUME GSInv, GSInv', NEW b \in Blocks, NEW g \in Segs, DeviceRun(b, g), Harm' = {}
    PROVE  \/ Device!SDRun(SlotOf(b))
           \/ UNCHANGED <<filled, Begun, taken, AbsBuf, AbsBufout, AbsStream>>
<1>1. /\ GSTypeOK /\ b \in Nat /\ taken \in Nat /\ filled \in Nat /\ issued \in Nat
      /\ UNCHANGED <<filled, issued, loop, seg, taken, tokens, buf>>
  BY DEF DeviceRun, callVars, GSInv, GSTypeOK, Blocks
<1>2. /\ ran[b][g] \in 0 .. 2 /\ ran[b][g] < Called(b, g)
      /\ \A c \in Blocks, h \in Segs :
            ran'[c][h] = IF c = b /\ h = g THEN ran[c][h] + 1 ELSE ran[c][h]
  BY <1>1, RanMore
<1>3. \A c \in Blocks, h \in Segs : Called(c, h)' = Called(c, h)
  BY <1>1, CalledSame DEF callVars
<1>4. SlotOf(b) \in Slots /\ Called(b, g) \in 0 .. 3
  BY <1>1, SlotInRange, CalledTyped
<1>5. Busy(SlotOf(b))
  BY <1>2 DEF Busy, Outstanding
<1>6. ASSUME NEW s \in Slots, s # SlotOf(b)
      PROVE  (Busy(s)' <=> Busy(s)) /\ bufout'[s] = bufout[s]
  <2>1. \A h \in Segs : Outstanding(s, h)' <=> Outstanding(s, h)
    BY <1>2, <1>3, <1>6 DEF Outstanding
  <2>2. bufout'[s] = bufout[s]
    <3>1. \/ UNCHANGED bufout
          \/ bufout' = [bufout EXCEPT ![SlotOf(b)][g] = out_d[g]]
      BY DEF DeviceRun, CopyIn, Kernel, CopyOut
    <3> QED
      BY <1>1, <1>6, <3>1 DEF GSTypeOK
  <2> QED
    BY <1>1, <2>1, <2>2 DEF Busy, Issuing
<1>7. AbsBuf' = AbsBuf /\ Begun' = Begun
  BY <1>1 DEF AbsBuf, Begun, Issuing
<1>8. DEFINE t == SlotOf(b)
<1>9. CASE Busy(t)'
  <2>1. \A s \in Slots : /\ Busy(s)' <=> Busy(s)
                         /\ Busy(s) \/ bufout'[s] = bufout[s]
    BY <1>5, <1>6, <1>9
  <2> QED
    BY <1>1, <1>7, <2>1 DEF AbsBufout, AbsStream
<1>10. CASE ~ Busy(t)'
  <2>1. b < filled /\ \A h \in Segs : ran'[b][h] = 3
    <3>1. b < filled
      BY <1>1, <1>2, <1>4, CalledTyped
    <3>2. \A h \in Segs : ~ (ran'[b][h] < Called(b, h))
      BY <1>3, <1>10 DEF Busy, Outstanding
    <3>3. b < issued
      <4>1. b <= issued
        BY <1>1, <1>2, <1>4, CalledTyped
      <4>2. b = issued => Issuing'
        BY <1>1, <1>2, <1>4, StreamsAssumption DEF Called, Issuing, GSTypeOK, Segs
      <4>3. Issuing' => b # issued
        BY <1>1, <1>10 DEF Busy
      <4> QED
        BY <1>1, <4>1, <4>2, <4>3
    <3>4. \A h \in Segs : Called(b, h) = 3 /\ ran'[b][h] \in 0 .. 3
      BY <1>1, <3>3, CalledTyped, RanMore
    <3> QED
      BY <3>1, <3>2, <3>4
  <2>2. taken <= b
    <3>1. late = {}
      BY <1>1, OperationIs DEF CopyIn, Kernel, CopyOut, Harm, historyVars
    <3>2. ASSUME b < taken PROVE FALSE
      <4>1. ran[b][g] = 3
        BY <1>1, <3>1, <3>2 DEF GSInv, LastInv
      <4> QED
        BY <1>2, <4>1
    <3> QED
      BY <1>1, <3>2
  <2>3. \A h \in Segs : bufout'[t][h] = b /\ buf[t][h] = b
    <3> SUFFICES ASSUME NEW h \in Segs PROVE bufout'[t][h] = b /\ buf[t][h] = b
      OBVIOUS
    <3>1. SegmentInv(b, h)'
      BY DEF GSInv, DataInv
    <3>2. bufout'[t][h] = b
      BY <1>1, <2>1, <2>2, <3>1 DEF SegmentInv
    <3>3. buf[t][h] = b
      BY <1>1, <2>1, <2>2 DEF GSInv, BufInv
    <3> QED
      BY <3>2, <3>3
  <2>4. Whole(bufout'[t]) = b /\ Whole(buf[t]) = b
    BY <2>3, WholeIs
  <2>5. AbsStream' = [AbsStream EXCEPT ![t] = "idle"] /\ AbsStream[t] = "busy"
    BY <1>4, <1>5, <1>6, <1>10 DEF AbsStream
  <2>6. AbsBufout' = [AbsBufout EXCEPT ![t] = AbsBuf[t]]
    BY <1>4, <1>6, <1>10, <2>4 DEF AbsBufout, AbsBuf
  <2> QED
    BY <1>1, <1>7, <2>5, <2>6
       DEF Device!SDRun, AbsBuf, AbsBufout, AbsStream
<1> QED
  BY <1>9, <1>10

LEMMA DeviceNext ==
    ASSUME GSInv, GSInv', [GSNext]_gsVars PROVE [Device!SDNext]_(Device!sdVars)
<1>1. CASE Harm' # {}
  BY <1>1 DEF Device!SDNext, Harm
<1>2. CASE Harm' = {}
  <2>1. Harm = {} /\ late = {}
    <3>1. ASSUME NEW b \in Blocks, NEW g \in Segs, DeviceRun(b, g)
          PROVE  crossed \subseteq crossed' /\ late \subseteq late'
      BY <3>1 DEF DeviceRun, CopyIn, Kernel, CopyOut, historyVars
    <3>2. crossed \subseteq crossed' /\ late \subseteq late'
      BY <3>1 DEF GSNext, FillSlot, IssueCall, Take, gsVars, historyVars
    <3> QED
      BY <1>2, <3>2 DEF Harm
  <2>2. (crossed \cup late = {}) /\ (crossed \cup late = {})'
    BY <1>2, <2>1 DEF Harm
  <2>3. Device!SDStep \/ UNCHANGED <<filled, Begun, taken, AbsBuf, AbsBufout, AbsStream>>
    <3>1. CASE FillSlot
      BY <3>1, RefineFill DEF Device!SDStep
    <3>2. CASE IssueCall
      BY <3>2, RefineIssue DEF Device!SDStep
    <3>3. CASE Take
      BY <2>1, <3>3, RefineTake DEF Device!SDStep
    <3>4. ASSUME NEW b \in Blocks, NEW g \in Segs, DeviceRun(b, g)
          PROVE  \/ Device!SDStep
                 \/ UNCHANGED <<filled, Begun, taken, AbsBuf, AbsBufout, AbsStream>>
      <4>1. SlotOf(b) \in 0 .. NumSlots - 1
        BY SlotInRange DEF Slots, Blocks
      <4> QED
        BY <1>2, <3>4, <4>1, RefineRun DEF Device!SDStep
    <3>5. CASE UNCHANGED gsVars
      BY <3>5 DEF gsVars, callVars, Begun, AbsBuf, AbsBufout, AbsStream, Busy, Outstanding,
                  Called, Issuing
    <3> QED
      BY <3>1, <3>2, <3>3, <3>4, <3>5 DEF GSNext
  <2>4. CASE Device!SDStep
    BY <2>2, <2>4 DEF Device!SDNext
  <2>5. CASE UNCHANGED <<filled, Begun, taken, AbsBuf, AbsBufout, AbsStream>>
    BY <2>2, <2>5 DEF Device!sdVars, AbsBuf, AbsBufout, AbsStream
  <2> QED
    BY <2>3, <2>4, <2>5
<1> QED
  BY <1>1, <1>2

\* Until the first step that does harm the streams behave as the atomic
\* device that the proofs about Culzss assume.
THEOREM StreamsAreDevice == GSSpec => ImplementsSlotDevice
<1>1. GSInit => Device!SDInit
  BY DeviceInit
<1>2. GSInv /\ GSInv' /\ [GSNext]_gsVars => [Device!SDNext]_(Device!sdVars)
  BY DeviceNext
<1> QED
  BY <1>1, <1>2, InvariantHolds, PTL DEF GSSpec, ImplementsSlotDevice, Device!SDSpec

-----------------------------------------------------------------------------
(* The inductive invariant.                                                *)

\* The cell of the shared arrays that thread t uses in round r, and the
\* position in the packet it finds a token for.
Cell(t, r) == (t + r * MAX_CODED) % Cyclic
Position(t, r) == r * MAX_CODED + t

\* What stands before the packet's position x once the packet is decoded.
Before(x) == IF x < 0 THEN Blank ELSE Byte(x)

\* The cells of thread t in round r: its own byte and that of the round before,
\* and in all but the last round those of the next one.
RoundData(t, r) ==
    /\ uncodedLookahead[Cell(t, r)] = Byte(Position(t, r))
    /\ slidingWindow[Cell(t, r)] = Before(Position(t, r) - MAX_CODED)
    /\ r + 1 < Rounds =>
          /\ uncodedLookahead[Cell(t, r + 1)] = Byte(Position(t, r + 1))
          /\ slidingWindow[Cell(t, r + 1)] = Byte(Position(t, r))

ThreadData(t) ==
    /\ phase[t] \in {1, 2} => slidingWindow[Cell(t, 0)] = Blank
    /\ phase[t] = 2 =>
          /\ uncodedLookahead[Cell(t, 0)] = Byte(Position(t, 0))
          /\ slidingWindow[Cell(t, 1)] = Byte(Position(t, 0))
    /\ \A r \in 0 .. Rounds - 1 :
          phase[t] \in {EmitPhase(r), EmitPhase(r) + 1} => RoundData(t, r)

KernelOK ==
    stage = "kernel" =>
        /\ block \in Nat
        /\ phase \in [Threads -> 0 .. AfterLast]
        /\ DOMAIN slidingWindow = 0 .. Cyclic - 1
        /\ DOMAIN uncodedLookahead = 0 .. Cyclic - 1
        /\ \A t, u \in Threads : phase[u] <= phase[t] + 1
        /\ \A t \in Threads : ThreadData(t)

IInv ==
    /\ input \in Inputs
    /\ DOMAIN bufferout = 1 .. buf_length
    /\ KernelOK
    /\ TokensDecodable

-----------------------------------------------------------------------------
(* Cells and rounds.                                                       *)

\* The position at which round r begins.
Base(r) == r * MAX_CODED

LEMMA ModUnique ==
    ASSUME NEW m \in Nat \ {0}, NEW b \in 0 .. m - 1, NEW q \in Int
    PROVE  (b + q * m) % m = b
OBVIOUS

LEMMA DivUnique ==
    ASSUME NEW m \in Nat \ {0}, NEW b \in 0 .. m - 1, NEW q \in Int
    PROVE  (q * m + b) \div m = q
OBVIOUS

\* Adding multiples of m changes no remainder.
LEMMA ModShift ==
    ASSUME NEW m \in Nat \ {0}, NEW a \in Int, NEW q \in Int
    PROVE  (a + q * m) % m = a % m
<1> DEFINE b == a % m
           k == a \div m
<1>1. b \in 0 .. m - 1 /\ k \in Int /\ a = k * m + b
  OBVIOUS
<1> HIDE DEF b, k
<1>2. a + q * m = b + (k + q) * m
  <2>1. (k + q) * m = k * m + q * m
    BY <1>1
  <2> QED
    BY <1>1, <2>1
<1>3. k + q \in Int
  BY <1>1
<1>4. (b + (k + q) * m) % m = b
  BY <1>1, <1>3, ModUnique, Zenon
<1> QED
  BY <1>2, <1>4 DEF b

LEMMA Sizes ==
    /\ MAX_CODED \in Nat \ {0} /\ MAX_UNCODED \in Nat \ {0} /\ PCKTSIZE \in Nat \ {0}
    /\ Rounds \in Nat /\ Rounds >= 2
    /\ PCKTSIZE = Base(Rounds)
    /\ Cyclic = 2 * MAX_CODED /\ WINDOW_SIZE = MAX_CODED
<1>1. /\ MAX_CODED \in Nat \ {0} /\ MAX_UNCODED \in Nat \ {0}
      /\ PCKTSIZE \in Nat /\ PCKTSIZE % MAX_CODED = 0
      /\ PCKTSIZE \div MAX_CODED >= 2
  BY SizesAssumption DEF Rounds
<1>2. ASSUME NEW n \in Nat, NEW m \in Nat \ {0}, n % m = 0, n \div m >= 2
      PROVE  n \div m \in Nat /\ n = (n \div m) * m /\ n # 0
  BY <1>2
<1>3. /\ PCKTSIZE \div MAX_CODED \in Nat
      /\ PCKTSIZE = (PCKTSIZE \div MAX_CODED) * MAX_CODED /\ PCKTSIZE # 0
  BY <1>1, <1>2
<1> QED
  BY <1>1, <1>3 DEF Rounds, Base, Cyclic, WINDOW_SIZE

LEMMA BaseNext ==
    ASSUME NEW r \in Int
    PROVE  /\ Base(r) \in Int /\ Base(r + 1) = Base(r) + MAX_CODED
           /\ Base(r - 1) = Base(r) - MAX_CODED
BY Sizes DEF Base

LEMMA BaseOrder ==
    ASSUME NEW r \in Int, NEW s \in Int, r <= s
    PROVE  Base(r) <= Base(s)
<1>1. ASSUME NEW m \in Nat, NEW d \in Nat PROVE d * m >= 0
  BY <1>1
<1>2. s - r \in Nat /\ MAX_CODED \in Nat
  BY Sizes
<1>3. (s - r) * MAX_CODED >= 0
  BY <1>1, <1>2
<1> QED
  BY <1>2, <1>3 DEF Base

\* A position of a packet is one of a round.
LEMMA InPacket ==
    ASSUME NEW r \in 0 .. Rounds - 1, NEW t \in Threads
    PROVE  /\ Base(r) + t \in 0 .. PCKTSIZE - 1
           /\ r + 1 < Rounds => Base(r) + 2 * MAX_CODED <= PCKTSIZE
           /\ r + 1 = Rounds => Base(r) + MAX_CODED = PCKTSIZE
<1>1. /\ Base(r) \in Int /\ Base(r + 1) = Base(r) + MAX_CODED
      /\ Base(r + 1 + 1) = Base(r + 1) + MAX_CODED
  BY BaseNext
<1>2. Base(0) = 0
  BY Sizes DEF Base
<1>3. Base(0) <= Base(r) /\ Base(r + 1) <= Base(Rounds)
  BY BaseOrder, Sizes
<1>4. r + 1 < Rounds => Base(r + 1 + 1) <= Base(Rounds)
  BY BaseOrder, Sizes
<1> QED
  BY <1>1, <1>2, <1>3, <1>4, Sizes DEF Threads

\* The cells of a thread alternate, and no two threads share one.
LEMMA CellFacts ==
    ASSUME NEW t \in Threads, NEW r \in Nat
    PROVE  /\ Cell(t, r) \in {t, t + MAX_CODED}
           /\ Cell(t, r) \in 0 .. Cyclic - 1
           /\ Cell(t, r + 1) \in {t, t + MAX_CODED} /\ Cell(t, r + 1) # Cell(t, r)
           /\ Cell(t, r + 1) = (Cell(t, r) + MAX_CODED) % Cyclic
           /\ Cell(t, 0) = t /\ Cell(t, 1) = t + MAX_CODED
<1> DEFINE m == MAX_CODED
<1>1. m \in Nat \ {0} /\ t \in 0 .. m - 1 /\ Cyclic = 2 * m
  BY Sizes DEF Threads
<1>2. ASSUME NEW k \in Nat
      PROVE  /\ (t + (2 * k) * m) % (2 * m) = t
             /\ (t + (2 * k + 1) * m) % (2 * m) = t + m
  <2>1. 2 * m \in Nat \ {0} /\ t \in 0 .. 2 * m - 1 /\ t + m \in 0 .. 2 * m - 1
    BY <1>1
  <2>2. (t + k * (2 * m)) % (2 * m) = t /\ (t + m + k * (2 * m)) % (2 * m) = t + m
    <3>1. k \in Int
      OBVIOUS
    <3> QED
      BY <2>1, <3>1, ModUnique, Zenon
  <2>3. (2 * k) * m = k * (2 * m) /\ (2 * k + 1) * m = m + k * (2 * m)
    BY <1>1
  <2> QED
    BY <2>2, <2>3, <1>1
<1>3. PICK k \in Nat : r = 2 * k \/ r = 2 * k + 1
  <2>1. r \div 2 \in Nat /\ (r = 2 * (r \div 2) \/ r = 2 * (r \div 2) + 1)
    OBVIOUS
  <2> QED
    BY <2>1
<1>4. \/ Cell(t, r) = t /\ Cell(t, r + 1) = t + m
      \/ Cell(t, r) = t + m /\ Cell(t, r + 1) = t
  <2>1. CASE r = 2 * k
    BY <1>1, <1>2, <2>1 DEF Cell
  <2>2. CASE r = 2 * k + 1
    <3>1. r + 1 = 2 * (k + 1) /\ k + 1 \in Nat
      BY <2>2
    <3> QED
      BY <1>1, <1>2, <2>2, <3>1 DEF Cell
  <2> QED
    BY <1>3, <2>1, <2>2
<1>5. Cell(t, 0) = t /\ Cell(t, 1) = t + m
  BY <1>1, <1>2 DEF Cell
<1>6. (t + m) % (2 * m) = t + m /\ (t + m + m) % (2 * m) = t
  <2>1. 2 * m \in Nat \ {0} /\ t \in 0 .. 2 * m - 1 /\ t + m \in 0 .. 2 * m - 1
    BY <1>1
  <2>2. (t + 1 * (2 * m)) % (2 * m) = t /\ (t + m + 0 * (2 * m)) % (2 * m) = t + m
    <3>1. 0 \in Int /\ 1 \in Int
      OBVIOUS
    <3> QED
      BY <2>1, <3>1, ModUnique, Zenon
  <2> QED
    BY <2>2, <1>1
<1> QED
  BY <1>1, <1>4, <1>5, <1>6

\* The cells that follow a thread's are those of the threads after it, and
\* from the last thread on those of the next round.
LEMMA CellsAhead ==
    ASSUME NEW t \in Threads, NEW r \in Nat, NEW k \in 0 .. MAX_CODED - 1
    PROVE  /\ (Cell(t, r) + k) % Cyclic \in 0 .. Cyclic - 1
           /\ t + k < MAX_CODED =>
                 t + k \in Threads /\ (Cell(t, r) + k) % Cyclic = Cell(t + k, r)
           /\ ~ (t + k < MAX_CODED) =>
                 /\ t + k - MAX_CODED \in Threads
                 /\ (Cell(t, r) + k) % Cyclic = Cell(t + k - MAX_CODED, r + 1)
<1> DEFINE m == MAX_CODED
<1>1. m \in Nat \ {0} /\ t \in 0 .. m - 1 /\ Cyclic = 2 * m /\ Threads = 0 .. m - 1
  BY Sizes DEF Threads
<1>2. ASSUME NEW a \in Int PROVE ((a % Cyclic) + k) % Cyclic = (a + k) % Cyclic
  <2>1. ASSUME NEW x \in Int, NEW c \in Nat \ {0}
        PROVE  ((x % c) + k) % c = (x + k) % c
    <3>1. x = (x % c) + (x \div c) * c /\ x % c \in Int /\ x \div c \in Int
      BY <2>1
    <3>2. (((x % c) + k) + (x \div c) * c) % c = ((x % c) + k) % c
      <4>1. (x % c) + k \in Int
        BY <3>1
      <4> QED
        BY <3>1, <4>1, <2>1, ModShift, Zenon
    <3> QED
      BY <3>1, <3>2
  <2>2. Cyclic \in Nat \ {0}
    BY <1>1
  <2> QED
    BY <2>1, <2>2
<1>3. t + r * m \in Int /\ r * m \in Int
  BY <1>1
<1>4. (Cell(t, r) + k) % Cyclic = (t + r * m + k) % Cyclic
  BY <1>2, <1>3 DEF Cell
<1>5. CASE t + k < m
  <2>1. t + k \in Threads /\ t + r * m + k = t + k + r * m
    BY <1>1, <1>3, <1>5
  <2> QED
    BY <2>1, <1>4, <1>5, CellFacts DEF Cell
<1>6. CASE ~ (t + k < m)
  <2>1. t + k - m \in Threads
    BY <1>1, <1>6
  <2>2. (r + 1) * m = r * m + m
    BY <1>1
  <2>3. t + r * m + k = t + k - m + (r + 1) * m
    BY <1>1, <1>3, <2>2
  <2>4. Cell(t + k - m, r + 1) \in 0 .. Cyclic - 1
    BY <2>1, CellFacts
  <2> QED
    BY <2>1, <2>3, <2>4, <1>4, <1>6 DEF Cell
<1> QED
  BY <1>5, <1>6
-----------------------------------------------------------------------------
(* What FindMatch returns.                                                 *)

LEMMA LeastExists ==
    ASSUME NEW S \in SUBSET Nat, S # {}
    PROVE  \E x \in S : \A y \in S : x <= y
<1> DEFINE L == {p \in Nat \X Nat : p[1] < p[2]}
<1>1. IsWellFoundedOn(L, Nat)
  BY NatLessThanWellFounded DEF OpToRel
<1> HIDE DEF L
<1>2. PICK x \in S : \A y \in S : ~ (<<y, x>> \in L)
  BY <1>1, WFMin
<1>3. ASSUME NEW y \in S PROVE x <= y
  <2>1. x \in Nat /\ y \in Nat /\ ~ (<<y, x>> \in L)
    BY <1>2
  <2> QED
    BY <2>1 DEF L
<1> QED
  BY <1>3

\* The state of the search: where it stands in the window, the length of the
\* run it is in, and the longest one before.
SearchState == [i : 0 .. Cyclic - 1, j : Nat, length : Nat, offset : Nat]
Start(h) == [i |-> h, j |-> 0, length |-> 1, offset |-> 1]
Longer(a) == IF a.j > a.length
             THEN [a EXCEPT !.length = a.j, !.offset = (a.i - a.j) % Cyclic]
             ELSE a
Search(h, a) ==
    IF slidingWindow[a.i] = uncodedLookahead[(h + a.j) % Cyclic]
    THEN [a EXCEPT !.i = (a.i + 1) % Cyclic, !.j = a.j + 1]
    ELSE [Longer(a) EXCEPT !.i = (a.i + 1) % Cyclic, !.j = 0]
Steps(t, last) == IF MaxCheck(t, last) <= 2 THEN 1 ELSE MaxCheck(t, last) - 1

\* The cell k behind h in the window holds what cell q behind h of the
\* lookahead holds.
Same(h, k, q) == slidingWindow[(h + k) % Cyclic] = uncodedLookahead[(h + q) % Cyclic]
RunAt(h, k, length) == \A q \in 0 .. length - 1 : Same(h, k + q, q)

\* A match among the first n cells of the window, or none.
Found(h, n, length, offset) ==
    \/ length = 1
    \/ \E k \in Nat : /\ k + length <= n /\ offset = (h + k) % Cyclic
                      /\ RunAt(h, k, length)

Searched(h, n, a) ==
    /\ a \in SearchState
    /\ a.i = (h + n) % Cyclic /\ a.j <= n
    /\ RunAt(h, n - a.j, a.j)
    /\ Found(h, n, a.length, a.offset)

LEMMA LongerFound ==
    ASSUME NEW h \in 0 .. Cyclic - 1, NEW n \in Nat, NEW a, Searched(h, n, a)
    PROVE  /\ Longer(a) \in SearchState
           /\ Found(h, n, Longer(a).length, Longer(a).offset)
<1>1. /\ a \in SearchState /\ a.i = (h + n) % Cyclic /\ a.j <= n /\ a.j \in Nat
      /\ RunAt(h, n - a.j, a.j) /\ Found(h, n, a.length, a.offset)
      /\ Cyclic \in Nat \ {0} /\ h \in Nat
  BY Sizes DEF Searched, SearchState
<1>2. CASE a.j > a.length
  <2>1. ASSUME NEW x \in Int, NEW c \in Nat \ {0}, NEW d \in Int
        PROVE  ((x % c) - d) % c = (x - d) % c
    <3>1. x = (x % c) + (x \div c) * c /\ x % c \in Int /\ x \div c \in Int
      BY <2>1
    <3>2. ((x % c) - d + (x \div c) * c) % c = ((x % c) - d) % c
      <4>1. (x % c) - d \in Int
        BY <3>1, <2>1
      <4> QED
        BY <3>1, <4>1, <2>1, ModShift, Zenon
    <3>3. (x % c) - d + (x \div c) * c = x - d
      BY <3>1, <2>1
    <3> QED
      BY <3>2, <3>3
  <2>2. (a.i - a.j) % Cyclic = (h + (n - a.j)) % Cyclic
    <3>1. (((h + n) % Cyclic) - a.j) % Cyclic = ((h + n) - a.j) % Cyclic
      <4>1. h + n \in Int /\ a.j \in Int
        BY <1>1
      <4> QED
        BY <1>1, <4>1, <2>1, Zenon
    <3>2. (h + n) - a.j = h + (n - a.j)
      BY <1>1
    <3> QED
      BY <1>1, <3>1, <3>2
  <2>3. (a.i - a.j) % Cyclic \in Nat
    <3>1. a.i - a.j \in Int
      BY <1>1 DEF SearchState
    <3> QED
      BY <1>1, <3>1
  <2>4. /\ Longer(a) \in SearchState
        /\ Longer(a).length = a.j /\ Longer(a).offset = (a.i - a.j) % Cyclic
    BY <1>1, <1>2, <2>3 DEF Longer, SearchState
  <2>5. n - a.j \in Nat /\ n - a.j + a.j <= n
    BY <1>1
  <2> QED
    BY <1>1, <2>2, <2>4, <2>5 DEF Found
<1>3. CASE ~ (a.j > a.length)
  BY <1>1, <1>3 DEF Longer
<1> QED
  BY <1>2, <1>3

LEMMA SearchGoesOn ==
    ASSUME NEW h \in 0 .. Cyclic - 1, NEW n \in Nat, NEW a, Searched(h, n, a)
    PROVE  Searched(h, n + 1, Search(h, a))
<1> DEFINE b == Search(h, a)
           next == (a.i + 1) % Cyclic
<1>1. /\ a \in SearchState /\ a.i = (h + n) % Cyclic /\ a.j <= n /\ a.j \in Nat
      /\ RunAt(h, n - a.j, a.j) /\ Found(h, n, a.length, a.offset)
      /\ Cyclic \in Nat \ {0} /\ h \in Nat
  BY Sizes DEF Searched, SearchState
<1>2. next \in 0 .. Cyclic - 1 /\ next = (h + (n + 1)) % Cyclic
  <2>1. ASSUME NEW x \in Int, NEW c \in Nat \ {0}
        PROVE  ((x % c) + 1) % c = (x + 1) % c /\ ((x % c) + 1) % c \in 0 .. c - 1
    <3>1. x = (x % c) + (x \div c) * c /\ x % c \in Int /\ x \div c \in Int
      BY <2>1
    <3>2. ((x % c) + 1 + (x \div c) * c) % c = ((x % c) + 1) % c
      <4>1. (x % c) + 1 \in Int
        BY <3>1, <2>1
      <4> QED
        BY <3>1, <4>1, <2>1, ModShift, Zenon
    <3>3. (x % c) + 1 + (x \div c) * c = x + 1
      BY <3>1, <2>1
    <3>4. (x + 1) % c \in 0 .. c - 1
      BY <2>1
    <3> QED
      BY <3>2, <3>3, <3>4
  <2>2. (((h + n) % Cyclic) + 1) % Cyclic = (h + n + 1) % Cyclic
        /\ (((h + n) % Cyclic) + 1) % Cyclic \in 0 .. Cyclic - 1
    <3>1. h + n \in Int
      BY <1>1
    <3> QED
      BY <1>1, <3>1, <2>1
  <2>3. h + n + 1 = h + (n + 1)
    BY <1>1
  <2> QED
    BY <1>1, <2>2, <2>3
<1>3. ASSUME NEW length \in Nat, NEW offset, Found(h, n, length, offset)
      PROVE  Found(h, n + 1, length, offset)
  <2>1. CASE length = 1
    BY <2>1 DEF Found
  <2>2. CASE length # 1
    <3>1. PICK k \in Nat : k + length <= n /\ offset = (h + k) % Cyclic
                           /\ RunAt(h, k, length)
      BY <1>3, <2>2 DEF Found
    <3>2. k + length <= n + 1
      BY <3>1
    <3> QED
      BY <3>1, <3>2 DEF Found
  <2> QED
    BY <2>1, <2>2
<1> HIDE DEF next
<1>4. CASE slidingWindow[a.i] = uncodedLookahead[(h + a.j) % Cyclic]
  <2>1. /\ b \in SearchState /\ b.i = next /\ b.j = a.j + 1
        /\ b.length = a.length /\ b.offset = a.offset
    <3>1. b = [a EXCEPT !.i = next, !.j = a.j + 1]
      BY <1>4, Zenon DEF Search, next
    <3>2. a \in SearchState /\ a.j + 1 \in Nat
      BY <1>1
    <3> HIDE DEF b
    <3> QED
      BY <1>2, <3>1, <3>2 DEF SearchState
  <2>2. RunAt(h, (n + 1) - b.j, b.j)
    <3> SUFFICES ASSUME NEW q \in 0 .. b.j - 1 PROVE Same(h, (n + 1) - b.j + q, q)
      BY DEF RunAt
    <3>1. (n + 1) - b.j + q = n - a.j + q /\ q \in 0 .. a.j
      BY <1>1, <2>1
    <3>2. CASE q = a.j
      <4>1. n - a.j + q = n
        BY <1>1, <3>2
      <4> QED
        BY <1>1, <1>4, <3>1, <3>2, <4>1 DEF Same
    <3>3. CASE q # a.j
      <4>1. q \in 0 .. a.j - 1
        <5>1. a.j \in Nat
          BY <1>1
        <5> QED
          BY <5>1, <3>1, <3>3
      <4> QED
        BY <1>1, <3>1, <4>1 DEF RunAt
    <3> QED
      BY <3>2, <3>3
  <2>3. b.j <= n + 1
    BY <1>1, <2>1
  <2>4. Found(h, n + 1, b.length, b.offset)
    <3>1. a.length \in Nat
      BY <1>1 DEF SearchState
    <3> QED
      BY <1>1, <1>3, <2>1, <3>1
  <2>5. b.i = (h + (n + 1)) % Cyclic
    BY <1>2, <2>1
  <2>6. Searched(h, n + 1, b)
    <3> HIDE DEF b
    <3> QED
      BY <2>1, <2>2, <2>3, <2>4, <2>5, Zenon DEF Searched
  <2> QED
    BY <2>6
<1>5. CASE slidingWindow[a.i] # uncodedLookahead[(h + a.j) % Cyclic]
  <2>1. Longer(a) \in SearchState /\ Found(h, n, Longer(a).length, Longer(a).offset)
    BY LongerFound
  <2>2. /\ b \in SearchState /\ b.i = next /\ b.j = 0
        /\ b.length = Longer(a).length /\ b.offset = Longer(a).offset
    BY <1>2, <1>5, <2>1 DEF Search, SearchState, next
  <2>3. RunAt(h, (n + 1) - b.j, b.j)
    BY <2>2 DEF RunAt
  <2>4. Longer(a).length \in Nat
    BY <2>1 DEF SearchState
  <2> QED
    <3>1. Found(h, n + 1, b.length, b.offset)
      BY <1>3, <2>1, <2>2, <2>4, Zenon
    <3>2. b.j <= n + 1 /\ b.i = (h + (n + 1)) % Cyclic
      BY <1>2, <2>2
    <3>3. Searched(h, n + 1, b)
      <4> HIDE DEF b
      <4> QED
        BY <2>2, <2>3, <3>1, <3>2, Zenon DEF Searched
    <3> QED
      BY <3>3
<1> QED
  BY <1>4, <1>5
\* There is a sequence of elements of T that begins with a and goes on by g.
Iterated(T, a, N, g) ==
    \E f \in [0 .. N -> T] : f[0] = a /\ \A k \in 1 .. N : f[k] = g[f[k - 1]]

LEMMA IteratedExists ==
    ASSUME NEW T, NEW a \in T, NEW N \in Nat, NEW g \in [T -> T]
    PROVE  Iterated(T, a, N, g)
<1> DEFINE Upto(f, k) == f[0] = a /\ \A j \in 1 .. k : f[j] = g[f[j - 1]]
           Bad == {k \in 0 .. N : \A f \in [0 .. k -> T] : ~ Upto(f, k)}
<1>1. Bad = {}
  <2> SUFFICES ASSUME Bad # {} PROVE FALSE
    OBVIOUS
  <2>1. PICK k \in Bad : \A j \in Bad : k <= j
    <3>1. Bad \in SUBSET Nat
      OBVIOUS
    <3> QED
      BY <3>1, LeastExists
  <2>2. k # 0
    <3>1. [j \in 0 .. 0 |-> a] \in [0 .. 0 -> T] /\ Upto([j \in 0 .. 0 |-> a], 0)
      OBVIOUS
    <3> QED
      BY <3>1
  <2>3. k - 1 \in 0 .. N /\ k - 1 \notin Bad
    <3>1. k \in 0 .. N
      OBVIOUS
    <3> HIDE DEF Bad
    <3>2. k - 1 \in 0 .. N /\ ~ (k <= k - 1)
      BY <3>1, <2>2
    <3> QED
      BY <3>2, <2>1
  <2>4. PICK f \in [0 .. k - 1 -> T] : Upto(f, k - 1)
    BY <2>3
  <2> DEFINE h == [j \in 0 .. k |-> IF j = k THEN g[f[k - 1]] ELSE f[j]]
  <2>5. k \in 1 .. N /\ f[k - 1] \in T /\ g[f[k - 1]] \in T
    BY <2>1, <2>2
  <2>6. h \in [0 .. k -> T]
    BY <2>5
  <2>7. Upto(h, k)
    <3>1. h[0] = a
      BY <2>4, <2>5
    <3>2. ASSUME NEW j \in 1 .. k PROVE h[j] = g[h[j - 1]]
      <4>1. h[j - 1] = f[j - 1]
        BY <2>5
      <4>2. CASE j = k
        BY <4>1, <4>2, <2>5
      <4>3. CASE j # k
        <5>1. j \in 1 .. k - 1 /\ h[j] = f[j]
          BY <4>3, <2>5
        <5> QED
          BY <5>1, <4>1, <2>4
      <4> QED
        BY <4>2, <4>3
    <3> QED
      BY <3>1, <3>2
  <2> QED
    BY <2>6, <2>7, <2>1
<1>2. N \notin Bad
  BY <1>1
<1> QED
  BY <1>2 DEF Iterated

MatchFound(h, n, m) ==
    m.length \in Nat /\ m.offset \in Nat /\ Found(h, n, m.length, m.offset)

\* Whatever stands in the two arrays, the search returns a length of 1 or a
\* run of equal bytes within the cells it has looked at.
LEMMA FindMatchIs ==
    ASSUME NEW t \in Threads, NEW h \in 0 .. Cyclic - 1, NEW last \in BOOLEAN
    PROVE  MatchFound(h, Steps(t, last), FindMatch(t, h, h, last))
<1> DEFINE N == Steps(t, last)
           Def(f) == f = [n \in 0 .. N |-> IF n = 0 THEN Start(h) ELSE Search(h, f[n - 1])]
           g == [a \in SearchState |->
                    IF Search(h, a) \in SearchState THEN Search(h, a) ELSE a]
<1>0. N \in Nat
  BY Sizes DEF Steps, MaxCheck, Threads
<1>1. Searched(h, 0, Start(h))
  <2>1. Start(h) \in SearchState /\ Start(h).i = h /\ Start(h).j = 0 /\ Start(h).length = 1
    BY Sizes DEF Start, SearchState
  <2>2. h = (h + 0) % Cyclic
    BY Sizes
  <2>3. RunAt(h, 0 - 0, 0)
    BY DEF RunAt
  <2>4. Found(h, 0, Start(h).length, Start(h).offset)
    BY <2>1 DEF Found
  <2> QED
    BY <2>1, <2>2, <2>3, <2>4 DEF Searched
<1>2. PICK f \in [0 .. N -> SearchState] :
         f[0] = Start(h) /\ \A k \in 1 .. N : f[k] = g[f[k - 1]]
  <2> HIDE DEF g, N
  <2>1. Start(h) \in SearchState
    BY <1>1 DEF Searched
  <2>2. g \in [SearchState -> SearchState]
    BY DEF g
  <2>3. Iterated(SearchState, Start(h), N, g)
    BY <1>0, <2>1, <2>2, IteratedExists, Zenon
  <2> QED
    BY <2>3 DEF Iterated
<1> HIDE DEF N
<1>3. ASSUME NEW k \in 1 .. N, Searched(h, k - 1, f[k - 1])
      PROVE  Searched(h, k, f[k]) /\ f[k] = Search(h, f[k - 1])
  <2>1. k - 1 \in Nat /\ k - 1 + 1 = k
    BY <1>0
  <2>2. Searched(h, k, Search(h, f[k - 1]))
    BY <2>1, <1>3, SearchGoesOn
  <2>3. f[k - 1] \in SearchState /\ Search(h, f[k - 1]) \in SearchState
    BY <1>3, <2>2 DEF Searched
  <2>4. g[f[k - 1]] = Search(h, f[k - 1])
    BY <2>3
  <2> QED
    BY <1>2, <2>2, <2>4
<1> HIDE DEF g
<1> DEFINE Bad == {k \in 0 .. N : ~ Searched(h, k, f[k])}
<1>4. Bad = {}
  <2> SUFFICES ASSUME Bad # {} PROVE FALSE
    OBVIOUS
  <2>1. PICK k \in Bad : \A j \in Bad : k <= j
    <3>1. Bad \in SUBSET Nat
      OBVIOUS
    <3> QED
      BY <3>1, LeastExists
  <2>2. k \in 0 .. N /\ ~ Searched(h, k, f[k])
    OBVIOUS
  <2>3. k # 0
    BY <1>1, <1>2, <2>2
  <2>4. k \in 1 .. N /\ k - 1 \in 0 .. N /\ ~ (k <= k - 1)
    BY <1>0, <2>2, <2>3
  <2>5. k - 1 \notin Bad
    <3> HIDE DEF Bad
    <3> QED
      BY <2>1, <2>4
  <2>6. Searched(h, k - 1, f[k - 1])
    BY <2>4, <2>5
  <2> QED
    BY <1>3, <2>2, <2>4, <2>6
<1>5. ASSUME NEW k \in 0 .. N PROVE Searched(h, k, f[k])
  BY <1>4
<1> HIDE DEF Bad
<1>6. Def(f)
  <2>1. ASSUME NEW k \in 0 .. N
        PROVE  f[k] = IF k = 0 THEN Start(h) ELSE Search(h, f[k - 1])
    <3>1. CASE k = 0
      BY <3>1, <1>2
    <3>2. CASE k # 0
      <4>1. k \in 1 .. N /\ k - 1 \in 0 .. N
        BY <1>0, <3>2
      <4>2. Searched(h, k - 1, f[k - 1])
        BY <1>5, <4>1
      <4> QED
        BY <1>3, <3>2, <4>1, <4>2
    <3> QED
      BY <3>1, <3>2
  <2> QED
    BY <1>2, <2>1
<1>7. FindMatch(t, h, h, last) = Longer((CHOOSE x : Def(x))[N])
  BY Zenon DEF FindMatch, Start, Search, Longer, Steps, N
<1> DEFINE s == CHOOSE x : Def(x)
<1>8. Def(s)
  <2> HIDE DEF Def
  <2> QED
    BY <1>6
<1> HIDE DEF s
<1>9. s = f
  <2> DEFINE Odd == {k \in 0 .. N : s[k] # f[k]}
  <2>1. s[0] = f[0] /\ f[0] = Start(h)
    BY <1>0, <1>8, <1>6
  <2>2. ASSUME NEW k \in 1 .. N, s[k - 1] = f[k - 1] PROVE s[k] = f[k]
    <3>1. k \in 0 .. N /\ k # 0
      OBVIOUS
    <3>2. s[k] = Search(h, s[k - 1]) /\ f[k] = Search(h, f[k - 1])
      BY <1>8, <1>6, <3>1
    <3> QED
      BY <3>2, <2>2
  <2>3. Odd = {}
    <3> SUFFICES ASSUME Odd # {} PROVE FALSE
      OBVIOUS
    <3>1. PICK k \in Odd : \A j \in Odd : k <= j
      <4>1. Odd \in SUBSET Nat
        OBVIOUS
      <4> QED
        BY <4>1, LeastExists
    <3>2. k \in 0 .. N /\ s[k] # f[k]
      OBVIOUS
    <3>3. k # 0
      BY <2>1, <3>2
    <3>4. k \in 1 .. N /\ k - 1 \in 0 .. N /\ ~ (k <= k - 1)
      BY <1>0, <3>2, <3>3
    <3>5. k - 1 \notin Odd
      <4> HIDE DEF Odd
      <4> QED
        BY <3>1, <3>4
    <3>6. s[k - 1] = f[k - 1]
      BY <3>4, <3>5
    <3> QED
      BY <2>2, <3>2, <3>4, <3>6
  <2>4. \A k \in 0 .. N : s[k] = f[k]
    BY <2>3
  <2>5. DOMAIN s = 0 .. N /\ s = [k \in DOMAIN s |-> s[k]]
    BY <1>8
  <2> QED
    BY <2>4, <2>5, <1>2
<1>10. Searched(h, N, f[N]) /\ FindMatch(t, h, h, last) = Longer(f[N])
  <2>1. N \in 0 .. N
    BY <1>0
  <2>2. FindMatch(t, h, h, last) = Longer(f[N])
    BY <1>7, <1>9, Zenon DEF s
  <2> QED
    BY <2>1, <2>2, <1>5
<1>11. Longer(f[N]) \in SearchState /\ Found(h, N, Longer(f[N]).length, Longer(f[N]).offset)
  BY <1>0, <1>10, LongerFound
<1> QED
  BY <1>10, <1>11 DEF MatchFound, SearchState, N
-----------------------------------------------------------------------------
(* The token of a round.                                                   *)

\* A token says what follows position p of the input.
Describes(p, token) ==
    LET n == token[1]
        start == ((p - 1) \div PCKTSIZE) * PCKTSIZE
        before == SubSeq(input, start + 1, p - 1)
    IN  IF n = 1 THEN token[2] = input[p]
        ELSE /\ p - 1 + n <= start + PCKTSIZE
             /\ \A q \in 0 .. n - 1 :
                    input[p + q] = WindowAt(before, (token[2] + q) % WINDOW_SIZE)

\* An offset into the cells of two rounds is a cell of the decoder's window.
LEMMA OffsetIs ==
    ASSUME NEW m \in Nat \ {0}, NEW a \in Int, NEW b \in Int, NEW q \in Int
    PROVE  \E c \in Int : ((((a % (2 * m)) + b) % (2 * m)) + q) % m = a + b + q + c * m
<1> DEFINE x == a % (2 * m)
           y == (x + b) % (2 * m)
           z == (y + q) % m
<1>1. PICK i \in Int : x = a + i * (2 * m) /\ x \in Int
  <2>1. ASSUME NEW d \in Nat \ {0}
        PROVE  a % d = a + (-(a \div d)) * d /\ a % d \in Int /\ -(a \div d) \in Int
    BY <2>1
  <2>2. 2 * m \in Nat \ {0}
    OBVIOUS
  <2> QED
    BY <2>1, <2>2
<1>2. PICK j \in Int : y = x + b + j * (2 * m) /\ y \in Int
  <2>1. ASSUME NEW d \in Nat \ {0}, NEW e \in Int
        PROVE  e % d = e + (-(e \div d)) * d /\ e % d \in Int /\ -(e \div d) \in Int
    BY <2>1
  <2>2. 2 * m \in Nat \ {0} /\ x + b \in Int
    BY <1>1
  <2> QED
    BY <2>1, <2>2
<1>3. PICK k \in Int : z = y + q + k * m
  <2>1. ASSUME NEW d \in Nat \ {0}, NEW e \in Int
        PROVE  e % d = e + (-(e \div d)) * d /\ -(e \div d) \in Int
    BY <2>1
  <2>2. y + q \in Int
    BY <1>2
  <2> QED
    BY <2>1, <2>2
<1> HIDE DEF x, y, z
<1>4. z = a + b + q + (2 * i + 2 * j + k) * m /\ 2 * i + 2 * j + k \in Int
  BY <1>1, <1>2, <1>3
<1> QED
  BY <1>4 DEF x, y, z

\* Once x bytes are decoded, a cell of the decoder's window holds the newest
\* of them that was written to it.
LEMMA DecoderWindow ==
    ASSUME NEW out, NEW x \in Nat, NEW y \in Int, NEW c \in Int, NEW cell,
           Len(out) = x, x - MAX_CODED <= y, y < x, cell = y + c * MAX_CODED
    PROVE  WindowAt(out, cell) = IF y >= 0 THEN out[y + 1] ELSE Blank
<1>1. ASSUME NEW m \in Nat \ {0}, NEW d \in 0 .. m - 1, NEW i \in Int
      PROVE  (d + i * m) % m = d
  BY <1>1, ModUnique
<1>2. MAX_CODED \in Nat \ {0} /\ WINDOW_SIZE = MAX_CODED
  BY Sizes
<1>3. x - 1 - y \in 0 .. MAX_CODED - 1 /\ -c \in Int
  BY <1>2
<1>4. (x - 1 - y + (-c) * MAX_CODED) % MAX_CODED = x - 1 - y
  BY <1>1, <1>2, <1>3, Zenon
<1>5. x - 1 - cell = x - 1 - y + (-c) * MAX_CODED
  <2>1. (-c) * MAX_CODED = -(c * MAX_CODED) /\ c * MAX_CODED \in Int
    BY <1>2
  <2> QED
    BY <2>1
<1>6. (x - 1) - ((x - 1 - cell) % WINDOW_SIZE) = y
  <2>1. (x - 1 - cell) % WINDOW_SIZE = x - 1 - y
    BY <1>2, <1>4, <1>5
  <2> QED
    BY <2>1
<1>7. WindowAt(out, cell) =
        LET newest == (x - 1) - ((x - 1 - cell) % WINDOW_SIZE)
        IN  IF newest >= 0 THEN out[newest + 1] ELSE Blank
  BY Zenon DEF WindowAt
<1> QED
  BY <1>6, <1>7

\* In round r thread t sees, in the window and in the lookahead, what comes
\* before and from its position on.
LEMMA SeesPacket ==
    ASSUME NEW t \in Threads, NEW r \in 0 .. Rounds - 1, NEW k \in 0 .. MAX_CODED - 1,
           \A u \in Threads : RoundData(u, r),
           r = Rounds - 1 => t + k < MAX_CODED
    PROVE  /\ slidingWindow[(Cell(t, r) + k) % Cyclic] = Before(Base(r) + t - MAX_CODED + k)
           /\ uncodedLookahead[(Cell(t, r) + k) % Cyclic] = Byte(Base(r) + t + k)
<1>1. /\ MAX_CODED \in Nat \ {0} /\ Rounds \in Nat /\ t \in Nat /\ t < MAX_CODED
      /\ Base(r) \in Nat /\ Base(r + 1) = Base(r) + MAX_CODED
  BY Sizes, BaseNext, InPacket DEF Threads
<1>2. CASE t + k < MAX_CODED
  <2>1. t + k \in Threads /\ (Cell(t, r) + k) % Cyclic = Cell(t + k, r)
    BY <1>2, CellsAhead
  <2>2. Position(t + k, r) = Base(r) + t + k
        /\ Position(t + k, r) - MAX_CODED = Base(r) + t - MAX_CODED + k
    BY <1>1 DEF Position, Base
  <2> QED
    BY <2>1, <2>2 DEF RoundData
<1>3. CASE ~ (t + k < MAX_CODED)
  <2> DEFINE u == t + k - MAX_CODED
  <2>1. u \in Threads /\ (Cell(t, r) + k) % Cyclic = Cell(u, r + 1) /\ r + 1 < Rounds
    BY <1>1, <1>3, CellsAhead
  <2>2. Position(u, r + 1) = Base(r) + t + k /\ Position(u, r) = Base(r) + t - MAX_CODED + k
        /\ Position(u, r) >= 0
    <3>1. Position(u, r + 1) = Base(r + 1) + u /\ Position(u, r) = Base(r) + u
      BY DEF Position, Base
    <3> QED
      BY <1>1, <1>3, <3>1
  <2>3. /\ uncodedLookahead[Cell(u, r + 1)] = Byte(Position(u, r + 1))
        /\ slidingWindow[Cell(u, r + 1)] = Byte(Position(u, r))
    BY <2>1 DEF RoundData
  <2>4. Before(Position(u, r)) = Byte(Position(u, r))
    <3>1. ~ (Position(u, r) < 0)
      BY <1>1, <2>2
    <3> QED
      BY <3>1 DEF Before
  <2> QED
    BY <2>1, <2>2, <2>3, <2>4
<1> QED
  BY <1>2, <1>3
\* The token a thread writes for what its search has found is right.
LEMMA TokenDescribes ==
    ASSUME input \in Seq(Symbol), block \in Nat,
           NEW t \in Threads, NEW r \in 0 .. Rounds - 1,
           \A u \in Threads : RoundData(u, r),
           NEW p \in 1 .. Len(input), p = block * PCKTSIZE + r * MAX_CODED + t + 1,
           NEW m, MatchFound(Cell(t, r), Steps(t, r = Rounds - 1), m)
    PROVE  Describes(p, Token(t, m.length, m.offset, Cell(t, r), r = Rounds - 1))
<1> DEFINE M == MAX_CODED
           S == block * PCKTSIZE
           P == Base(r) + t
           h == Cell(t, r)
           last == r = Rounds - 1
           shorter == IF last /\ m.length > M - t THEN M - t ELSE m.length
           n == IF shorter >= M THEN M - 1 ELSE shorter
           before == SubSeq(input, S + 1, p - 1)
           token == Token(t, m.length, m.offset, h, last)
<1>1. /\ M \in Nat \ {0} /\ MAX_UNCODED \in Nat \ {0} /\ PCKTSIZE \in Nat \ {0}
      /\ WINDOW_SIZE = M /\ Cyclic = 2 * M
      /\ t \in Nat /\ t < M /\ Base(r) \in Nat /\ r \in Nat /\ Rounds \in Nat
      /\ m.length \in Nat
  <2>1. m.length \in Nat
    BY DEF MatchFound
  <2>2. Base(r) \in Int /\ Base(r) + t \in 0 .. PCKTSIZE - 1
        /\ (r = 0 => Base(r) = 0) /\ Base(0) <= Base(r) /\ Base(0) = 0
    BY Sizes, BaseNext, BaseOrder, InPacket DEF Base
  <2> QED
    BY Sizes, <2>1, <2>2 DEF Threads
<1>2. /\ P \in 0 .. PCKTSIZE - 1 /\ S \in Nat /\ p = S + P + 1
      /\ ~ last => Base(r) + 2 * M <= PCKTSIZE
      /\ last => Base(r) + M = PCKTSIZE
  <2>1. S \in Nat
    BY <1>1
  <2>2. p = S + P + 1
    <3>1. r * MAX_CODED = Base(r)
      BY DEF Base
    <3> HIDE DEF S
    <3>2. p = S + r * MAX_CODED + t + 1
      BY DEF S
    <3> QED
      BY <1>1, <2>1, <3>1, <3>2, SMTT(30)
  <2>3. r + 1 < Rounds \/ r + 1 = Rounds
    BY <1>1
  <2> QED
    BY <1>1, <2>1, <2>2, <2>3, InPacket
<1>3. ((p - 1) \div PCKTSIZE) * PCKTSIZE = S
  <2>1. (block * PCKTSIZE + P) \div PCKTSIZE = block
    <3>1. block \in Int
      OBVIOUS
    <3> QED
      BY <1>1, <1>2, <3>1, DivUnique, Zenon
  <2>2. p - 1 = block * PCKTSIZE + P
    BY <1>2
  <2> QED
    BY <2>1, <2>2
<1>4. ASSUME NEW x \in Int PROVE Byte(x) = input[S + x + 1]
  BY DEF Byte
<1>5. Len(before) = P /\ \A i \in 1 .. P : before[i] = input[S + i]
  <2> HIDE DEF S, P
  <2>1. S + 1 \in Int /\ p - 1 \in Int /\ (p - 1) - (S + 1) + 1 = P
    BY <1>1, <1>2
  <2>2. \A i \in S + 1 .. p - 1 : input[i] \in Symbol
    BY <1>1, <1>2
  <2>3. /\ Len(before) = IF S + 1 <= p - 1 THEN (p - 1) - (S + 1) + 1 ELSE 0
        /\ \A i \in 1 .. (p - 1) - (S + 1) + 1 : before[i] = input[(S + 1) + i - 1]
    BY <2>1, <2>2, SubSeqProperties, SMTT(30)
  <2> HIDE DEF before
  <2>4. Len(before) = P
    BY <1>2, <2>1, <2>3
  <2>5. ASSUME NEW i \in 1 .. P PROVE before[i] = input[S + i]
    <3>1. (S + 1) + i - 1 = S + i
      BY <1>2
    <3>2. before[i] = input[(S + 1) + i - 1]
      BY <2>1, <2>3
    <3> QED
      BY <3>1, <3>2
  <2> QED
    BY <2>4, <2>5
<1>6. n \in Nat /\ n <= m.length /\ n < M /\ (last => n <= M - t)
  BY <1>1
<1>7. token = IF n <= MAX_UNCODED THEN <<1, uncodedLookahead[h]>> ELSE <<n, m.offset>>
  BY Zenon DEF Token, n, shorter
<1>8. ASSUME NEW k \in 0 .. M - 1, last => t + k < M
      PROVE  /\ slidingWindow[(h + k) % Cyclic] = Before(P - M + k)
             /\ uncodedLookahead[(h + k) % Cyclic] = Byte(P + k)
  <2>1. Base(r) + t - M + k = P - M + k /\ Base(r) + t + k = P + k
    BY <1>1
  <2>2. /\ slidingWindow[(Cell(t, r) + k) % Cyclic] = Before(Base(r) + t - MAX_CODED + k)
        /\ uncodedLookahead[(Cell(t, r) + k) % Cyclic] = Byte(Base(r) + t + k)
    BY <1>8, SeesPacket
  <2> QED
    BY <2>1, <2>2
<1> HIDE DEF S, P, n, shorter
<1>9. CASE n <= MAX_UNCODED
  <2>1. uncodedLookahead[h] = input[p]
    <3>1. uncodedLookahead[(h + 0) % Cyclic] = Byte(P + 0)
      BY <1>1, <1>8
    <3>2. (h + 0) % Cyclic = h
      <4>1. h \in 0 .. Cyclic - 1
        BY <1>1, CellFacts
      <4> HIDE DEF h
      <4> QED
        BY <1>1, <4>1
    <3>3. S + (P + 0) + 1 = p /\ P + 0 \in Int
      BY <1>1, <1>2
    <3> QED
      BY <1>4, <3>1, <3>2, <3>3
  <2>2. token[1] = 1 /\ token[2] = input[p]
    BY <1>7, <1>9, <2>1
  <2> QED
    BY <2>2 DEF Describes
<1>10. CASE ~ (n <= MAX_UNCODED)
  <2>1. n >= 2 /\ m.length # 1 /\ token[1] = n /\ token[2] = m.offset
    <3>1. token = <<n, m.offset>>
      BY <1>7, <1>10
    <3> QED
      BY <1>1, <1>6, <1>10, <3>1
  <2>2. PICK k \in Nat : /\ k + m.length <= Steps(t, last) /\ m.offset = (h + k) % Cyclic
                         /\ RunAt(h, k, m.length)
    BY <2>1 DEF MatchFound, Found
  <2>3. Steps(t, last) <= M - 1 /\ (last => Steps(t, last) < M - t)
    BY <1>1, <1>6, <2>1, <2>2 DEF Steps, MaxCheck
  <2>4. p - 1 + n <= S + PCKTSIZE
    <3>1. P = Base(r) + t
      BY DEF P
    <3>2. /\ t \in Nat /\ t < M /\ Base(r) \in Nat /\ M \in Nat /\ n \in Nat /\ n < M
          /\ S \in Nat /\ PCKTSIZE \in Nat /\ p = S + P + 1
      BY <1>1, <1>2, <1>6
    <3>3. CASE last
      <4>1. n <= M - t /\ Base(r) + M = PCKTSIZE
        BY <1>2, <1>6, <3>3
      <4> QED
        BY <3>1, <3>2, <4>1
    <3>4. CASE ~ last
      <4>1. Base(r) + 2 * M <= PCKTSIZE
        BY <1>2, <3>4
      <4> QED
        BY <3>1, <3>2, <4>1
    <3> QED
      BY <3>3, <3>4
  <2>5. ASSUME NEW q \in 0 .. n - 1
        PROVE  input[p + q] = WindowAt(before, (m.offset + q) % WINDOW_SIZE)
    <3> DEFINE y == P - M + (k + q)
    <3>1. /\ q \in 0 .. m.length - 1 /\ q \in 0 .. M - 1 /\ k + q \in 0 .. M - 1
          /\ last => t + q < M /\ t + (k + q) < M
      <4> DEFINE s == Steps(t, last)
                 l == m.length
      <4>1. k + l <= s /\ s <= M - 1 /\ (last => s < M - t) /\ s \in Int
        BY <1>1, <2>2, <2>3 DEF Steps, MaxCheck
      <4>2. n <= l /\ n \in Nat /\ l \in Nat /\ M \in Nat /\ t \in Nat
            /\ (last => n <= M - t) /\ n < M
        BY <1>1, <1>6
      <4> HIDE DEF s, l, last
      <4>3. q \in 0 .. l - 1 /\ q \in 0 .. M - 1 /\ k + q \in 0 .. M - 1
            /\ (last => t + q < M /\ t + (k + q) < M)
        BY <4>1, <4>2
      <4> QED
        BY <4>3 DEF l
    <3>2. Before(y) = Byte(P + q)
      <4>1. slidingWindow[(h + (k + q)) % Cyclic] = Before(P - M + (k + q))
        BY <1>8, <3>1
      <4>2. uncodedLookahead[(h + q) % Cyclic] = Byte(P + q)
        BY <1>8, <3>1
      <4>3. slidingWindow[(h + (k + q)) % Cyclic] = uncodedLookahead[(h + q) % Cyclic]
        BY <2>2, <3>1 DEF RunAt, Same
      <4> QED
        BY <4>1, <4>2, <4>3
    <3>3. input[p + q] = Byte(P + q)
      <4>1. S + (P + q) + 1 = p + q /\ P + q \in Int
        BY <1>1, <1>2
      <4> QED
        BY <1>4, <4>1
    <3>4. PICK c \in Int : (m.offset + q) % WINDOW_SIZE = y + c * MAX_CODED
      <4>1. \E c \in Int : ((((P % (2 * M)) + k) % (2 * M)) + q) % M = P + k + q + c * M
        <5>1. M \in Nat \ {0} /\ P \in Int /\ k \in Int /\ q \in Int
          BY <1>1, <1>2
        <5> QED
          BY <5>1, OffsetIs, Zenon
      <4>2. h = P % (2 * M)
        BY <1>1 DEF Cell, Base, P
      <4>3. PICK c \in Int : (m.offset + q) % WINDOW_SIZE = P + k + q + c * M
        BY <1>1, <2>2, <4>1, <4>2
      <4>4. P + k + q + c * M = y + (c + 1) * M /\ c + 1 \in Int
        <5>1. (c + 1) * M = c * M + M /\ c * M \in Int
          BY <1>1
        <5>2. P \in Nat /\ M \in Nat
          BY <1>1, <1>2
        <5> QED
          BY <5>1, <5>2
      <4> QED
        BY <4>3, <4>4
    <3>5. P - M <= y /\ y < P /\ y \in Int /\ P \in Nat
      BY <1>1, <1>2, <3>1
    <3>6. WindowAt(before, (m.offset + q) % WINDOW_SIZE)
            = IF y >= 0 THEN before[y + 1] ELSE Blank
      <4> HIDE DEF y, before, P
      <4> QED
        BY <1>5, <3>4, <3>5, DecoderWindow
    <3>7. CASE y >= 0
      <4>1. y + 1 \in 1 .. P /\ S + (y + 1) = S + y + 1
        BY <1>2, <3>5, <3>7
      <4>2. before[y + 1] = Byte(y)
        BY <1>4, <1>5, <3>5, <4>1, ZenonT(30)
      <4>3. Before(y) = Byte(y)
        <5> HIDE DEF y
        <5> QED
          BY <3>5, <3>7 DEF Before
      <4> QED
        BY <3>2, <3>3, <3>6, <3>7, <4>2, <4>3
    <3>8. CASE ~ (y >= 0)
      <4>1. Before(y) = Blank
        <5> HIDE DEF y
        <5> QED
          BY <3>5, <3>8 DEF Before
      <4> QED
        BY <3>2, <3>3, <3>6, <3>8, <4>1
    <3> QED
      BY <3>7, <3>8
  <2>6. token[1] # 1
    BY <2>1
  <2> HIDE DEF token, n, before
  <2>7. Describes(p, token)
    BY <1>3, <2>1, <2>4, <2>5, <2>6 DEF Describes, before
  <2> QED
    BY <2>7 DEF token
<1> QED
  BY <1>9, <1>10
-----------------------------------------------------------------------------
(* The steps of a thread.                                                  *)

\* A thread writes no cell but its own two.
OwnCells(t) ==
    /\ DOMAIN slidingWindow' = 0 .. Cyclic - 1
    /\ DOMAIN uncodedLookahead' = 0 .. Cyclic - 1
    /\ \A c \in (0 .. Cyclic - 1) \ {t, t + MAX_CODED} :
          slidingWindow'[c] = slidingWindow[c] /\ uncodedLookahead'[c] = uncodedLookahead[c]

LEMMA PhaseFacts ==
    /\ AfterLast \in Nat /\ AfterLast = 2 * Rounds + 2
    /\ \A r \in Int : /\ EmitPhase(r) = 3 + 2 * r /\ ShiftPhase(r) = 2 + 2 * r
                      /\ ShiftPhase(r) = EmitPhase(r - 1) + 1
BY Sizes DEF AfterLast, EmitPhase, ShiftPhase

\* A step between two barriers keeps the threads within one step of another.
LEMMA PhasesKeep ==
    ASSUME NEW t \in Threads, NEW n \in 0 .. AfterLast - 1, KernelOK, Step(t, n)
    PROVE  /\ phase' \in [Threads -> 0 .. AfterLast]
           /\ \A u, v \in Threads : phase'[v] <= phase'[u] + 1
<1>1. /\ phase \in [Threads -> 0 .. AfterLast] /\ AfterLast \in Nat
      /\ \A u, v \in Threads : phase[v] <= phase[u] + 1
      /\ phase[t] = n /\ \A u \in Threads : phase[u] >= n
      /\ phase' = [phase EXCEPT ![t] = n + 1]
  BY PhaseFacts DEF KernelOK, Step, Barrier
<1>2. phase' \in [Threads -> 0 .. AfterLast]
  BY <1>1
<1>3. ASSUME NEW u \in Threads, NEW v \in Threads PROVE phase'[v] <= phase'[u] + 1
  <2>1. /\ phase[u] \in Nat /\ phase[v] \in Nat /\ phase[u] >= n /\ phase[v] <= phase[t] + 1
        /\ phase[v] <= phase[u] + 1 /\ phase[t] = n
    BY <1>1
  <2>2. /\ phase'[u] = IF u = t THEN n + 1 ELSE phase[u]
        /\ phase'[v] = IF v = t THEN n + 1 ELSE phase[v]
    BY <1>1
  <2> QED
    BY <2>1, <2>2
<1> QED
  BY <1>2, <1>3

\* What a thread knows depends on its own cells only.
LEMMA OthersKeep ==
    ASSUME NEW t \in Threads, NEW n, KernelOK, Step(t, n), OwnCells(t),
           NEW u \in Threads, u # t
    PROVE  ThreadData(u)'
<1>1. /\ phase \in [Threads -> 0 .. AfterLast] /\ ThreadData(u)
      /\ phase' = [phase EXCEPT ![t] = n + 1]
      /\ input' = input /\ block' = block
  BY DEF KernelOK, Step
<1>2. phase'[u] = phase[u]
  BY <1>1
<1>3. ASSUME NEW r \in Nat
      PROVE  /\ slidingWindow'[Cell(u, r)] = slidingWindow[Cell(u, r)]
             /\ uncodedLookahead'[Cell(u, r)] = uncodedLookahead[Cell(u, r)]
  <2>1. Cell(u, r) \in {u, u + MAX_CODED} /\ Cell(u, r) \in 0 .. Cyclic - 1
    BY CellFacts
  <2>2. Cell(u, r) \notin {t, t + MAX_CODED}
    BY <2>1, Sizes DEF Threads
  <2> QED
    BY <2>1, <2>2 DEF OwnCells
<1>4. ASSUME NEW x PROVE Byte(x)' = Byte(x) /\ Before(x)' = Before(x)
  BY <1>1 DEF Byte, Before
<1>5. ASSUME NEW r \in 0 .. Rounds - 1, RoundData(u, r) PROVE RoundData(u, r)'
  <2>1. r \in Nat /\ r + 1 \in Nat
    BY Sizes
  <2> QED
    BY <1>3, <1>4, <1>5, <2>1 DEF RoundData
<1>6. 0 \in Nat /\ 1 \in Nat
  OBVIOUS
<1> QED
  BY <1>1, <1>2, <1>3, <1>4, <1>5, <1>6 DEF ThreadData

\* After a step of one thread the kernel's part of the invariant holds, when
\* the thread has written what it must.
LEMMA ThreadStep ==
    ASSUME NEW t \in Threads, NEW n \in 0 .. AfterLast - 1, KernelOK, Step(t, n),
           OwnCells(t), ThreadData(t)'
    PROVE  KernelOK'
<1>1. /\ phase' \in [Threads -> 0 .. AfterLast]
      /\ \A u, v \in Threads : phase'[v] <= phase'[u] + 1
  BY PhasesKeep
<1>2. ASSUME NEW u \in Threads PROVE ThreadData(u)'
  BY <1>2, OthersKeep
<1>3. block' \in Nat
  BY DEF KernelOK, Step
<1> QED
  BY <1>1, <1>2, <1>3 DEF KernelOK, OwnCells

LEMMA FillKeeps ==
    ASSUME NEW t \in Threads, KernelOK, Fill(t)
    PROVE  KernelOK'
<1>1. /\ Step(t, 0) /\ slidingWindow' = [slidingWindow EXCEPT ![t] = Blank]
      /\ uncodedLookahead' = uncodedLookahead
  BY DEF Fill
<1>2. /\ DOMAIN slidingWindow = 0 .. Cyclic - 1 /\ DOMAIN uncodedLookahead = 0 .. Cyclic - 1
      /\ phase \in [Threads -> 0 .. AfterLast]
  BY <1>1 DEF KernelOK, Step
<1>3. OwnCells(t)
  BY <1>1, <1>2 DEF OwnCells
<1>4. phase'[t] = 1
  BY <1>1, <1>2 DEF Step
<1>5. slidingWindow'[t] = Blank /\ Cell(t, 0) = t
  <2>1. Cell(t, 0) \in 0 .. Cyclic - 1 /\ Cell(t, 0) = t
    BY CellFacts
  <2>2. t \in DOMAIN slidingWindow
    BY <1>2, <2>1
  <2> QED
    BY <1>1, <2>1, <2>2
<1>6. ThreadData(t)'
  <2>1. \A r \in 0 .. Rounds - 1 : 1 \notin {EmitPhase(r), EmitPhase(r) + 1}
    BY Sizes, PhaseFacts
  <2> QED
    BY <1>4, <1>5, <2>1 DEF ThreadData
<1>7. 0 \in 0 .. AfterLast - 1
  BY PhaseFacts, Sizes
<1> QED
  BY <1>1, <1>3, <1>6, <1>7, ThreadStep

LEMMA LoadFirstKeeps ==
    ASSUME NEW t \in Threads, KernelOK, LoadFirst(t)
    PROVE  KernelOK'
<1>1. /\ Step(t, 1) /\ uncodedLookahead' = [uncodedLookahead EXCEPT ![t] = Byte(t)]
      /\ slidingWindow' = [slidingWindow EXCEPT ![t + MAX_CODED] = Byte(t)]
  <2>1. (t + WINDOW_SIZE) % Cyclic = t + MAX_CODED
    BY Sizes DEF Threads
  <2> QED
    BY <2>1 DEF LoadFirst
<1>2. /\ DOMAIN slidingWindow = 0 .. Cyclic - 1 /\ DOMAIN uncodedLookahead = 0 .. Cyclic - 1
      /\ phase \in [Threads -> 0 .. AfterLast] /\ ThreadData(t) /\ phase[t] = 1
      /\ input' = input /\ block' = block
  BY <1>1 DEF KernelOK, Step
<1>3. OwnCells(t)
  BY <1>1, <1>2 DEF OwnCells
<1>4. phase'[t] = 2
  BY <1>1, <1>2 DEF Step
<1>5. /\ Cell(t, 0) = t /\ Cell(t, 1) = t + MAX_CODED /\ t # t + MAX_CODED
      /\ t \in 0 .. Cyclic - 1 /\ t + MAX_CODED \in 0 .. Cyclic - 1
      /\ Position(t, 0) = t
  BY Sizes, CellFacts DEF Threads, Position
<1>6. /\ slidingWindow'[Cell(t, 0)] = Blank /\ slidingWindow'[Cell(t, 1)] = Byte(t)
      /\ uncodedLookahead'[Cell(t, 0)] = Byte(t) /\ Byte(t)' = Byte(t)
  <2>1. slidingWindow[Cell(t, 0)] = Blank
    BY <1>2 DEF ThreadData
  <2>2. Byte(t)' = Byte(t)
    BY <1>2 DEF Byte
  <2> QED
    BY <1>1, <1>2, <1>5, <2>1, <2>2
<1>7. ThreadData(t)'
  <2>1. \A r \in 0 .. Rounds - 1 : 2 \notin {EmitPhase(r), EmitPhase(r) + 1}
    BY Sizes, PhaseFacts
  <2> QED
    BY <1>4, <1>5, <1>6, <2>1 DEF ThreadData
<1>8. 1 \in 0 .. AfterLast - 1
  BY PhaseFacts, Sizes
<1> QED
  BY <1>1, <1>3, <1>7, <1>8, ThreadStep

\* The phases of one round are not those of another.
LEMMA OneRound ==
    ASSUME NEW r \in Int, NEW s \in Int,
           {EmitPhase(r), EmitPhase(r) + 1} \cap {EmitPhase(s), EmitPhase(s) + 1} # {}
    PROVE  r = s
BY PhaseFacts

\* Thread t has entered round r with the right cells.
LEMMA InRound ==
    ASSUME NEW t \in Threads, NEW r \in 0 .. Rounds - 1, RoundData(t, r)',
           phase'[t] \in {EmitPhase(r), EmitPhase(r) + 1}
    PROVE  ThreadData(t)'
<1>1. r \in Nat /\ phase'[t] \notin {1, 2}
  BY Sizes, PhaseFacts
<1>2. ASSUME NEW s \in 0 .. Rounds - 1, phase'[t] \in {EmitPhase(s), EmitPhase(s) + 1}
      PROVE  RoundData(t, s)'
  <2>1. r = s
    <3>1. {EmitPhase(r), EmitPhase(r) + 1} \cap {EmitPhase(s), EmitPhase(s) + 1} # {}
      BY <1>2
    <3>2. r \in Int /\ s \in Int
      BY Sizes
    <3> QED
      BY <3>1, <3>2, OneRound
  <2> QED
    BY <2>1
<1> QED
  BY <1>1, <1>2 DEF ThreadData
LEMMA LoadSecondKeeps ==
    ASSUME NEW t \in Threads, KernelOK, LoadSecond(t)
    PROVE  KernelOK'
<1> DEFINE M == MAX_CODED
<1>1. /\ Step(t, 2) /\ slidingWindow' = slidingWindow
      /\ uncodedLookahead' = [uncodedLookahead EXCEPT ![t + M] = Byte(t + M)]
  <2>1. MAX_CODED + t = t + MAX_CODED
    BY Sizes DEF Threads
  <2> QED
    BY <2>1 DEF LoadSecond
<1>2. /\ DOMAIN slidingWindow = 0 .. Cyclic - 1 /\ DOMAIN uncodedLookahead = 0 .. Cyclic - 1
      /\ phase \in [Threads -> 0 .. AfterLast] /\ ThreadData(t) /\ phase[t] = 2
      /\ input' = input /\ block' = block
  BY <1>1 DEF KernelOK, Step
<1>3. OwnCells(t)
  BY <1>1, <1>2 DEF OwnCells
<1>4. phase'[t] = EmitPhase(0) /\ 0 \in 0 .. Rounds - 1
  BY <1>1, <1>2, PhaseFacts, Sizes DEF Step
<1>5. /\ Cell(t, 0) = t /\ Cell(t, 1) = t + M /\ t # t + M
      /\ t \in 0 .. Cyclic - 1 /\ t + M \in 0 .. Cyclic - 1
      /\ Position(t, 0) = t /\ Position(t, 1) = t + M /\ Position(t, 0) - M < 0
  BY Sizes, CellFacts DEF Threads, Position
<1>6. ASSUME NEW x PROVE Byte(x)' = Byte(x) /\ Before(x)' = Before(x)
  BY <1>2 DEF Byte, Before
<1>7. /\ slidingWindow'[Cell(t, 0)] = Before(Position(t, 0) - M)
      /\ slidingWindow'[Cell(t, 1)] = Byte(Position(t, 0))
      /\ uncodedLookahead'[Cell(t, 0)] = Byte(Position(t, 0))
      /\ uncodedLookahead'[Cell(t, 1)] = Byte(Position(t, 1))
  <2>1. /\ slidingWindow[Cell(t, 0)] = Blank /\ slidingWindow[Cell(t, 1)] = Byte(Position(t, 0))
        /\ uncodedLookahead[Cell(t, 0)] = Byte(Position(t, 0))
    BY <1>2 DEF ThreadData
  <2>2. Before(Position(t, 0) - M) = Blank
    BY <1>5 DEF Before
  <2> QED
    BY <1>1, <1>2, <1>5, <2>1, <2>2
<1>8. RoundData(t, 0)'
  <2>1. 0 + 1 = 1
    OBVIOUS
  <2> QED
    BY <1>6, <1>7, <2>1 DEF RoundData
<1>9. ThreadData(t)'
  BY <1>4, <1>8, InRound
<1>10. 2 \in 0 .. AfterLast - 1
  BY PhaseFacts, Sizes
<1> QED
  BY <1>1, <1>3, <1>9, <1>10, ThreadStep

LEMMA ShiftKeeps ==
    ASSUME NEW t \in Threads, KernelOK, Shift(t)
    PROVE  KernelOK'
<1> DEFINE M == MAX_CODED
<1>1. PICK r \in 1 .. Rounds - 1 :
         LET head == (t + r * MAX_CODED) % Cyclic
             filepoint == (r + 1) * MAX_CODED
             own == (head + WINDOW_SIZE) % Cyclic
         IN  /\ Step(t, ShiftPhase(r))
             /\ IF filepoint < PCKTSIZE
                THEN /\ uncodedLookahead' = [uncodedLookahead EXCEPT ![own] = Byte(filepoint + t)]
                     /\ slidingWindow' = [slidingWindow EXCEPT ![own] = uncodedLookahead[head]]
                ELSE /\ slidingWindow' = [slidingWindow EXCEPT ![own] = Caret]
                     /\ UNCHANGED uncodedLookahead
             /\ UNCHANGED bufferout
  BY DEF Shift
<1> DEFINE head == Cell(t, r)
           own == Cell(t, r + 1)
<1>2. /\ r \in Nat /\ r - 1 \in 0 .. Rounds - 1 /\ r - 1 + 1 = r /\ r - 1 + 1 < Rounds
      /\ r \in 0 .. Rounds - 1
  BY Sizes
<1>3. /\ head \in {t, t + M} /\ own \in {t, t + M} /\ own # head
      /\ head \in 0 .. Cyclic - 1 /\ own \in 0 .. Cyclic - 1
      /\ own = (((t + r * MAX_CODED) % Cyclic) + WINDOW_SIZE) % Cyclic
      /\ head = (t + r * MAX_CODED) % Cyclic
  <2>1. r + 1 \in Nat
    BY <1>2
  <2>2. head = (t + r * MAX_CODED) % Cyclic
    BY DEF Cell
  <2>3. own = (head + MAX_CODED) % Cyclic /\ WINDOW_SIZE = MAX_CODED
    BY <1>2, CellFacts, Sizes
  <2> QED
    BY <1>2, <2>1, <2>2, <2>3, CellFacts
<1>4. /\ Position(t, r) - M = Position(t, r - 1)
      /\ Position(t, r + 1) = (r + 1) * MAX_CODED + t
      /\ ~ (Position(t, r - 1) < 0)
      /\ r + 1 < Rounds => (r + 1) * MAX_CODED < PCKTSIZE
  <2>1. /\ Position(t, r) = Base(r) + t /\ Position(t, r - 1) = Base(r - 1) + t
        /\ Position(t, r + 1) = (r + 1) * MAX_CODED + t /\ Base(r + 1) = (r + 1) * MAX_CODED
    BY DEF Position, Base
  <2>2. Base(r - 1) = Base(r) - M /\ Base(r) \in Int
    BY <1>2, BaseNext
  <2>3. Base(r - 1) + t \in 0 .. PCKTSIZE - 1
    BY <1>2, InPacket
  <2>4. r + 1 < Rounds => Base(r + 1) + t \in 0 .. PCKTSIZE - 1
    <3>1. r + 1 < Rounds => r + 1 \in 0 .. Rounds - 1
      BY <1>2, Sizes
    <3> QED
      BY <3>1, InPacket
  <2>5. t \in Nat /\ M \in Nat /\ PCKTSIZE \in Nat /\ Base(r + 1) \in Int
    BY <1>2, BaseNext, Sizes DEF Threads
  <2> QED
    BY <2>1, <2>2, <2>3, <2>4, <2>5
<1>5. /\ Step(t, ShiftPhase(r))
      /\ DOMAIN slidingWindow = 0 .. Cyclic - 1 /\ DOMAIN uncodedLookahead = 0 .. Cyclic - 1
      /\ phase \in [Threads -> 0 .. AfterLast] /\ ThreadData(t) /\ phase[t] = ShiftPhase(r)
      /\ phase' = [phase EXCEPT ![t] = ShiftPhase(r) + 1]
      /\ input' = input /\ block' = block
  BY <1>1 DEF KernelOK, Step
<1>6. RoundData(t, r - 1)
  <2>1. phase[t] = EmitPhase(r - 1) + 1
    BY <1>2, <1>5, PhaseFacts
  <2> QED
    BY <1>2, <1>5, <2>1 DEF ThreadData
<1>7. \/ /\ uncodedLookahead' = [uncodedLookahead EXCEPT ![own] = Byte(Position(t, r + 1))]
         /\ slidingWindow' = [slidingWindow EXCEPT ![own] = uncodedLookahead[head]]
      \/ /\ ~ (r + 1 < Rounds) /\ uncodedLookahead' = uncodedLookahead
         /\ slidingWindow' = [slidingWindow EXCEPT ![own] = Caret]
  <2>1. CASE (r + 1) * MAX_CODED < PCKTSIZE
    BY <1>1, <1>3, <1>4, <2>1, Zenon
  <2>2. CASE ~ ((r + 1) * MAX_CODED < PCKTSIZE)
    BY <1>1, <1>3, <1>4, <2>2, Zenon
  <2> QED
    BY <2>1, <2>2
<1> HIDE DEF head, own
<1>8. OwnCells(t)
  BY <1>3, <1>5, <1>7 DEF OwnCells
<1>9. ASSUME NEW x PROVE Byte(x)' = Byte(x) /\ Before(x)' = Before(x)
  BY <1>5 DEF Byte, Before
<1>10. /\ uncodedLookahead[head] = Byte(Position(t, r))
       /\ slidingWindow[head] = Byte(Position(t, r - 1))
  BY <1>2, <1>6 DEF RoundData, head
<1>11. Before(Position(t, r) - M) = Byte(Position(t, r - 1))
  BY <1>4 DEF Before
<1>12. /\ uncodedLookahead'[head] = Byte(Position(t, r))
       /\ slidingWindow'[head] = Before(Position(t, r) - M)
       /\ r + 1 < Rounds => /\ uncodedLookahead'[own] = Byte(Position(t, r + 1))
                            /\ slidingWindow'[own] = Byte(Position(t, r))
  BY <1>3, <1>5, <1>7, <1>10, <1>11
<1>13. RoundData(t, r)'
  BY <1>9, <1>12 DEF RoundData, head, own
<1>14. phase'[t] = EmitPhase(r)
  BY <1>2, <1>5, PhaseFacts
<1>15. ThreadData(t)'
  BY <1>2, <1>13, <1>14, InRound
<1>16. ShiftPhase(r) \in 0 .. AfterLast - 1
  BY PhaseFacts, Sizes
<1> QED
  BY <1>5, <1>8, <1>15, <1>16, ThreadStep

\* When a thread writes a token, all are in its round.
LEMMA AllInRound ==
    ASSUME NEW t \in Threads, NEW r \in 0 .. Rounds - 1, KernelOK, Step(t, EmitPhase(r)),
           NEW u \in Threads
    PROVE  RoundData(u, r)
<1>1. /\ phase \in [Threads -> 0 .. AfterLast] /\ phase[t] = EmitPhase(r)
      /\ phase[u] >= phase[t] /\ phase[u] <= phase[t] + 1
      /\ ThreadData(u)
  BY DEF KernelOK, Step, Barrier
<1>2. phase[u] \in Int /\ EmitPhase(r) \in Int
  BY <1>1, PhaseFacts
<1>3. phase[u] \in {EmitPhase(r), EmitPhase(r) + 1}
  BY <1>1, <1>2
<1> QED
  BY <1>1, <1>3 DEF ThreadData

LEMMA EmitKeeps ==
    ASSUME NEW t \in Threads, IInv, Emit(t)
    PROVE  IInv'
<1>1. PICK r \in 0 .. Rounds - 1 :
         LET head == (t + r * MAX_CODED) % Cyclic
             last == r = Rounds - 1
             match == FindMatch(t, head, head, last)
         IN  /\ Step(t, EmitPhase(r))
             /\ bufferout' = [bufferout EXCEPT ![block * PCKTSIZE + r * MAX_CODED + t + 1] =
                                 Token(t, match.length, match.offset, head, last)]
             /\ UNCHANGED <<slidingWindow, uncodedLookahead>>
  BY DEF Emit
<1> DEFINE h == Cell(t, r)
           last == r = Rounds - 1
           m == FindMatch(t, h, h, last)
           p == block * PCKTSIZE + r * MAX_CODED + t + 1
           token == Token(t, m.length, m.offset, h, last)
<1>2. /\ Step(t, EmitPhase(r)) /\ bufferout' = [bufferout EXCEPT ![p] = token]
      /\ slidingWindow' = slidingWindow /\ uncodedLookahead' = uncodedLookahead
  BY <1>1, Zenon DEF Cell
<1> HIDE DEF m, h, token, p
<1>3. /\ DOMAIN slidingWindow = 0 .. Cyclic - 1 /\ DOMAIN uncodedLookahead = 0 .. Cyclic - 1
      /\ phase \in [Threads -> 0 .. AfterLast] /\ ThreadData(t) /\ phase[t] = EmitPhase(r)
      /\ phase' = [phase EXCEPT ![t] = EmitPhase(r) + 1]
      /\ input' = input /\ block' = block /\ block \in Nat /\ KernelOK
      /\ input \in Inputs /\ DOMAIN bufferout = 1 .. Len(input) /\ TokensDecodable
  BY <1>2 DEF IInv, KernelOK, Step, buf_length
<1>4. \A u \in Threads : RoundData(u, r)
  BY <1>2, <1>3, AllInRound
<1>5. KernelOK'
  <2>1. OwnCells(t)
    BY <1>2, <1>3 DEF OwnCells
  <2>2. RoundData(t, r)'
    <3>1. ASSUME NEW x PROVE Byte(x)' = Byte(x) /\ Before(x)' = Before(x)
      BY <1>3 DEF Byte, Before
    <3> QED
      BY <1>2, <1>4, <3>1 DEF RoundData
  <2>3. phase'[t] = EmitPhase(r) + 1
    BY <1>3
  <2>4. ThreadData(t)'
    BY <2>2, <2>3, InRound
  <2>5. EmitPhase(r) \in 0 .. AfterLast - 1
    BY PhaseFacts, Sizes
  <2> QED
    BY <1>2, <1>3, <2>1, <2>4, <2>5, ThreadStep
<1>6. p \in 1 .. Len(input) => Describes(p, token)
  <2> SUFFICES ASSUME p \in 1 .. Len(input) PROVE Describes(p, token)
    OBVIOUS
  <2>1. input \in Seq(Symbol)
    BY <1>3, SizesAssumption
  <2>2. MatchFound(h, Steps(t, last), m)
    <3>1. r \in Nat /\ last \in BOOLEAN
      BY Sizes
    <3>2. h \in 0 .. Cyclic - 1
      BY <3>1, CellFacts DEF h
    <3> QED
      BY <3>1, <3>2, FindMatchIs DEF m
  <2>3. p = block * PCKTSIZE + r * MAX_CODED + t + 1
    BY DEF p
  <2>4. MatchFound(Cell(t, r), Steps(t, r = Rounds - 1), m)
    BY <2>2 DEF h
  <2>5. Describes(p, Token(t, m.length, m.offset, Cell(t, r), r = Rounds - 1))
    BY <1>3, <1>4, <2>1, <2>3, <2>4, TokenDescribes
  <2> QED
    BY <2>5 DEF token, h
<1>7. TokensDecodable'
  <2>1. ASSUME NEW q \in DOMAIN bufferout', bufferout'[q] # <<>>
        PROVE  Describes(q, bufferout'[q])
    <3>1. q \in 1 .. Len(input) /\ q \in DOMAIN bufferout
      BY <1>2, <1>3
    <3>2. CASE q = p
      BY <1>2, <1>6, <3>1, <3>2
    <3>3. CASE q # p
      <4>1. bufferout'[q] = bufferout[q]
        BY <1>2, <3>1, <3>3
      <4> QED
        BY <1>3, <2>1, <3>1, <4>1 DEF TokensDecodable, Describes
    <3> QED
      BY <3>2, <3>3
  <2>2. ASSUME NEW q, NEW x PROVE Describes(q, x)' = Describes(q, x)
    BY <1>3 DEF Describes, WindowAt
  <2> QED
    BY <2>1, <2>2, <1>3 DEF TokensDecodable, Describes, WindowAt
<1>8. DOMAIN bufferout' = 1 .. Len(input')
  BY <1>2, <1>3
<1> QED
  BY <1>3, <1>5, <1>7, <1>8 DEF IInv, buf_length
-----------------------------------------------------------------------------
(* The invariant is inductive.                                             *)

LEMMA InitHolds ==
    ASSUME Init
    PROVE  IInv
<1>1. /\ input \in Inputs /\ block = 0 /\ phase = [t \in Threads |-> 0]
      /\ slidingWindow = Cells /\ uncodedLookahead = Cells
      /\ bufferout = [p \in 1 .. buf_length |-> <<>>]
  BY DEF Init
<1>2. AfterLast \in Nat
  BY PhaseFacts
<1>3. ASSUME NEW t \in Threads PROVE ThreadData(t)
  <2>1. phase[t] = 0
    BY <1>1
  <2>2. \A r \in 0 .. Rounds - 1 : 0 \notin {EmitPhase(r), EmitPhase(r) + 1}
    BY PhaseFacts, Sizes
  <2> QED
    BY <2>1, <2>2 DEF ThreadData
<1>4. KernelOK
  BY <1>1, <1>2, <1>3 DEF KernelOK, Cells
<1>5. TokensDecodable
  BY <1>1 DEF TokensDecodable
<1> QED
  BY <1>1, <1>4, <1>5 DEF IInv

LEMMA NextBlockKeeps ==
    ASSUME IInv, NextBlock
    PROVE  IInv'
<1>1. /\ input' = input /\ bufferout' = bufferout
      /\ slidingWindow' = Cells /\ uncodedLookahead' = Cells
      /\ \/ block' = block + 1 /\ phase' = [t \in Threads |-> 0]
         \/ stage' = "pack"
      /\ stage = "kernel"
  BY DEF NextBlock
<1>2. KernelOK'
  <2>1. CASE stage' = "pack"
    BY <2>1 DEF KernelOK
  <2>2. CASE block' = block + 1 /\ phase' = [t \in Threads |-> 0]
    <3>1. AfterLast \in Nat /\ block' \in Nat
      <4>1. block \in Nat
        BY <1>1 DEF IInv, KernelOK
      <4> QED
        BY <2>2, <4>1, PhaseFacts
    <3>2. ASSUME NEW t \in Threads PROVE ThreadData(t)'
      <4>1. phase'[t] = 0
        BY <2>2
      <4>2. \A r \in 0 .. Rounds - 1 : 0 \notin {EmitPhase(r), EmitPhase(r) + 1}
        BY PhaseFacts, Sizes
      <4> QED
        BY <4>1, <4>2 DEF ThreadData
    <3> QED
      BY <1>1, <2>2, <3>1, <3>2 DEF KernelOK, Cells
  <2> QED
    BY <1>1, <2>1, <2>2
<1> QED
  BY <1>1, <1>2 DEF IInv, TokensDecodable, WindowAt, buf_length

\* Outside the kernel nothing of the invariant changes.
LEMMA AfterKernelKeeps ==
    ASSUME IInv, stage # "kernel", input' = input, bufferout' = bufferout,
           stage' # "kernel"
    PROVE  IInv'
BY DEF IInv, KernelOK, TokensDecodable, WindowAt, buf_length

LEMMA ThreadKeeps ==
    ASSUME NEW t \in Threads, IInv,
           Fill(t) \/ LoadFirst(t) \/ LoadSecond(t) \/ Emit(t) \/ Shift(t)
    PROVE  IInv'
<1>1. CASE Emit(t)
  BY <1>1, EmitKeeps
<1>2. CASE Fill(t) \/ LoadFirst(t) \/ LoadSecond(t) \/ Shift(t)
  <2>1. KernelOK'
    BY <1>2, FillKeeps, LoadFirstKeeps, LoadSecondKeeps, ShiftKeeps DEF IInv
  <2>2. input' = input /\ bufferout' = bufferout
    BY <1>2 DEF Fill, LoadFirst, LoadSecond, Shift, Step
  <2> QED
    BY <2>1, <2>2 DEF IInv, TokensDecodable, WindowAt, buf_length
<1> QED
  BY <1>1, <1>2

LEMMA NextKeeps ==
    ASSUME IInv, [Next]_vars
    PROVE  IInv'
<1>1. CASE \E t \in Threads : Fill(t) \/ LoadFirst(t) \/ LoadSecond(t) \/ Emit(t) \/ Shift(t)
  BY <1>1, ThreadKeeps
<1>2. CASE NextBlock
  BY <1>2, NextBlockKeeps
<1>3. CASE PackToken \/ TookMore \/ AddTrailer
  <2>1. stage = "pack" /\ stage' \in {"pack", "chunk"} /\ input' = input /\ bufferout' = bufferout
    BY <1>3 DEF PackToken, TookMore, AddTrailer, kernel
  <2> QED
    BY <2>1, AfterKernelKeeps
<1>4. CASE TakenForRaw \/ Overrun \/ CopyBack \/ \E b \in Packets : DecodeKernel(b)
  <2>1. /\ stage = "chunk" /\ stage' \in {"chunk", "end", "lost"}
        /\ input' = input /\ bufferout' = bufferout
    BY <1>4 DEF TakenForRaw, Overrun, CopyBack, DecodeKernel, kernel
  <2> QED
    BY <2>1, AfterKernelKeeps
<1>5. CASE UNCHANGED vars
  BY <1>5, ZenonT(30) DEF vars, IInv, KernelOK, ThreadData, RoundData, Byte, Before,
     TokensDecodable, WindowAt, buf_length
<1> QED
  BY <1>1, <1>2, <1>3, <1>4, <1>5 DEF Next

-----------------------------------------------------------------------------
(* The theorems.                                                           *)

\* Every reachable state satisfies the inductive invariant: what the cells of
\* slidingWindow and uncodedLookahead hold for each thread at its phase.
THEOREM Invariance == Spec => []IInv
<1>1. Init => IInv
  BY InitHolds
<1>2. IInv /\ [Next]_vars => IInv'
  BY NextKeeps
<1> QED
  BY <1>1, <1>2, PTL DEF Spec

\* EncodeKernel (gpu_compress.cu) leaves tokens that say what follows, in terms
\* of the window DecodeKernel will have: for every number of threads and of
\* rounds, every buffer, and every order of the threads between two barriers.
THEOREM KernelTokensDecodable == Spec => []TokensDecodable
<1>1. IInv => TokensDecodable
  BY DEF IInv
<1> QED
  BY Invariance, <1>1, PTL

-----------------------------------------------------------------------------
(* The decoder of a packet.                                                *)

\* What the bytes of a chunk are taken for: symbols, and numbers.
Bytes == Symbol \cup Nat

DecodeState == [at : Nat, flags : Nat, flagsUsed : Nat, out : Seq(Symbol), end : BOOLEAN]

\* One pass of DecodeKernel's loop, and where n of them lead.
DecodePass(d, in) == IF d.end THEN d ELSE ReadToken(ReadFlags(d, in), in)
Reaches(in, n, d) ==
    \E f : /\ f[0] = DecodeStart /\ f[n] = d
           /\ \A k \in 1 .. n : f[k] = DecodePass(f[k - 1], in)

LEMMA ReachesStart == ASSUME NEW in PROVE Reaches(in, 0, DecodeStart)
<1> DEFINE f == [k \in {0} |-> DecodeStart]
<1>1. f[0] = DecodeStart /\ \A k \in 1 .. 0 : f[k] = DecodePass(f[k - 1], in)
  OBVIOUS
<1> HIDE DEF f
<1> QED
  BY <1>1 DEF Reaches

LEMMA ReachesNext ==
    ASSUME NEW in, NEW n \in Nat, NEW d, Reaches(in, n, d)
    PROVE  Reaches(in, n + 1, DecodePass(d, in))
<1>1. PICK f : /\ f[0] = DecodeStart /\ f[n] = d
               /\ \A k \in 1 .. n : f[k] = DecodePass(f[k - 1], in)
  BY DEF Reaches
<1> DEFINE e == DecodePass(d, in)
           g == [k \in 0 .. n + 1 |-> IF k <= n THEN f[k] ELSE e]
<1> HIDE DEF e
<1>2. g[0] = DecodeStart /\ g[n + 1] = e /\ \A k \in 0 .. n : g[k] = f[k]
  BY <1>1
<1> HIDE DEF g
<1>3. ASSUME NEW k \in 1 .. n + 1 PROVE g[k] = DecodePass(g[k - 1], in)
  <2>1. k - 1 \in 0 .. n /\ g[k - 1] = f[k - 1]
    BY <1>2
  <2>2. CASE k \in 1 .. n
    <3>1. g[k] = f[k] /\ f[k] = DecodePass(f[k - 1], in)
      BY <1>1, <1>2, <2>2
    <3> QED
      BY <2>1, <3>1
  <2>3. CASE k = n + 1
    <3>1. k - 1 = n /\ g[k] = e
      BY <1>2, <2>3
    <3> QED
      BY <1>1, <2>1, <3>1 DEF e
  <2> QED
    BY <2>2, <2>3
<1> QED
  BY <1>2, <1>3 DEF Reaches, e

\* When all of a packet has been read, one more pass ends the loop.
LEMMA PassAtEnd ==
    ASSUME NEW in \in Seq(Bytes), NEW d \in DecodeState, d.at = Len(in)
    PROVE  /\ DecodePass(d, in).end = TRUE
           /\ DecodePass(d, in).out = d.out
<1> DEFINE e == ReadFlags(d, in)
<1>1. /\ d.at \in Nat /\ d.flags \in Nat /\ d.end \in BOOLEAN /\ Len(in) \in Nat
  BY DEF DecodeState
<1>2. CASE d.end
  BY <1>1, <1>2 DEF DecodePass
<1>3. CASE ~ d.end
  <2>1. /\ e.out = d.out /\ DOMAIN e = {"at", "flags", "flagsUsed", "out", "end"}
        /\ e.end \/ e.at = Len(in)
        /\ e.end \in BOOLEAN
    <3>1. \/ e = [d EXCEPT !.flags = @ \div 2, !.flagsUsed = @ + 1]
          \/ e = [d EXCEPT !.end = TRUE]
      BY <1>1 DEF ReadFlags
    <3> HIDE DEF e
    <3>2. CASE e = [d EXCEPT !.flags = @ \div 2, !.flagsUsed = @ + 1]
      BY <1>1, <1>3, <3>2 DEF DecodeState
    <3>3. CASE e = [d EXCEPT !.end = TRUE]
      BY <1>1, <1>3, <3>3 DEF DecodeState
    <3> QED
      BY <3>1, <3>2, <3>3
  <2> HIDE DEF e
  <2>2. /\ ReadToken(e, in).end = TRUE /\ ReadToken(e, in).out = e.out
    <3>1. CASE e.end
      BY <2>1, <3>1 DEF ReadToken
    <3>2. CASE ~ e.end
      <4>1. e.at >= Len(in) /\ e.at + 1 >= Len(in)
        BY <1>1, <2>1, <3>2
      <4>2. ReadToken(e, in) = [e EXCEPT !.end = TRUE]
        BY <3>2, <4>1 DEF ReadToken
      <4> QED
        BY <2>1, <4>2
    <3> QED
      BY <3>1, <3>2
  <2>3. DecodePass(d, in) = ReadToken(e, in)
    BY <1>3 DEF DecodePass, e
  <2> QED
    BY <2>1, <2>2, <2>3
<1> QED
  BY <1>2, <1>3

\* DecodePacket returns what has been written when the packet is read.
LEMMA PacketDecoded ==
    ASSUME NEW in \in Seq(Bytes), NEW n \in Nat, n <= Len(in),
           NEW d \in DecodeState, d.at = Len(in), Reaches(in, n, d)
    PROVE  DecodePacket(in) = d.out
<1> DEFINE N == FLAGS * Len(in) + 1
           e == DecodePass(d, in)
           Def(p) == p = [k \in 0 .. N |-> IF k = 0 THEN DecodeStart
                                           ELSE LET c == p[k - 1]
                                                IN  IF c.end THEN c
                                                    ELSE ReadToken(ReadFlags(c, in), in)]
<1>1. N \in Nat /\ n + 1 <= N
  <2>1. ASSUME NEW a \in Nat \ {0}, NEW l \in Nat PROVE a * l \in Nat /\ l <= a * l
    BY <2>1
  <2>2. FLAGS \in Nat \ {0} /\ Len(in) \in Nat
    BY SizesAssumption
  <2>3. FLAGS * Len(in) \in Nat /\ Len(in) <= FLAGS * Len(in)
    BY <2>1, <2>2, Zenon
  <2> QED
    BY <2>2, <2>3
<1>2. e.end = TRUE /\ e.out = d.out
  BY PassAtEnd
<1>3. Reaches(in, n + 1, e)
  BY ReachesNext
<1>4. DecodePacket(in) = (CHOOSE p : Def(p))[N].out
  BY Zenon DEF DecodePacket
<1> HIDE DEF N, e
<1>5. PICK f : /\ f[0] = DecodeStart /\ f[n + 1] = e
               /\ \A k \in 1 .. n + 1 : f[k] = DecodePass(f[k - 1], in)
  BY <1>3 DEF Reaches
<1> DEFINE g == [k \in 0 .. N |-> IF k <= n + 1 THEN f[k] ELSE e]
<1>6. DOMAIN g = 0 .. N /\ \A k \in 0 .. N : g[k] = IF k <= n + 1 THEN f[k] ELSE e
  OBVIOUS
<1>7. g = [k \in 0 .. N |-> g[k]]
  OBVIOUS
<1> HIDE DEF g
<1>8. g[0] = DecodeStart /\ g[N] = e
  BY <1>1, <1>5, <1>6
<1>9. ASSUME NEW k \in 1 .. N PROVE g[k] = DecodePass(g[k - 1], in)
  <2>1. k \in 0 .. N /\ k - 1 \in 0 .. N /\ k - 1 \in Nat
    BY <1>1
  <2>2. CASE k <= n + 1
    <3>1. g[k] = f[k] /\ g[k - 1] = f[k - 1] /\ k \in 1 .. n + 1
      BY <1>6, <2>1, <2>2
    <3> QED
      BY <1>5, <3>1
  <2>3. CASE ~ (k <= n + 1)
    <3>1. g[k] = e /\ g[k - 1] = e
      BY <1>5, <1>6, <2>1, <2>3
    <3>2. DecodePass(e, in) = e
      BY <1>2 DEF DecodePass
    <3> QED
      BY <3>1, <3>2
  <2> QED
    BY <2>2, <2>3
<1>10. Def(g)
  <2>1. ASSUME NEW k \in 0 .. N
        PROVE  g[k] = IF k = 0 THEN DecodeStart
                      ELSE LET c == g[k - 1]
                           IN  IF c.end THEN c ELSE ReadToken(ReadFlags(c, in), in)
    <3>1. CASE k = 0
      BY <1>8, <3>1
    <3>2. CASE k # 0
      <4>1. k \in 1 .. N
        BY <1>1, <3>2
      <4>2. g[k] = DecodePass(g[k - 1], in)
        BY <1>9, <4>1
      <4> QED
        BY <3>2, <4>2, Zenon DEF DecodePass
    <3> QED
      BY <3>1, <3>2
  <2> QED
    BY <1>7, <2>1
<1> DEFINE s == CHOOSE p : Def(p)
<1>11. Def(s)
  <2> HIDE DEF Def
  <2> QED
    BY <1>10
<1>12. DecodePacket(in) = s[N].out
  BY <1>4
<1> HIDE DEF s
<1>13. /\ s[0] = DecodeStart
       /\ \A k \in 1 .. N : s[k] = DecodePass(s[k - 1], in)
  <2>1. s[0] = DecodeStart
    BY <1>1, <1>11
  <2>2. ASSUME NEW k \in 1 .. N PROVE s[k] = DecodePass(s[k - 1], in)
    <3>1. k \in 0 .. N /\ k # 0
      BY <1>1
    <3>2. s[k] = IF k = 0 THEN DecodeStart
                 ELSE LET c == s[k - 1]
                      IN  IF c.end THEN c ELSE ReadToken(ReadFlags(c, in), in)
      BY <1>11, <3>1
    <3> QED
      BY <3>1, <3>2, Zenon DEF DecodePass
  <2> QED
    BY <2>1, <2>2
<1> HIDE DEF Def
<1> DEFINE Odd == {k \in 0 .. N : s[k] # g[k]}
<1>14. Odd = {}
  <2> SUFFICES ASSUME Odd # {} PROVE FALSE
    OBVIOUS
  <2>1. PICK k \in Odd : \A j \in Odd : k <= j
    <3>1. Odd \in SUBSET Nat
      OBVIOUS
    <3> QED
      BY <3>1, LeastExists
  <2>2. k \in 0 .. N /\ s[k] # g[k]
    OBVIOUS
  <2>3. k # 0
    BY <1>8, <1>13, <2>2
  <2>4. k \in 1 .. N /\ k - 1 \in 0 .. N /\ ~ (k <= k - 1)
    BY <1>1, <2>2, <2>3
  <2>5. k - 1 \notin Odd
    <3> HIDE DEF Odd
    <3> QED
      BY <2>1, <2>4
  <2>6. s[k - 1] = g[k - 1]
    BY <2>4, <2>5
  <2> QED
    BY <1>9, <1>13, <2>2, <2>4, <2>6
<1>15. s[N] = g[N]
  BY <1>1, <1>14
<1> QED
  BY <1>2, <1>8, <1>12, <1>15
-----------------------------------------------------------------------------
(* The bits of a flag byte.                                                *)

LEMMA FlagBits ==
    /\ FlagBit \in [0 .. FLAGS - 1 -> Nat \ {0}]
    /\ FlagBit[0] = 1
    /\ \A k \in 1 .. FLAGS - 1 : FlagBit[k] = 2 * FlagBit[k - 1]
<1> DEFINE N == FLAGS - 1
           P == Nat \ {0}
           g == [x \in P |-> 2 * x]
           Def(z) == z = [k \in 0 .. N |-> IF k = 0 THEN 1 ELSE 2 * z[k - 1]]
<1>1. N \in Nat
  BY SizesAssumption
<1>2. PICK f \in [0 .. N -> P] : f[0] = 1 /\ \A k \in 1 .. N : f[k] = g[f[k - 1]]
  <2>1. 1 \in P /\ g \in [P -> P]
    OBVIOUS
  <2> HIDE DEF N, P, g
  <2>2. Iterated(P, 1, N, g)
    BY <1>1, <2>1, IteratedExists, Zenon
  <2> QED
    BY <2>2 DEF Iterated
<1>3. FlagBit = CHOOSE z : Def(z)
  BY Zenon DEF FlagBit
<1> HIDE DEF N
<1>4. \A k \in 1 .. N : f[k] = 2 * f[k - 1]
  <2>1. ASSUME NEW k \in 1 .. N PROVE f[k] = 2 * f[k - 1]
    <3>1. k - 1 \in 0 .. N
      BY <1>1
    <3> QED
      BY <1>2, <3>1
  <2> QED
    BY <2>1
<1>5. Def(f)
  BY <1>1, <1>2, <1>4
<1>6. Def(FlagBit)
  <2> HIDE DEF Def
  <2> QED
    BY <1>3, <1>5
<1>7. FlagBit[0] = 1 /\ \A k \in 1 .. N : FlagBit[k] = 2 * FlagBit[k - 1]
  BY <1>1, <1>6
<1>8. DOMAIN FlagBit = 0 .. N /\ FlagBit = [k \in DOMAIN FlagBit |-> FlagBit[k]]
  BY <1>6
<1> HIDE DEF Def, g
<1> DEFINE Bad == {k \in 0 .. N : FlagBit[k] \notin P}
<1>9. Bad = {}
  <2> SUFFICES ASSUME Bad # {} PROVE FALSE
    OBVIOUS
  <2>1. PICK k \in Bad : \A j \in Bad : k <= j
    <3>1. Bad \in SUBSET Nat
      OBVIOUS
    <3> QED
      BY <3>1, LeastExists
  <2>2. k \in 0 .. N /\ FlagBit[k] \notin P
    OBVIOUS
  <2>3. k # 0
    BY <1>7, <2>2
  <2>4. k \in 1 .. N /\ k - 1 \in 0 .. N /\ ~ (k <= k - 1)
    BY <1>1, <2>2, <2>3
  <2>5. k - 1 \notin Bad
    <3> HIDE DEF Bad
    <3> QED
      BY <2>1, <2>4
  <2>6. FlagBit[k - 1] \in P
    BY <2>4, <2>5
  <2> QED
    BY <1>7, <2>2, <2>4, <2>6
<1> QED
  BY <1>7, <1>8, <1>9 DEF N

\* The last bit is the largest.
LEMMA TopIsLast ==
    ASSUME NEW k \in 0 .. FLAGS - 1
    PROVE  /\ FlagBit[k] \in 1 .. Top
           /\ FlagBit[k] = Top <=> k = FLAGS - 1
<1> DEFINE N == FLAGS - 1
           Bad == {j \in 0 .. N : ~ \A i \in 0 .. j : i < j => FlagBit[i] < FlagBit[j]}
<1>1. /\ N \in Nat /\ \A j \in 0 .. N : FlagBit[j] \in Nat \ {0}
      /\ \A j \in 1 .. N : FlagBit[j] = 2 * FlagBit[j - 1]
  BY FlagBits, SizesAssumption
<1> HIDE DEF N
<1>2. Bad = {}
  <2> SUFFICES ASSUME Bad # {} PROVE FALSE
    OBVIOUS
  <2>1. PICK j \in Bad : \A i \in Bad : j <= i
    <3>1. Bad \in SUBSET Nat
      OBVIOUS
    <3> QED
      BY <3>1, LeastExists
  <2>2. PICK i \in 0 .. j : i < j /\ ~ (FlagBit[i] < FlagBit[j])
    OBVIOUS
  <2>3. j \in 0 .. N
    OBVIOUS
  <2>4. j \in 1 .. N /\ j - 1 \in 0 .. N /\ ~ (j <= j - 1) /\ i \in 0 .. j - 1
    BY <1>1, <2>2, <2>3
  <2>5. j - 1 \notin Bad
    <3> HIDE DEF Bad
    <3> QED
      BY <2>1, <2>4
  <2>6. i < j - 1 => FlagBit[i] < FlagBit[j - 1]
    BY <2>4, <2>5
  <2>7. /\ FlagBit[i] \in Nat /\ FlagBit[j - 1] \in Nat \ {0}
        /\ FlagBit[j] = 2 * FlagBit[j - 1]
    BY <1>1, <2>4
  <2>8. CASE i = j - 1
    BY <2>2, <2>7, <2>8
  <2>9. CASE i < j - 1
    BY <2>2, <2>6, <2>7, <2>9
  <2> QED
    BY <2>4, <2>8, <2>9
<1>3. k \in 0 .. N /\ N \in 0 .. N
  BY <1>1 DEF N
<1>4. k < N => FlagBit[k] < FlagBit[N]
  BY <1>1, <1>2, <1>3
<1>5. FlagBit[k] \in Nat \ {0} /\ FlagBit[N] \in Nat \ {0} /\ Top = FlagBit[N]
  BY <1>1, <1>3 DEF Top, N
<1>6. k < N \/ k = N
  BY <1>1, <1>3
<1> HIDE DEF Bad
<1>7. CASE k = N
  BY <1>5, <1>7 DEF N
<1>8. CASE k < N
  <2>1. k # N
    BY <1>1, <1>3, <1>8
  <2> QED
    BY <1>4, <1>5, <1>8, <2>1 DEF N
<1> QED
  BY <1>6, <1>7, <1>8

-----------------------------------------------------------------------------
(* A token is decoded.                                                     *)

Tokens == {x \in (Nat \ {0}) \X Bytes : x[1] # 1 => x[2] \in Nat}

\* What aftercomp writes of a token behind its flag.
Written(token) == IF token[1] = 1 THEN <<token[2]>> ELSE token
FlagOf(token) == IF token[1] = 1 THEN 1 ELSE 0

LEMMA WrittenIs ==
    ASSUME NEW token \in Tokens
    PROVE  /\ token[1] \in Nat \ {0} /\ token[2] \in Bytes
           /\ token[1] # 1 => token[2] \in Nat
           /\ Written(token) \in Seq(Bytes)
           /\ FlagOf(token) \in {0, 1}
           /\ token[1] = 1 => /\ Len(Written(token)) = 1 /\ Written(token)[1] = token[2]
                              /\ FlagOf(token) = 1
           /\ token[1] # 1 => /\ Len(Written(token)) = 2 /\ Written(token)[1] = token[1]
                              /\ Written(token)[2] = token[2] /\ FlagOf(token) = 0
<1>1. PICK n \in Nat \ {0}, v \in Bytes : token = <<n, v>>
  BY DEF Tokens
<1>2. token[1] = n /\ token[2] = v /\ n \in Bytes
  BY <1>1 DEF Bytes
<1>3. <<v>> \in Seq(Bytes) /\ Len(<<v>>) = 1 /\ <<v>>[1] = v
  OBVIOUS
<1>4. <<n, v>> \in Seq(Bytes) /\ Len(<<n, v>>) = 2 /\ <<n, v>>[1] = n /\ <<n, v>>[2] = v
  BY <1>2
<1>5. n # 1 => v \in Nat
  BY <1>1, <1>2 DEF Tokens
<1>6. CASE n = 1
  <2>1. Written(token) = <<v>> /\ FlagOf(token) = 1
    BY <1>2, <1>6 DEF Written, FlagOf
  <2> QED
    BY <1>2, <1>3, <1>6, <2>1
<1>7. CASE n # 1
  <2>1. Written(token) = <<n, v>> /\ FlagOf(token) = 0
    BY <1>1, <1>2, <1>7 DEF Written, FlagOf
  <2> QED
    BY <1>2, <1>4, <1>5, <1>7, <2>1
<1> QED
  BY <1>6, <1>7

\* The bytes from a to b of the input.
Part(a, b) == SubSeq(input, a + 1, b)

LEMMA PartIs ==
    ASSUME input \in Seq(Symbol), NEW a \in Nat, NEW b \in Nat, a <= b, b <= Len(input)
    PROVE  /\ Part(a, b) \in Seq(Symbol) /\ Len(Part(a, b)) = b - a
           /\ \A k \in 1 .. b - a : Part(a, b)[k] = input[a + k]
<1>1. Len(input) \in Nat /\ \A k \in 1 .. Len(input) : input[k] \in Symbol
  OBVIOUS
<1> QED
  BY <1>1 DEF Part

\* What token says of the bytes behind the first i, when those of the packet
\* from start on are decoded; and what flag the decoder goes by.
Says(start, i, token) ==
    IF token[1] = 1 THEN token[2] = input[i + 1]
    ELSE \A q \in 1 .. token[1] :
            input[i + q] = WindowAt(Part(start, i), (token[2] + q - 1) % WINDOW_SIZE)
Flagged(d) == d.flags % 2 = 1

\* Decoding goes on where it was.
LEMMA PartAppended ==
    ASSUME input \in Seq(Symbol), NEW start \in Nat, NEW i \in Nat, start <= i,
           i + 1 <= Len(input)
    PROVE  Append(Part(start, i), input[i + 1]) = Part(start, i + 1)
<1> DEFINE s == Part(start, i)
           z == Part(start, i + 1)
           v == input[i + 1]
<1>1. /\ s \in Seq(Symbol) /\ Len(s) = i - start
      /\ \A k \in 1 .. i - start : s[k] = input[start + k]
  <2>1. i <= Len(input)
    OBVIOUS
  <2> QED
    BY <2>1, PartIs
<1>2. /\ z \in Seq(Symbol) /\ Len(z) = (i + 1) - start
      /\ \A k \in 1 .. (i + 1) - start : z[k] = input[start + k]
  <2>1. i + 1 \in Nat /\ start <= i + 1
    OBVIOUS
  <2> QED
    BY <2>1, PartIs
<1>3. v \in Symbol
  OBVIOUS
<1> HIDE DEF s, z
<1>4. /\ Append(s, v) \in Seq(Symbol) /\ Len(Append(s, v)) = Len(s) + 1
      /\ \A k \in 1 .. Len(s) : Append(s, v)[k] = s[k]
      /\ Append(s, v)[Len(s) + 1] = v
  BY <1>1, <1>3, AppendProperties
<1>5. ASSUME NEW k \in 1 .. (i + 1) - start PROVE Append(s, v)[k] = z[k]
  <2>1. CASE k = (i + 1) - start
    <3>1. k = Len(s) + 1 /\ start + k = i + 1
      BY <1>1, <2>1
    <3> QED
      BY <1>2, <1>4, <3>1
  <2>2. CASE k # (i + 1) - start
    <3>1. k \in 1 .. i - start
      BY <2>2
    <3> QED
      BY <1>1, <1>2, <1>4, <3>1
  <2> QED
    BY <2>1, <2>2
<1>6. Len(Append(s, v)) = Len(z)
  BY <1>1, <1>2, <1>4
<1>7. Append(s, v) = z
  BY <1>2, <1>4, <1>5, <1>6, SeqEqual
<1> QED
  BY <1>7 DEF s, z

LEMMA PartExtended ==
    ASSUME input \in Seq(Symbol), NEW start \in Nat, NEW i \in Nat, start <= i,
           NEW w \in Seq(Symbol), i + Len(w) <= Len(input),
           \A q \in 1 .. Len(w) : w[q] = input[i + q]
    PROVE  Part(start, i) \o w = Part(start, i + Len(w))
<1> DEFINE s == Part(start, i)
           n == Len(w)
           z == Part(start, i + n)
<1>0. n \in Nat /\ Len(input) \in Nat
  OBVIOUS
<1>1. /\ s \in Seq(Symbol) /\ Len(s) = i - start
      /\ \A k \in 1 .. i - start : s[k] = input[start + k]
  <2>1. i <= Len(input)
    BY <1>0
  <2> QED
    BY <2>1, PartIs
<1>2. /\ z \in Seq(Symbol) /\ Len(z) = (i + n) - start
      /\ \A k \in 1 .. (i + n) - start : z[k] = input[start + k]
  <2>1. i + n \in Nat /\ start <= i + n
    BY <1>0
  <2> QED
    BY <2>1, PartIs
<1> HIDE DEF s, z
<1>4. /\ s \o w \in Seq(Symbol) /\ Len(s \o w) = Len(s) + n
      /\ \A k \in 1 .. Len(s) + n :
            (s \o w)[k] = IF k <= Len(s) THEN s[k] ELSE w[k - Len(s)]
  BY <1>1, ConcatProperties
<1>5. ASSUME NEW k \in 1 .. (i + n) - start PROVE (s \o w)[k] = z[k]
  <2>1. CASE k <= i - start
    BY <1>0, <1>1, <1>2, <1>4, <2>1
  <2>2. CASE ~ (k <= i - start)
    <3>1. /\ k - (i - start) \in 1 .. n /\ i + (k - (i - start)) = start + k
          /\ k \in 1 .. Len(s) + n /\ ~ (k <= Len(s))
      BY <1>0, <1>1, <2>2
    <3>2. (s \o w)[k] = w[k - (i - start)]
      BY <1>1, <1>4, <3>1
    <3>3. w[k - (i - start)] = input[i + (k - (i - start))]
      BY <3>1
    <3> QED
      BY <1>2, <3>1, <3>2, <3>3
  <2> QED
    BY <2>1, <2>2
<1>6. Len(s \o w) = Len(z)
  BY <1>0, <1>1, <1>2, <1>4
<1>7. s \o w = z
  BY <1>2, <1>4, <1>5, <1>6, SeqEqual
<1> QED
  BY <1>7 DEF s, z

\* The two branches of the decoder's loop.
Goes(e, d, at, out) ==
    /\ d \in DecodeState /\ d.at = at /\ d.out = out
    /\ d.flags = e.flags /\ d.flagsUsed = e.flagsUsed /\ ~ d.end

LEMMA ReadUncoded ==
    ASSUME NEW in \in Seq(Bytes), NEW e \in DecodeState, ~ e.end, Flagged(e),
           e.at + 1 <= Len(in), in[e.at + 1] \in Symbol
    PROVE  Goes(e, ReadToken(e, in), e.at + 1, Append(e.out, in[e.at + 1]))
<1>1. /\ e.at \in Nat /\ e.out \in Seq(Symbol) /\ Len(in) \in Nat
  BY DEF DecodeState
<1>2. ~ (e.at >= Len(in))
  BY <1>1
<1>3. ReadToken(e, in) = [e EXCEPT !.out = Append(@, in[e.at + 1]), !.at = @ + 1]
  BY <1>2 DEF ReadToken, Flagged
<1>4. Append(e.out, in[e.at + 1]) \in Seq(Symbol) /\ e.at + 1 \in Nat
  BY <1>1
<1> QED
  BY <1>3, <1>4 DEF Goes, DecodeState

LEMMA ReadCoded ==
    ASSUME NEW in \in Seq(Bytes), NEW e \in DecodeState, ~ e.end, ~ Flagged(e),
           e.at + 2 <= Len(in), NEW w \in Seq(Symbol),
           w = [q \in 1 .. in[e.at + 1] |->
                   WindowAt(e.out, (in[e.at + 2] + q - 1) % WINDOW_SIZE)]
    PROVE  Goes(e, ReadToken(e, in), e.at + 2, e.out \o w)
<1>1. /\ e.at \in Nat /\ e.out \in Seq(Symbol) /\ Len(in) \in Nat
  BY DEF DecodeState
<1>2. ~ (e.at + 1 >= Len(in))
  BY <1>1
<1>3. ReadToken(e, in) = [e EXCEPT !.at = @ + 2, !.out = @ \o w]
  BY <1>2, Zenon DEF ReadToken, Flagged
<1>4. e.out \o w \in Seq(Symbol) /\ e.at + 2 \in Nat
  BY <1>1, ConcatProperties
<1> QED
  BY <1>3, <1>4 DEF Goes, DecodeState

\* The bytes of a token, which stand at e.at in the packet.
StandsAt(in, at, bytes) ==
    at + Len(bytes) <= Len(in) /\ \A j \in 1 .. Len(bytes) : in[at + j] = bytes[j]

LEMMA TokenDecoded ==
    ASSUME input \in Seq(Symbol), NEW in \in Seq(Bytes), NEW e \in DecodeState, ~ e.end,
           NEW token \in Tokens, NEW start \in Nat, NEW i \in Nat, start <= i,
           Flagged(e) <=> token[1] = 1,
           Says(start, i, token), e.out = Part(start, i),
           i + token[1] <= Len(input), StandsAt(in, e.at, Written(token))
    PROVE  Goes(e, ReadToken(e, in), e.at + Len(Written(token)), Part(start, i + token[1]))
<1>1. e.at \in Nat /\ Len(in) \in Nat /\ Len(input) \in Nat
  BY DEF DecodeState
<1>2. CASE token[1] = 1
  <2>1. Len(Written(token)) = 1 /\ Written(token)[1] = token[2]
    BY <1>2, WrittenIs
  <2>2. e.at + 1 <= Len(in) /\ in[e.at + 1] = Written(token)[1]
    <3>1. 1 \in 1 .. 1
      OBVIOUS
    <3> QED
      BY <2>1, <3>1 DEF StandsAt
  <2>3. token[2] = input[i + 1]
    BY <1>2 DEF Says
  <2>4. i + 1 <= Len(input) /\ i + 1 \in 1 .. Len(input)
    BY <1>1, <1>2
  <2>5. input[i + 1] \in Symbol
    BY <2>4
  <2>6. Goes(e, ReadToken(e, in), e.at + 1, Append(e.out, in[e.at + 1]))
    BY <1>2, <2>1, <2>2, <2>3, <2>5, ReadUncoded
  <2>7. Append(e.out, in[e.at + 1]) = Part(start, i + 1)
    BY <2>1, <2>2, <2>3, <2>4, PartAppended
  <2> QED
    BY <1>2, <2>1, <2>6, <2>7
<1>3. CASE token[1] # 1
  <2> DEFINE n == token[1]
             v == token[2]
             w == [q \in 1 .. n |-> WindowAt(e.out, (v + q - 1) % WINDOW_SIZE)]
  <2>1. /\ Len(Written(token)) = 2 /\ Written(token)[1] = n
        /\ Written(token)[2] = v /\ n \in Nat /\ v \in Nat
    BY <1>3, WrittenIs
  <2>2. e.at + 2 <= Len(in) /\ in[e.at + 1] = n /\ in[e.at + 2] = v
    <3>1. 1 \in 1 .. 2 /\ 2 \in 1 .. 2
      OBVIOUS
    <3> QED
      BY <2>1, <3>1 DEF StandsAt
  <2>3. \A q \in 1 .. n : w[q] = input[i + q]
    <3>1. \A q \in 1 .. n : input[i + q] = WindowAt(e.out, (v + q - 1) % WINDOW_SIZE)
      BY <1>3 DEF Says
    <3> QED
      BY <3>1
  <2> HIDE DEF n, v
  <2>4. i + n <= Len(input)
    BY DEF n
  <2>5. \A q \in 1 .. n : i + q \in 1 .. Len(input)
    BY <1>1, <2>1, <2>4
  <2>6. w \in [1 .. n -> Symbol]
    <3>1. \A q \in 1 .. n : w[q] \in Symbol
      BY <2>3, <2>5
    <3>2. w = [q \in 1 .. n |-> w[q]]
      OBVIOUS
    <3> HIDE DEF w
    <3> QED
      BY <3>1, <3>2
  <2>7. w \in Seq(Symbol) /\ Len(w) = n
    <3> HIDE DEF w
    <3> QED
      BY <2>1, <2>6
  <2>8. Goes(e, ReadToken(e, in), e.at + 2, e.out \o w)
    <3>1. w = [q \in 1 .. in[e.at + 1] |->
                   WindowAt(e.out, (in[e.at + 2] + q - 1) % WINDOW_SIZE)]
      BY <2>2
    <3>2. ~ Flagged(e)
      BY <1>3
    <3> HIDE DEF w
    <3> QED
      BY <2>2, <2>7, <3>1, <3>2, ReadCoded
  <2> HIDE DEF w
  <2>9. e.out \o w = Part(start, i + n)
    BY <2>3, <2>4, <2>7, PartExtended
  <2> QED
    BY <2>1, <2>8, <2>9 DEF n
<1> QED
  BY <1>2, <1>3
-----------------------------------------------------------------------------
(* A group of tokens is decoded.                                           *)

\* The bytes of a packet when f is written and the next k tokens are held back
\* with their flags; and what a packet begins with.
GroupOf(f, k, flags, held) == IF k = 0 THEN f ELSE (f \o <<flags>>) \o held
Begins(in, s) == StandsAt(in, 0, s)

\* The decoder comes to where g ends, has written what is packed so far, and
\* the bits of the flag byte it has not used are those of rest.
DecodedTo(in, g, k, rest, out) ==
    \E n \in Nat : \E d \in DecodeState :
        /\ n <= Len(g) /\ Reaches(in, n, d)
        /\ d.at = Len(g) /\ ~ d.end /\ d.out = out
        /\ IF k = 0 THEN d.flagsUsed = FLAGS - 1
           ELSE d.flagsUsed = k - 1 /\ d.flags \div 2 = rest

\* Whatever flags and tokens follow.
Decodes(f, k, flags, bit, held, out) ==
    \A in \in Seq(Bytes) : \A rest \in Nat :
        Begins(in, GroupOf(f, k, flags + bit * rest, held)) =>
            DecodedTo(in, GroupOf(f, k, flags + bit * rest, held), k, rest, out)

\* The flag of the next token is at hand.
Ready(e, d, at, flags, used) ==
    /\ e \in DecodeState /\ e.at = at /\ e.flags = flags /\ e.flagsUsed = used
    /\ e.out = d.out /\ ~ e.end

LEMMA FlagsSet ==
    ASSUME NEW d \in DecodeState, ~ d.end, NEW x \in Nat, NEW u \in Nat, NEW at \in Nat
    PROVE  /\ Ready([d EXCEPT !.flags = x, !.flagsUsed = u], d, d.at, x, u)
           /\ Ready([d EXCEPT !.flags = x, !.flagsUsed = u, !.at = at], d, at, x, u)
BY DEF Ready, DecodeState

LEMMA NextFlagRead ==
    ASSUME NEW in \in Seq(Bytes), NEW d \in DecodeState, ~ d.end,
           NEW k \in 1 .. FLAGS - 1, d.flagsUsed = k - 1
    PROVE  Ready(ReadFlags(d, in), d, d.at, d.flags \div 2, k)
<1>1. FLAGS \in Nat /\ d.flags \in Nat /\ d.flagsUsed + 1 < FLAGS /\ d.flagsUsed + 1 = k
  BY SizesAssumption DEF DecodeState
<1>2. d.flags \div 2 \in Nat
  BY <1>1
<1>3. ReadFlags(d, in) = [d EXCEPT !.flags = @ \div 2, !.flagsUsed = @ + 1]
  BY <1>1 DEF ReadFlags
<1>4. ReadFlags(d, in) = [d EXCEPT !.flags = d.flags \div 2, !.flagsUsed = k]
  BY <1>1, <1>3
<1>5. k \in Nat /\ 0 \in Nat
  OBVIOUS
<1> QED
  BY <1>2, <1>4, <1>5, FlagsSet, Zenon

LEMMA FlagByteRead ==
    ASSUME NEW in \in Seq(Bytes), NEW d \in DecodeState, ~ d.end, d.flagsUsed = FLAGS - 1,
           d.at + 1 <= Len(in), in[d.at + 1] \in Nat
    PROVE  Ready(ReadFlags(d, in), d, d.at + 1, in[d.at + 1], 0)
<1>1. /\ FLAGS \in Nat /\ d.at \in Nat /\ Len(in) \in Nat
      /\ ~ (d.flagsUsed + 1 < FLAGS) /\ ~ (d.at >= Len(in))
  BY SizesAssumption DEF DecodeState
<1>2. ReadFlags(d, in) = [d EXCEPT !.flags = in[d.at + 1], !.flagsUsed = 0, !.at = @ + 1]
  BY <1>1 DEF ReadFlags
<1>3. ReadFlags(d, in) = [d EXCEPT !.flags = in[d.at + 1], !.flagsUsed = 0, !.at = d.at + 1]
  BY <1>2
<1>4. d.at + 1 \in Nat /\ 0 \in Nat
  BY <1>1
<1>5. Ready([d EXCEPT !.flags = in[d.at + 1], !.flagsUsed = 0, !.at = d.at + 1],
            d, d.at + 1, in[d.at + 1], 0)
  BY <1>4, FlagsSet, Zenon
<1> QED
  BY <1>3, <1>5, Zenon

\* What a longer sequence begins with.
LEMMA StandsBehind ==
    ASSUME NEW in \in Seq(Bytes), NEW s \in Seq(Bytes), NEW t \in Seq(Bytes),
           Begins(in, s \o t)
    PROVE  Begins(in, s) /\ StandsAt(in, Len(s), t) /\ Len(s \o t) = Len(s) + Len(t)
<1>1. /\ Len(s) \in Nat /\ Len(t) \in Nat /\ Len(in) \in Nat
      /\ Len(s \o t) = Len(s) + Len(t)
      /\ \A k \in 1 .. Len(s) + Len(t) :
            (s \o t)[k] = IF k <= Len(s) THEN s[k] ELSE t[k - Len(s)]
  BY ConcatProperties
<1>2. /\ 0 + (Len(s) + Len(t)) <= Len(in)
      /\ \A j \in 1 .. Len(s) + Len(t) : in[0 + j] = (s \o t)[j]
  BY <1>1 DEF Begins, StandsAt
<1>3. ASSUME NEW j \in 1 .. Len(s) PROVE in[0 + j] = s[j]
  <2>1. j \in 1 .. Len(s) + Len(t) /\ j <= Len(s)
    BY <1>1
  <2> QED
    BY <1>1, <1>2, <2>1
<1>4. ASSUME NEW j \in 1 .. Len(t) PROVE in[Len(s) + j] = t[j]
  <2>1. /\ Len(s) + j \in 1 .. Len(s) + Len(t) /\ ~ (Len(s) + j <= Len(s))
        /\ (Len(s) + j) - Len(s) = j /\ 0 + (Len(s) + j) = Len(s) + j
    BY <1>1
  <2> QED
    BY <1>1, <1>2, <2>1
<1> QED
  BY <1>1, <1>2, <1>3, <1>4 DEF Begins, StandsAt

LEMMA BytesConcat ==
    ASSUME NEW s \in Seq(Bytes), NEW t \in Seq(Bytes), NEW u \in Seq(Bytes)
    PROVE  (s \o t) \o u = s \o (t \o u)
BY ConcatAssociative

LEMMA WrittenSize ==
    ASSUME NEW token \in Tokens
    PROVE  /\ token[1] \in Nat \ {0} /\ Written(token) \in Seq(Bytes)
           /\ Len(Written(token)) \in Nat \ {0}
           /\ FlagOf(token) \in {0, 1} /\ (FlagOf(token) = 1 <=> token[1] = 1)
<1>1. CASE token[1] = 1
  BY <1>1, WrittenIs
<1>2. CASE token[1] # 1
  BY <1>2, WrittenIs
<1> QED
  BY <1>1, <1>2

\* Where a pass leads.
Passed(d, in, at, out, used, rest) ==
    LET z == DecodePass(d, in)
    IN  /\ z \in DecodeState /\ z.at = at /\ z.out = out /\ ~ z.end
        /\ z.flagsUsed = used /\ z.flags \div 2 = rest

\* One pass of the decoder's loop, from a flag at hand to the next one.
LEMMA PassDecodes ==
    ASSUME input \in Seq(Symbol), NEW in \in Seq(Bytes), NEW d \in DecodeState, ~ d.end,
           NEW token \in Tokens, NEW start \in Nat, NEW i \in Nat, start <= i,
           NEW at \in Nat, NEW used \in Nat, NEW rest \in Nat,
           Ready(ReadFlags(d, in), d, at, FlagOf(token) + 2 * rest, used),
           Says(start, i, token), d.out = Part(start, i),
           i + token[1] <= Len(input), StandsAt(in, at, Written(token))
    PROVE  Passed(d, in, at + Len(Written(token)), Part(start, i + token[1]), used, rest)
<1> DEFINE e == ReadFlags(d, in)
           z == ReadToken(e, in)
<1>1. /\ e \in DecodeState /\ e.at = at /\ e.flags = FlagOf(token) + 2 * rest
      /\ e.flagsUsed = used /\ e.out = Part(start, i) /\ ~ e.end
  BY DEF Ready
<1>2. FlagOf(token) \in {0, 1} /\ (FlagOf(token) = 1 <=> token[1] = 1)
  BY WrittenIs
<1>3. ASSUME NEW b \in {0, 1}
      PROVE  /\ (b + 2 * rest) \div 2 = rest
             /\ (b + 2 * rest) % 2 = 1 <=> b = 1
  BY <1>3
<1>4. e.flags \div 2 = rest /\ (Flagged(e) <=> token[1] = 1)
  BY <1>1, <1>2, <1>3 DEF Flagged
<1> HIDE DEF e
<1>5. StandsAt(in, e.at, Written(token))
  BY <1>1
<1>6. Goes(e, z, e.at + Len(Written(token)), Part(start, i + token[1]))
  BY <1>1, <1>4, <1>5, TokenDecoded
<1>7. DecodePass(d, in) = z
  BY DEF DecodePass, e
<1> HIDE DEF z
<1> QED
  BY <1>1, <1>4, <1>6, <1>7 DEF Goes, Passed

\* aftercomp holds back a token and its flag: the decoder gets so much further.
LEMMA TokenHeld ==
    ASSUME input \in Seq(Symbol), NEW f \in Seq(Bytes), NEW k \in 0 .. FLAGS - 1,
           NEW flags \in Nat, NEW bit \in Nat, NEW held \in Seq(Bytes),
           k = 0 => flags = 0 /\ bit = 1 /\ held = <<>>,
           NEW token \in Tokens, NEW start \in Nat, NEW i \in Nat, start <= i,
           Says(start, i, token), i + token[1] <= Len(input),
           Decodes(f, k, flags, bit, held, Part(start, i))
    PROVE  Decodes(f, k + 1, IF token[1] = 1 THEN flags + bit ELSE flags, 2 * bit,
                   held \o Written(token), Part(start, i + token[1]))
<1> DEFINE beta == FlagOf(token)
           T == Written(token)
           flags2 == IF token[1] = 1 THEN flags + bit ELSE flags
<1> SUFFICES ASSUME NEW in \in Seq(Bytes), NEW rest \in Nat,
                    Begins(in, GroupOf(f, k + 1, flags2 + (2 * bit) * rest, held \o T))
             PROVE  DecodedTo(in, GroupOf(f, k + 1, flags2 + (2 * bit) * rest, held \o T),
                              k + 1, rest, Part(start, i + token[1]))
  BY DEF Decodes
<1> DEFINE x == flags2 + (2 * bit) * rest
           r == beta + 2 * rest
           fx == f \o <<x>>
           g == GroupOf(f, k + 1, x, held \o T)
           g1 == GroupOf(f, k, flags + bit * r, held)
<1>1. /\ beta \in {0, 1} /\ (beta = 1 <=> token[1] = 1) /\ token[1] \in Nat \ {0}
      /\ T \in Seq(Bytes) /\ Len(T) \in Nat \ {0}
  BY WrittenSize
<1> HIDE DEF beta, T
<1>2. x = flags + bit * r /\ x \in Nat /\ r \in Nat
  <2>1. ASSUME NEW a \in Nat, NEW b \in Nat
        PROVE  /\ a * (2 * b) = (2 * a) * b
               /\ a * (1 + 2 * b) = a + (2 * a) * b
               /\ (2 * a) * b \in Nat
    <3>1. a * (2 * b) = (2 * a) * b
      OBVIOUS
    <3>2. a * (1 + 2 * b) = a + (2 * a) * b
      OBVIOUS
    <3>3. ASSUME NEW c \in Nat, NEW d \in Nat PROVE c * d \in Nat
      OBVIOUS
    <3>4. 2 * a \in Nat
      OBVIOUS
    <3>5. (2 * a) * b \in Nat
      BY <3>3, <3>4, Zenon
    <3> QED
      BY <3>1, <3>2, <3>5
  <2>2. /\ bit * (2 * rest) = (2 * bit) * rest
        /\ bit * (1 + 2 * rest) = bit + (2 * bit) * rest
        /\ (2 * bit) * rest \in Nat
    BY <2>1, Zenon
  <2>3. CASE token[1] = 1
    <3>1. beta = 1 /\ flags2 = flags + bit
      BY <2>3, <1>1
    <3>2. x = (flags + bit) + (2 * bit) * rest /\ r = 1 + 2 * rest
      BY <3>1
    <3>3. r \in Nat
      BY <3>2
    <3>4. x = flags + bit * r
      <4>1. ASSUME NEW m \in Nat, NEW p \in Nat PROVE (flags + bit) + p = flags + (bit + p)
        OBVIOUS
      <4>2. x = flags + (bit + (2 * bit) * rest)
        BY <2>2, <3>2, <4>1, Zenon
      <4> QED
        BY <2>2, <3>2, <4>2, Zenon
    <3>5. x \in Nat
      <4>1. ASSUME NEW p \in Nat PROVE (flags + bit) + p \in Nat
        OBVIOUS
      <4> QED
        BY <2>2, <3>2, <4>1, Zenon
    <3> QED
      BY <3>3, <3>4, <3>5
  <2>4. CASE token[1] # 1
    <3>1. beta = 0 /\ flags2 = flags
      BY <2>4, <1>1
    <3>2. x = flags + (2 * bit) * rest /\ r = 2 * rest
      BY <3>1
    <3>3. r \in Nat
      BY <3>2
    <3>4. x = flags + bit * r
      BY <2>2, <3>2, Zenon
    <3>5. x \in Nat
      <4>1. ASSUME NEW p \in Nat PROVE flags + p \in Nat
        OBVIOUS
      <4> QED
        BY <2>2, <3>2, <4>1, Zenon
    <3> QED
      BY <3>3, <3>4, <3>5
  <2> QED
    BY <2>3, <2>4
<1> HIDE DEF flags2
<1>3. /\ x \in Bytes /\ <<x>> \in Seq(Bytes) /\ fx \in Seq(Bytes) /\ Len(fx) = Len(f) + 1
      /\ held \o T \in Seq(Bytes) /\ Len(f) \in Nat /\ Len(held) \in Nat
  <2>1. x \in Bytes
    BY <1>2 DEF Bytes
  <2> HIDE DEF x
  <2>2. <<x>> \in Seq(Bytes) /\ Len(<<x>>) = 1
    BY <2>1
  <2>3. fx \in Seq(Bytes) /\ Len(fx) = Len(f) + 1
    BY <2>2, ConcatProperties
  <2>4. held \o T \in Seq(Bytes)
    BY <1>1, ConcatProperties
  <2>5. Len(f) \in Nat /\ Len(held) \in Nat
    OBVIOUS
  <2> QED
    BY <2>1, <2>2, <2>3, <2>4, <2>5
<1> HIDE DEF x, r
<1>4. g = fx \o (held \o T) /\ Begins(in, g)
  <2>1. k + 1 # 0
    OBVIOUS
  <2> QED
    BY <2>1 DEF GroupOf, x
<1>5. CASE k = 0
  <2>1. g = fx \o T /\ g1 = f
    <3>1. <<>> \o T = T
      BY <1>1, ConcatEmptySeq
    <3> QED
      BY <1>4, <1>5, <3>1 DEF GroupOf
  <2>2. Begins(in, fx) /\ StandsAt(in, Len(fx), T) /\ Len(g) = Len(fx) + Len(T)
    <3> HIDE DEF g, g1, fx
    <3>1. Begins(in, fx \o T)
      BY <1>4, <2>1
    <3>2. fx \in Seq(Bytes) /\ T \in Seq(Bytes)
      BY <1>1, <1>3
    <3>3. Begins(in, fx) /\ StandsAt(in, Len(fx), T) /\ Len(fx \o T) = Len(fx) + Len(T)
      BY <3>1, <3>2, StandsBehind
    <3> QED
      BY <2>1, <3>3
  <2> HIDE DEF g
  <2>3. Begins(in, f) /\ StandsAt(in, Len(f), <<x>>)
    BY <1>3, <2>2, StandsBehind DEF fx
  <2>4. Len(f) + 1 <= Len(in) /\ in[Len(f) + 1] = x
    <3>1. Len(<<x>>) = 1 /\ <<x>>[1] = x /\ 1 \in 1 .. 1
      OBVIOUS
    <3> QED
      BY <2>3, <3>1 DEF StandsAt
  <2>5. Begins(in, g1)
    BY <2>1, <2>3
  <2>6. DecodedTo(in, g1, k, r, Part(start, i))
    BY <1>2, <2>5 DEF Decodes
  <2> HIDE DEF g1
  <2>7. PICK n \in Nat, d \in DecodeState :
           /\ n <= Len(f) /\ Reaches(in, n, d) /\ d.at = Len(f) /\ ~ d.end
           /\ d.out = Part(start, i) /\ d.flagsUsed = FLAGS - 1
    BY <1>5, <2>1, <2>6 DEF DecodedTo
  <2>8. x = beta + 2 * rest
    <3>1. flags = 0 /\ bit = 1
      BY <1>5
    <3>2. r \in Nat /\ x = 0 + 1 * r
      BY <1>2, <3>1
    <3> QED
      BY <3>2 DEF r
  <2>9. Ready(ReadFlags(d, in), d, Len(fx), beta + 2 * rest, 0)
    <3>1. Ready(ReadFlags(d, in), d, d.at + 1, in[d.at + 1], 0)
      <4>1. d.at + 1 <= Len(in) /\ in[d.at + 1] = x /\ in[d.at + 1] \in Nat
        BY <1>2, <2>4, <2>7
      <4> QED
        BY <2>7, <4>1, FlagByteRead
    <3> QED
      BY <1>3, <2>4, <2>7, <2>8, <3>1
  <2> DEFINE z == DecodePass(d, in)
  <2>10. /\ z \in DecodeState /\ z.at = Len(fx) + Len(T)
         /\ z.out = Part(start, i + token[1]) /\ ~ z.end
         /\ z.flagsUsed = 0 /\ z.flags \div 2 = rest
    <3>1. Len(fx) \in Nat /\ 0 \in Nat
      BY <1>3
    <3>2. /\ Ready(ReadFlags(d, in), d, Len(fx), FlagOf(token) + 2 * rest, 0)
          /\ StandsAt(in, Len(fx), Written(token))
      BY <2>2, <2>9 DEF beta, T
    <3> HIDE DEF fx, z
    <3>3. Passed(d, in, Len(fx) + Len(Written(token)), Part(start, i + token[1]), 0, rest)
      BY <2>7, <3>1, <3>2, PassDecodes, Zenon
    <3> QED
      BY <3>3 DEF Passed, z, T
  <2>11. Reaches(in, n + 1, z)
    BY <2>7, ReachesNext
  <2> HIDE DEF z
  <2>12. n + 1 \in Nat /\ n + 1 <= Len(g)
    BY <1>1, <1>3, <2>2, <2>7
  <2>13. IF k + 1 = 0 THEN z.flagsUsed = FLAGS - 1
         ELSE z.flagsUsed = (k + 1) - 1 /\ z.flags \div 2 = rest
    BY <1>5, <2>10
  <2>14. DecodedTo(in, g, k + 1, rest, Part(start, i + token[1]))
    BY <2>2, <2>10, <2>11, <2>12, <2>13 DEF DecodedTo
  <2> QED
    BY <2>14 DEF g, x
<1>6. CASE k # 0
  <2>1. g1 = fx \o held /\ g = g1 \o T /\ g1 \in Seq(Bytes)
    <3>1. g1 = fx \o held
      BY <1>2, <1>6 DEF GroupOf
    <3> HIDE DEF g1, g, fx
    <3>3. (fx \o held) \o T = fx \o (held \o T)
      <4>1. fx \in Seq(Bytes) /\ T \in Seq(Bytes)
        BY <1>1, <1>3
      <4>2. held \in Seq(Bytes)
        OBVIOUS
      <4> QED
        BY <4>1, <4>2, BytesConcat, ZenonT(30)
    <3>4. fx \o held \in Seq(Bytes)
      BY <1>3, ConcatProperties
    <3> QED
      BY <1>4, <3>1, <3>3, <3>4
  <2> HIDE DEF g
  <2>2. Begins(in, g1) /\ StandsAt(in, Len(g1), T) /\ Len(g) = Len(g1) + Len(T)
    <3> HIDE DEF g1
    <3>1. Begins(in, g1 \o T)
      BY <1>4, <2>1
    <3> QED
      <4>1. g1 \in Seq(Bytes) /\ T \in Seq(Bytes)
        BY <1>1, <2>1
      <4>2. Begins(in, g1) /\ StandsAt(in, Len(g1), T) /\ Len(g1 \o T) = Len(g1) + Len(T)
        BY <3>1, <4>1, StandsBehind
      <4> QED
        BY <2>1, <4>2
  <2>3. DecodedTo(in, g1, k, r, Part(start, i))
    BY <1>2, <2>2 DEF Decodes
  <2> HIDE DEF g1
  <2>4. PICK n \in Nat, d \in DecodeState :
           /\ n <= Len(g1) /\ Reaches(in, n, d) /\ d.at = Len(g1) /\ ~ d.end
           /\ d.out = Part(start, i) /\ d.flagsUsed = k - 1 /\ d.flags \div 2 = r
    BY <1>6, <2>3 DEF DecodedTo
  <2>5. Ready(ReadFlags(d, in), d, Len(g1), beta + 2 * rest, k)
    <3>1. k \in 1 .. FLAGS - 1
      BY <1>6, SizesAssumption
    <3>2. Ready(ReadFlags(d, in), d, d.at, d.flags \div 2, k)
      BY <2>4, <3>1, NextFlagRead
    <3> QED
      BY <2>4, <3>2 DEF r
  <2> DEFINE z == DecodePass(d, in)
  <2>6. /\ z \in DecodeState /\ z.at = Len(g1) + Len(T)
        /\ z.out = Part(start, i + token[1]) /\ ~ z.end
        /\ z.flagsUsed = k /\ z.flags \div 2 = rest
    <3>1. Len(g1) \in Nat /\ k \in Nat
      BY <2>1
    <3>2. /\ Ready(ReadFlags(d, in), d, Len(g1), FlagOf(token) + 2 * rest, k)
          /\ StandsAt(in, Len(g1), Written(token))
      BY <2>2, <2>5 DEF beta, T
    <3> HIDE DEF fx, z
    <3>3. Passed(d, in, Len(g1) + Len(Written(token)), Part(start, i + token[1]), k, rest)
      BY <2>4, <3>1, <3>2, PassDecodes, Zenon
    <3> QED
      BY <3>3 DEF Passed, z, T
  <2>7. Reaches(in, n + 1, z)
    BY <2>4, ReachesNext
  <2> HIDE DEF z
  <2>8. n + 1 \in Nat /\ n + 1 <= Len(g)
    <3>1. Len(g1) \in Nat
      BY <2>1
    <3> QED
      BY <1>1, <2>2, <2>4, <3>1
  <2>9. IF k + 1 = 0 THEN z.flagsUsed = FLAGS - 1
        ELSE z.flagsUsed = (k + 1) - 1 /\ z.flags \div 2 = rest
    BY <1>6, <2>6
  <2>10. DecodedTo(in, g, k + 1, rest, Part(start, i + token[1]))
    BY <2>2, <2>6, <2>7, <2>8, <2>9 DEF DecodedTo
  <2> QED
    BY <2>10 DEF g, x
<1> QED
  BY <1>5, <1>6
\* A packet begins, a group is written, and a packet ends.
LEMMA NothingDecoded ==
    ASSUME input \in Seq(Symbol), NEW i \in Nat, i <= Len(input)
    PROVE  Decodes(<<>>, 0, 0, 1, <<>>, Part(i, i))
<1>1. Part(i, i) = <<>>
  <2>1. Part(i, i) \in Seq(Symbol) /\ Len(Part(i, i)) = i - i
    BY PartIs
  <2>2. Len(Part(i, i)) = 0
    BY <2>1
  <2> QED
    BY <2>1, <2>2, EmptySeq
<1>2. /\ DecodeStart \in DecodeState /\ DecodeStart.at = 0 /\ ~ DecodeStart.end
      /\ DecodeStart.out = <<>> /\ DecodeStart.flagsUsed = FLAGS - 1
  <2>1. FLAGS - 1 \in Nat
    BY SizesAssumption
  <2>2. <<>> \in Seq(Symbol)
    OBVIOUS
  <2> QED
    BY <2>1, <2>2 DEF DecodeStart, DecodeState
<1>3. ASSUME NEW in \in Seq(Bytes), NEW rest \in Nat
      PROVE  DecodedTo(in, <<>>, 0, rest, Part(i, i))
  <2>1. Reaches(in, 0, DecodeStart)
    BY ReachesStart
  <2>2. Len(<<>>) = 0 /\ 0 \in Nat
    BY EmptySeq
  <2> QED
    BY <1>1, <1>2, <2>1, <2>2 DEF DecodedTo
<1> QED
  BY <1>3 DEF Decodes, GroupOf

LEMMA GroupEnds ==
    ASSUME NEW f \in Seq(Bytes), NEW k \in 1 .. FLAGS, NEW flags \in Nat, NEW bit \in Nat,
           NEW held \in Seq(Bytes), NEW out, Decodes(f, k, flags, bit, held, out),
           NEW in \in Seq(Bytes), Begins(in, (f \o <<flags>>) \o held)
    PROVE  DecodedTo(in, (f \o <<flags>>) \o held, k, 0, out)
<1>1. flags + bit * 0 = flags /\ k # 0 /\ 0 \in Nat
  OBVIOUS
<1>2. GroupOf(f, k, flags + bit * 0, held) = (f \o <<flags>>) \o held
  BY <1>1 DEF GroupOf
<1> QED
  BY <1>1, <1>2 DEF Decodes

LEMMA GroupWritten ==
    ASSUME NEW f \in Seq(Bytes), NEW flags \in Nat, NEW bit \in Nat,
           NEW held \in Seq(Bytes), NEW out, Decodes(f, FLAGS, flags, bit, held, out)
    PROVE  Decodes((f \o <<flags>>) \o held, 0, 0, 1, <<>>, out)
<1> DEFINE g == (f \o <<flags>>) \o held
<1>1. FLAGS \in 1 .. FLAGS /\ FLAGS # 0
  BY SizesAssumption
<1>2. ASSUME NEW in \in Seq(Bytes), NEW rest \in Nat, Begins(in, g)
      PROVE  DecodedTo(in, g, 0, rest, out)
  <2>1. DecodedTo(in, g, FLAGS, 0, out)
    BY <1>1, <1>2, GroupEnds
  <2> HIDE DEF g
  <2> QED
    BY <1>1, <2>1 DEF DecodedTo
<1> HIDE DEF g
<1>3. \A x : GroupOf(g, 0, x, <<>>) = g
  BY DEF GroupOf
<1>4. Decodes(g, 0, 0, 1, <<>>, out)
  BY <1>2, <1>3 DEF Decodes
<1> QED
  BY <1>4 DEF g

LEMMA PacketEnds ==
    ASSUME NEW f \in Seq(Bytes), NEW k \in 1 .. FLAGS, NEW flags \in Nat, NEW bit \in Nat,
           NEW held \in Seq(Bytes), NEW out, Decodes(f, k, flags, bit, held, out)
    PROVE  DecodePacket((f \o <<flags>>) \o held) = out
<1> DEFINE g == (f \o <<flags>>) \o held
<1>1. g \in Seq(Bytes)
  <2>1. <<flags>> \in Seq(Bytes)
    BY DEF Bytes
  <2>2. f \o <<flags>> \in Seq(Bytes)
    BY <2>1, ConcatProperties
  <2> QED
    BY <2>2, ConcatProperties
<1>2. ASSUME Begins(g, g) PROVE DecodedTo(g, g, k, 0, out)
  BY <1>1, <1>2, GroupEnds
<1> HIDE DEF g
<1>3. Begins(g, g)
  BY <1>1 DEF Begins, StandsAt
<1>4. PICK n \in Nat, d \in DecodeState :
         n <= Len(g) /\ Reaches(g, n, d) /\ d.at = Len(g) /\ d.out = out
  BY <1>2, <1>3 DEF DecodedTo
<1>5. DecodePacket(g) = out
  BY <1>1, <1>4, PacketDecoded
<1> QED
  BY <1>5 DEF g
-----------------------------------------------------------------------------
(* The kernel leaves a token for every position.                           *)

TokensFound ==
    /\ \A p \in 1 .. buf_length : bufferout[p] = <<>> \/ bufferout[p] \in Tokens
    /\ stage = "kernel" =>
          /\ block \in Packets
          /\ \A p \in 1 .. block * PCKTSIZE : bufferout[p] # <<>>
          /\ \A t \in Threads, r \in 0 .. Rounds - 1 :
                phase[t] > EmitPhase(r) =>
                    bufferout[block * PCKTSIZE + r * MAX_CODED + t + 1] # <<>>
    /\ stage # "kernel" => \A p \in 1 .. buf_length : bufferout[p] # <<>>

\* A buffer is whole packets.
LEMMA WholePackets ==
    ASSUME input \in Inputs
    PROVE  /\ input \in Seq(Symbol) /\ buf_length \in Nat \ {0}
           /\ buf_length = (buf_length \div PCKTSIZE) * PCKTSIZE
           /\ buf_length \div PCKTSIZE \in Nat \ {0}
<1>1. /\ input \in Seq(Symbol) /\ Len(input) > 0 /\ Len(input) % PCKTSIZE = 0
      /\ Len(input) \in Nat /\ PCKTSIZE \in Nat \ {0}
  BY SizesAssumption, Sizes
<1>2. ASSUME NEW l \in Nat, NEW m \in Nat \ {0}, l > 0, l % m = 0
      PROVE  l = (l \div m) * m /\ l \div m \in Nat \ {0}
  BY <1>2
<1> QED
  BY <1>1, <1>2 DEF buf_length

LEMMA PacketBounds ==
    ASSUME input \in Inputs, NEW b \in Packets
    PROVE  /\ b \in Nat /\ b * PCKTSIZE \in Nat
           /\ (b + 1) * PCKTSIZE = b * PCKTSIZE + PCKTSIZE
           /\ (b + 1) * PCKTSIZE <= buf_length
<1> DEFINE np == buf_length \div PCKTSIZE
<1>1. np \in Nat \ {0} /\ buf_length = np * PCKTSIZE /\ PCKTSIZE \in Nat \ {0}
  BY WholePackets, Sizes
<1>2. b \in 0 .. np - 1
  BY DEF Packets
<1> HIDE DEF np
<1>3. ASSUME NEW m \in Nat, NEW c \in Nat, NEW d \in Nat
      PROVE  c * m \in Nat /\ (c + 1) * m = c * m + m /\ (c + d) * m = c * m + d * m
  BY <1>3
<1>4. np - (b + 1) \in Nat /\ b + 1 \in Nat /\ b \in Nat /\ (b + 1) + (np - (b + 1)) = np
  BY <1>1, <1>2
<1>5. /\ b * PCKTSIZE \in Nat /\ (b + 1) * PCKTSIZE = b * PCKTSIZE + PCKTSIZE
      /\ (b + 1) * PCKTSIZE \in Nat /\ (np - (b + 1)) * PCKTSIZE \in Nat
      /\ np * PCKTSIZE = (b + 1) * PCKTSIZE + (np - (b + 1)) * PCKTSIZE
  <2>1. b * PCKTSIZE \in Nat /\ (b + 1) * PCKTSIZE = b * PCKTSIZE + PCKTSIZE
    BY <1>1, <1>3, <1>4, ZenonT(30)
  <2>2. (b + 1) * PCKTSIZE \in Nat /\ (np - (b + 1)) * PCKTSIZE \in Nat
    BY <1>1, <1>3, <1>4, ZenonT(30)
  <2>3. ((b + 1) + (np - (b + 1))) * PCKTSIZE = (b + 1) * PCKTSIZE + (np - (b + 1)) * PCKTSIZE
    BY <1>1, <1>3, <1>4, ZenonT(30)
  <2> QED
    BY <1>4, <2>1, <2>2, <2>3
<1> QED
  BY <1>1, <1>4, <1>5

\* The position a thread writes for in a round is one of its packet's, and
\* every position of the packet is some thread's.
LEMMA PlaceInPacket ==
    ASSUME input \in Inputs, NEW b \in Packets, NEW t \in Threads, NEW r \in 0 .. Rounds - 1
    PROVE  b * PCKTSIZE + r * MAX_CODED + t + 1 \in b * PCKTSIZE + 1 .. (b + 1) * PCKTSIZE
<1>1. r * MAX_CODED + t \in 0 .. PCKTSIZE - 1 /\ PCKTSIZE \in Nat
  BY InPacket, Sizes DEF Base
<1>2. b * PCKTSIZE \in Nat /\ (b + 1) * PCKTSIZE = b * PCKTSIZE + PCKTSIZE
  BY PacketBounds
<1>3. r * MAX_CODED \in Int /\ t \in Int
  BY Sizes, BaseNext DEF Base, Threads
<1> QED
  BY <1>1, <1>2, <1>3

LEMMA QuotientBelow ==
    ASSUME NEW m \in Nat \ {0}, NEW q \in Nat, NEW y \in Nat, y < q * m
    PROVE  y % m \in 0 .. m - 1 /\ y \div m \in 0 .. q - 1 /\ y = (y \div m) * m + (y % m)
<1> DEFINE d == y \div m
           z == y % m
<1>1. d \in Nat /\ z \in 0 .. m - 1 /\ y = m * d + z
  BY Division, Zenon
<1> HIDE DEF d, z
<1>2. m * d = d * m /\ d * m \in Nat /\ q * m \in Nat
  BY <1>1
<1>3. ASSUME ~ (d <= q - 1) PROVE FALSE
  <2>1. ASSUME NEW c \in Nat PROVE (q + c) * m >= q * m
    <3>1. c * m >= 0
      OBVIOUS
    <3>2. (q + c) * m = q * m + c * m
      OBVIOUS
    <3>3. c * m \in Int
      OBVIOUS
    <3> QED
      BY <1>2, <3>1, <3>2, <3>3
  <2>2. d - q \in Nat /\ q + (d - q) = d
    BY <1>1, <1>3
  <2>3. d * m >= q * m
    BY <2>1, <2>2
  <2> QED
    BY <1>1, <1>2, <2>3
<1>4. d \in 0 .. q - 1
  BY <1>1, <1>3
<1> QED
  BY <1>1, <1>2, <1>4 DEF d, z

LEMMA PlaceOfThread ==
    ASSUME input \in Inputs, NEW b \in Packets, NEW p \in b * PCKTSIZE + 1 .. (b + 1) * PCKTSIZE
    PROVE  \E t \in Threads, r \in 0 .. Rounds - 1 :
               p = b * PCKTSIZE + r * MAX_CODED + t + 1
<1> DEFINE S == b * PCKTSIZE
           x == p - S - 1
           t == x % MAX_CODED
           r == x \div MAX_CODED
<1>1. S \in Nat /\ (b + 1) * PCKTSIZE = S + PCKTSIZE
  BY PacketBounds
<1>2. /\ MAX_CODED \in Nat \ {0} /\ Rounds \in Nat /\ PCKTSIZE = Rounds * MAX_CODED
      /\ PCKTSIZE \in Nat
  BY Sizes DEF Base
<1>3. p \in S + 1 .. S + PCKTSIZE
  BY <1>1
<1> HIDE DEF S
<1>4. x \in Nat /\ x < Rounds * MAX_CODED /\ p = S + x + 1
  BY <1>1, <1>2, <1>3
<1> HIDE DEF x
<1>5. t \in 0 .. MAX_CODED - 1 /\ r \in 0 .. Rounds - 1 /\ x = r * MAX_CODED + t
  BY <1>2, <1>4, QuotientBelow
<1> HIDE DEF t, r
<1>6. r * MAX_CODED \in Int
  BY <1>2, <1>5
<1>7. p = S + r * MAX_CODED + t + 1
  BY <1>1, <1>4, <1>5, <1>6
<1> QED
  BY <1>5, <1>7 DEF S, Threads

LEMMA TokenTyped ==
    ASSUME NEW t \in Threads, NEW m, m.length \in Nat, m.offset \in Nat, NEW h,
           uncodedLookahead[h] \in Symbol, NEW last \in BOOLEAN
    PROVE  Token(t, m.length, m.offset, h, last) \in Tokens
<1> DEFINE shorter == IF last /\ m.length > MAX_CODED - t THEN MAX_CODED - t ELSE m.length
           n == IF shorter >= MAX_CODED THEN MAX_CODED - 1 ELSE shorter
<1>1. n \in Nat /\ MAX_UNCODED \in Nat \ {0}
  BY Sizes DEF Threads
<1>2. Token(t, m.length, m.offset, h, last) =
         IF n <= MAX_UNCODED THEN <<1, uncodedLookahead[h]>> ELSE <<n, m.offset>>
  BY Zenon DEF Token
<1> HIDE DEF n
<1>3. <<1, uncodedLookahead[h]>> \in Tokens
  BY DEF Tokens, Bytes
<1>4. ASSUME ~ (n <= MAX_UNCODED) PROVE <<n, m.offset>> \in Tokens
  <2>1. n \in Nat \ {0}
    BY <1>1, <1>4
  <2> QED
    BY <2>1 DEF Tokens, Bytes
<1> QED
  BY <1>2, <1>3, <1>4
-----------------------------------------------------------------------------
(* The inductive invariant.                                                *)

PacketOf(b) == Part(b * PCKTSIZE, (b + 1) * PCKTSIZE)

\* The sizes of the finished packets are the distances of the cuts, and what
\* stands between two of these in f unpacks to the packet.
Cuts(cut, f, h, e) ==
    /\ cut \in [0 .. Len(h) -> Nat] /\ cut[0] = 0 /\ cut[Len(h)] = e
    /\ \A j \in 1 .. Len(h) :
          /\ cut[j - 1] <= cut[j] /\ cut[j] <= e /\ h[j] = cut[j] - cut[j - 1]
          /\ DecodePacket(SubSeq(f, cut[j - 1] + 1, cut[j])) = PacketOf(j - 1)

JobType == [flags : Nat, flagPos : Nat, holdbuf : Seq(Bytes),
            i : Nat, tempj : Nat, header : Seq(Nat)]

\* The decoder can be led to where aftercomp is, whatever it packs next.
GroupOK(j, f) ==
    \E k \in 0 .. FLAGS - 1 :
        /\ j.flagPos = FlagBit[k]
        /\ k = 0 => j.flags = 0 /\ j.holdbuf = <<>>
        /\ Decodes(SubSeq(f, j.tempj + 1, Len(f)), k, j.flags, j.flagPos, j.holdbuf,
                   Part(Len(j.header) * PCKTSIZE, j.i))

Packed(j, f) ==
    /\ j \in JobType /\ f \in Seq(Bytes) /\ j.tempj <= Len(f)
    /\ Len(j.header) * PCKTSIZE <= j.i /\ j.i < (Len(j.header) + 1) * PCKTSIZE
    /\ j.i <= buf_length
    /\ \E cut : Cuts(cut, f, j.header, j.tempj)
    /\ GroupOK(j, f)

\* A chunk is the buffer itself, or the packets, their sizes and the trailer.
Chunk ==
    \/ buffer = input
    \/ /\ job.i = buf_length
       /\ job.header \in Seq(Nat) /\ Len(job.header) = buf_length \div PCKTSIZE
       /\ \E f \in Seq(Bytes), e \in Nat : \E cut :
             /\ e <= Len(f) /\ Cuts(cut, f, job.header, e)
             /\ buffer = (f \o job.header) \o <<buf_length, 0>>

NothingYet == decoded = [b \in Packets |-> <<>>]
Unpacks ==
    /\ decoded \in [Packets -> Seq(Symbol)]
    /\ \A b \in Packets : decoded[b] \in {<<>>, PacketOf(b)}
    /\ stage \in {"kernel", "pack"} => NothingYet
    /\ stage = "chunk" /\ Len(buffer) >= buf_length => NothingYet

PackInv ==
    /\ IInv
    /\ TokensFound
    /\ stage \in {"kernel", "pack", "chunk", "end", "lost"}
    /\ phase \in [Threads -> 0 .. AfterLast]
    /\ job.i \in 0 .. buf_length /\ job.flagPos \in 1 .. Top
    /\ stage = "kernel" => job = NewJob /\ buffer = <<>>
    /\ stage = "pack" => Packed(job, buffer)
    /\ stage = "chunk" => Chunk
    /\ Unpacks
    /\ LosslessIfRoom

-----------------------------------------------------------------------------
(* The steps of the kernel.                                                *)

\* A step that writes no token comes at none of the phases of Emit.
LEMMA TokensStay ==
    ASSUME TokensFound, phase \in [Threads -> 0 .. AfterLast],
           NEW t \in Threads, NEW n \in Nat, Step(t, n),
           \A r \in 0 .. Rounds - 1 : n # EmitPhase(r), bufferout' = bufferout
    PROVE  TokensFound'
<1>1. /\ stage = "kernel" /\ stage' = stage /\ block' = block /\ input' = input
      /\ phase[t] = n /\ phase' = [phase EXCEPT ![t] = n + 1]
  BY DEF Step
<1>2. ASSUME NEW u \in Threads, NEW r \in 0 .. Rounds - 1, phase'[u] > EmitPhase(r)
      PROVE  phase[u] > EmitPhase(r)
  <2>1. EmitPhase(r) \in Int /\ phase[u] \in Int
    BY PhaseFacts
  <2>2. CASE u = t
    <3>1. phase'[u] = n + 1 /\ phase[u] = n /\ n # EmitPhase(r)
      BY <1>1, <2>2
    <3> QED
      BY <1>2, <2>1, <3>1
  <2>3. CASE u # t
    BY <1>1, <1>2, <2>3
  <2> QED
    BY <2>2, <2>3
<1>3. Packets' = Packets /\ buf_length' = buf_length
  BY <1>1 DEF Packets, buf_length
<1> QED
  BY <1>1, <1>2, <1>3 DEF TokensFound

LEMMA EmitFinds ==
    ASSUME NEW t \in Threads, IInv, TokensFound, Emit(t)
    PROVE  TokensFound'
<1>1. PICK r \in 0 .. Rounds - 1 :
         LET head == (t + r * MAX_CODED) % Cyclic
             last == r = Rounds - 1
             match == FindMatch(t, head, head, last)
         IN  /\ Step(t, EmitPhase(r))
             /\ bufferout' = [bufferout EXCEPT ![block * PCKTSIZE + r * MAX_CODED + t + 1] =
                                 Token(t, match.length, match.offset, head, last)]
             /\ UNCHANGED <<slidingWindow, uncodedLookahead>>
  BY DEF Emit
<1> DEFINE h == Cell(t, r)
           last == r = Rounds - 1
           m == FindMatch(t, h, h, last)
           p == block * PCKTSIZE + r * MAX_CODED + t + 1
           token == Token(t, m.length, m.offset, h, last)
<1>2. Step(t, EmitPhase(r)) /\ bufferout' = [bufferout EXCEPT ![p] = token]
  BY <1>1, Zenon DEF Cell
<1> HIDE DEF m, h, token, p
<1>3. /\ stage = "kernel" /\ stage' = stage /\ block' = block /\ input' = input
      /\ phase[t] = EmitPhase(r) /\ phase' = [phase EXCEPT ![t] = EmitPhase(r) + 1]
      /\ phase \in [Threads -> 0 .. AfterLast] /\ KernelOK
      /\ input \in Inputs /\ DOMAIN bufferout = 1 .. buf_length /\ block \in Packets
  BY <1>2 DEF Step, IInv, KernelOK, TokensFound
<1>4. /\ p \in block * PCKTSIZE + 1 .. (block + 1) * PCKTSIZE
      /\ block * PCKTSIZE \in Nat /\ (block + 1) * PCKTSIZE <= buf_length
      /\ (block + 1) * PCKTSIZE = block * PCKTSIZE + PCKTSIZE
      /\ buf_length \in Nat /\ input \in Seq(Symbol) /\ PCKTSIZE \in Nat
  BY <1>3, PlaceInPacket, PacketBounds, WholePackets, Sizes DEF p
<1>5. p \in 1 .. buf_length
  BY <1>4
<1>6. token \in Tokens /\ token # <<>>
  <2>1. r \in Nat /\ last \in BOOLEAN
    BY Sizes
  <2>2. h \in 0 .. Cyclic - 1
    BY <2>1, CellFacts DEF h
  <2>3. m.length \in Nat /\ m.offset \in Nat
    <3>1. MatchFound(h, Steps(t, last), m)
      BY <2>1, <2>2, FindMatchIs DEF m
    <3> QED
      BY <3>1 DEF MatchFound
  <2>4. uncodedLookahead[h] \in Symbol
    <3>1. uncodedLookahead[h] = Byte(Position(t, r))
      BY <1>2, <1>3, AllInRound DEF RoundData, h
    <3>2. block * PCKTSIZE + Position(t, r) + 1 \in 1 .. Len(input)
      <4>1. r * MAX_CODED \in Int /\ t \in Int
        BY Sizes, BaseNext DEF Base, Threads
      <4>2. block * PCKTSIZE + Position(t, r) + 1 = p
        BY <1>4, <4>1 DEF Position, p
      <4> QED
        BY <1>5, <4>2 DEF buf_length
    <3>3. input[block * PCKTSIZE + Position(t, r) + 1] \in Symbol
      BY <1>4, <3>2
    <3> QED
      BY <3>1, <3>3 DEF Byte
  <2>5. token \in Tokens
    BY <2>1, <2>3, <2>4, TokenTyped DEF token
  <2> QED
    BY <2>5 DEF Tokens
<1>7. /\ bufferout'[p] = token
      /\ \A q \in 1 .. buf_length : q # p => bufferout'[q] = bufferout[q]
  BY <1>2, <1>3, <1>5
<1>8. Packets' = Packets /\ buf_length' = buf_length
  BY <1>3 DEF Packets, buf_length
<1>9. ASSUME NEW q \in 1 .. buf_length
      PROVE  /\ bufferout'[q] = <<>> \/ bufferout'[q] \in Tokens
             /\ bufferout[q] # <<>> => bufferout'[q] # <<>>
  BY <1>6, <1>7 DEF TokensFound
<1>10. ASSUME NEW q \in 1 .. block * PCKTSIZE PROVE bufferout'[q] # <<>>
  <2>1. q \in 1 .. buf_length
    BY <1>4
  <2> QED
    BY <1>3, <1>9, <2>1 DEF TokensFound
<1>11. ASSUME NEW u \in Threads, NEW s \in 0 .. Rounds - 1, phase'[u] > EmitPhase(s)
       PROVE  bufferout'[block * PCKTSIZE + s * MAX_CODED + u + 1] # <<>>
  <2> DEFINE q == block * PCKTSIZE + s * MAX_CODED + u + 1
  <2>1. q \in 1 .. buf_length
    <3>1. q \in block * PCKTSIZE + 1 .. (block + 1) * PCKTSIZE
      BY <1>3, PlaceInPacket
    <3> QED
      BY <1>4, <3>1
  <2>2. CASE phase[u] > EmitPhase(s)
    <3>1. bufferout[q] # <<>>
      BY <1>3, <2>2 DEF TokensFound
    <3> HIDE DEF q
    <3>2. bufferout'[q] # <<>>
      BY <1>9, <2>1, <3>1
    <3> QED
      BY <3>2 DEF q
  <2>3. CASE ~ (phase[u] > EmitPhase(s))
    <3>1. u = t
      <4>1. u # t => phase'[u] = phase[u]
        BY <1>3
      <4> QED
        BY <1>11, <2>3, <4>1
    <3>2. phase[u] = EmitPhase(r) /\ phase'[u] = EmitPhase(r) + 1
      BY <1>3, <3>1
    <3>3. EmitPhase(s) = EmitPhase(r)
      <4>1. EmitPhase(s) \in Int /\ EmitPhase(r) \in Int
        BY PhaseFacts
      <4> QED
        BY <1>11, <2>3, <3>2, <4>1
    <3>4. s = r
      BY <3>3, PhaseFacts
    <3> QED
      BY <1>6, <1>7, <3>1, <3>4 DEF p
  <2> QED
    BY <2>2, <2>3
<1> QED
  BY <1>3, <1>8, <1>9, <1>10, <1>11 DEF TokensFound

-----------------------------------------------------------------------------
(* The steps of the threads keep the invariant.                            *)

LEMMA ThreadSteps ==
    ASSUME NEW t \in Threads,
           Fill(t) \/ LoadFirst(t) \/ LoadSecond(t) \/ Emit(t) \/ Shift(t)
    PROVE  \E n \in 0 .. AfterLast - 1 : Step(t, n)
<1>1. AfterLast = 2 * Rounds + 2 /\ Rounds \in Nat /\ Rounds >= 2
  BY PhaseFacts, Sizes
<1>2. ASSUME NEW r \in 0 .. Rounds - 1
      PROVE  EmitPhase(r) \in 0 .. AfterLast - 1 /\ ShiftPhase(r) \in 0 .. AfterLast - 1
  <2>1. EmitPhase(r) = 3 + 2 * r /\ ShiftPhase(r) = 2 + 2 * r
    BY PhaseFacts
  <2> QED
    BY <1>1, <2>1
<1>3. CASE Fill(t)
  BY <1>1, <1>3 DEF Fill
<1>4. CASE LoadFirst(t)
  BY <1>1, <1>4 DEF LoadFirst
<1>5. CASE LoadSecond(t)
  BY <1>1, <1>5 DEF LoadSecond
<1>6. CASE Emit(t)
  BY <1>2, <1>6, Zenon DEF Emit
<1>7. CASE Shift(t)
  <2>1. PICK r \in 1 .. Rounds - 1 : Step(t, ShiftPhase(r))
    BY <1>7, Zenon DEF Shift
  <2>2. r \in 0 .. Rounds - 1
    BY <1>1
  <2> QED
    BY <1>2, <2>1, <2>2
<1> QED
  BY <1>3, <1>4, <1>5, <1>6, <1>7

LEMMA OtherStepsFind ==
    ASSUME NEW t \in Threads, TokensFound, phase \in [Threads -> 0 .. AfterLast],
           Fill(t) \/ LoadFirst(t) \/ LoadSecond(t) \/ Shift(t)
    PROVE  TokensFound'
<1>1. ASSUME NEW n \in Nat, Step(t, n), n \in {0, 1, 2} \/ n % 2 = 0, bufferout' = bufferout
      PROVE  TokensFound'
  <2>1. ASSUME NEW r \in 0 .. Rounds - 1 PROVE n # EmitPhase(r)
    <3>1. EmitPhase(r) = 3 + 2 * r /\ r >= 0
      BY PhaseFacts
    <3>2. ASSUME NEW x \in Nat PROVE (3 + 2 * x) % 2 = 1 /\ 3 + 2 * x > 2
      OBVIOUS
    <3> QED
      BY <1>1, <3>1, <3>2
  <2> QED
    BY <1>1, <2>1, TokensStay
<1>2. CASE Fill(t)
  BY <1>1, <1>2 DEF Fill
<1>3. CASE LoadFirst(t)
  BY <1>1, <1>3 DEF LoadFirst
<1>4. CASE LoadSecond(t)
  BY <1>1, <1>4 DEF LoadSecond
<1>5. CASE Shift(t)
  <2>1. PICK r \in 1 .. Rounds - 1 : Step(t, ShiftPhase(r)) /\ bufferout' = bufferout
    BY <1>5, Zenon DEF Shift
  <2>2. ShiftPhase(r) \in Nat /\ ShiftPhase(r) % 2 = 0
    <3>1. ShiftPhase(r) = 2 + 2 * r
      BY PhaseFacts
    <3> QED
      BY <3>1
  <2> QED
    BY <1>1, <2>1, <2>2
<1> QED
  BY <1>2, <1>3, <1>4, <1>5

LEMMA SameInput ==
    ASSUME input' = input
    PROVE  /\ Packets' = Packets /\ buf_length' = buf_length
           /\ \A b : PacketOf(b)' = PacketOf(b)
BY DEF Packets, buf_length, PacketOf, Part

\* What stays as it is while the kernel works.
LEMMA KernelLeaves ==
    ASSUME PackInv, stage = "kernel", input' = input, job' = job, buffer' = buffer,
           decoded' = decoded, IInv', TokensFound', phase' \in [Threads -> 0 .. AfterLast],
           stage' = "kernel"
    PROVE  PackInv'
<1>1. Packets' = Packets /\ buf_length' = buf_length /\ \A b : PacketOf(b)' = PacketOf(b)
  BY SameInput
<1>2. Unpacks'
  BY <1>1 DEF PackInv, Unpacks, NothingYet
<1> QED
  BY <1>1, <1>2 DEF PackInv, LosslessIfRoom

LEMMA ThreadKeepsPackInv ==
    ASSUME NEW t \in Threads, PackInv,
           Fill(t) \/ LoadFirst(t) \/ LoadSecond(t) \/ Emit(t) \/ Shift(t)
    PROVE  PackInv'
<1>1. PICK n \in 0 .. AfterLast - 1 : Step(t, n)
  BY ThreadSteps
<1>2. /\ IInv /\ KernelOK /\ TokensFound /\ phase \in [Threads -> 0 .. AfterLast]
  BY DEF PackInv, IInv
<1>3. IInv'
  BY <1>2, ThreadKeeps
<1>4. TokensFound'
  BY <1>2, EmitFinds, OtherStepsFind
<1>5. phase' \in [Threads -> 0 .. AfterLast]
  BY <1>1, <1>2, PhasesKeep
<1>6. /\ stage = "kernel" /\ stage' = stage /\ input' = input /\ job' = job
      /\ buffer' = buffer /\ decoded' = decoded
  BY <1>1 DEF Step
<1> QED
  BY <1>3, <1>4, <1>5, <1>6, KernelLeaves

-----------------------------------------------------------------------------
(* From block to block, and from the kernel to aftercomp.                  *)

LEMMA BlockFound ==
    ASSUME PackInv, stage = "kernel", \A t \in Threads : phase[t] = AfterLast,
           NEW p \in 1 .. (block + 1) * PCKTSIZE
    PROVE  bufferout[p] # <<>>
<1>1. input \in Inputs /\ TokensFound /\ block \in Packets
  BY DEF PackInv, IInv, TokensFound
<1>2. block * PCKTSIZE \in Nat /\ (block + 1) * PCKTSIZE = block * PCKTSIZE + PCKTSIZE
  BY <1>1, PacketBounds
<1>3. CASE p \in 1 .. block * PCKTSIZE
  BY <1>1, <1>3 DEF TokensFound
<1>4. CASE p \in block * PCKTSIZE + 1 .. (block + 1) * PCKTSIZE
  <2>1. PICK t \in Threads, r \in 0 .. Rounds - 1 : p = block * PCKTSIZE + r * MAX_CODED + t + 1
    BY <1>1, <1>4, PlaceOfThread
  <2>2. phase[t] > EmitPhase(r)
    <3>1. AfterLast = 2 * Rounds + 2 /\ EmitPhase(r) = 3 + 2 * r /\ Rounds \in Nat
      BY PhaseFacts, Sizes
    <3>2. phase[t] = AfterLast /\ r \in 0 .. Rounds - 1
      OBVIOUS
    <3> QED
      BY <3>1, <3>2
  <2> QED
    BY <1>1, <2>1, <2>2 DEF TokensFound
<1>5. p \in 1 .. block * PCKTSIZE \/ p \in block * PCKTSIZE + 1 .. (block + 1) * PCKTSIZE
  <2> DEFINE S == block * PCKTSIZE
             T == (block + 1) * PCKTSIZE
  <2>1. S \in Nat /\ p \in 1 .. T
    BY <1>2
  <2> HIDE DEF S, T
  <2>2. p \in 1 .. S \/ p \in S + 1 .. T
    BY <2>1
  <2> QED
    BY <2>2 DEF S, T
<1> QED
  BY <1>3, <1>4, <1>5

LEMMA LastBlock ==
    ASSUME input \in Inputs, NEW b \in Packets, b + 1 \notin Packets
    PROVE  buf_length = (b + 1) * PCKTSIZE
<1>1. buf_length = (buf_length \div PCKTSIZE) * PCKTSIZE /\ buf_length \div PCKTSIZE \in Nat \ {0}
  BY WholePackets
<1>2. b + 1 = buf_length \div PCKTSIZE
  <2> DEFINE N == buf_length \div PCKTSIZE
  <2>1. N \in Nat \ {0} /\ b \in 0 .. N - 1 /\ b + 1 \notin 0 .. N - 1
    BY <1>1 DEF Packets
  <2> HIDE DEF N
  <2>2. b + 1 = N
    BY <2>1
  <2> QED
    BY <2>2 DEF N
<1> QED
  BY <1>1, <1>2

LEMMA NextBlockFinds ==
    ASSUME PackInv, NextBlock
    PROVE  TokensFound'
<1>1. /\ stage = "kernel" /\ \A t \in Threads : phase[t] = AfterLast
      /\ input' = input /\ bufferout' = bufferout
      /\ IF block + 1 \in Packets
         THEN block' = block + 1 /\ phase' = [t \in Threads |-> 0] /\ stage' = stage
         ELSE stage' = "pack"
  BY DEF NextBlock
<1>2. input \in Inputs /\ TokensFound /\ block \in Packets
  BY <1>1 DEF PackInv, IInv, TokensFound
<1>3. \A p \in 1 .. (block + 1) * PCKTSIZE : bufferout[p] # <<>>
  BY <1>1, BlockFound
<1>4. Packets' = Packets /\ buf_length' = buf_length
  BY <1>1, SameInput
<1>5. CASE block + 1 \in Packets
  <2>1. ASSUME NEW t \in Threads, NEW r \in 0 .. Rounds - 1 PROVE ~ (phase'[t] > EmitPhase(r))
    <3>1. phase'[t] = 0 /\ EmitPhase(r) = 3 + 2 * r /\ r \in Nat
      BY <1>1, <1>5, PhaseFacts, Sizes
    <3> QED
      BY <3>1
  <2> QED
    BY <1>1, <1>2, <1>3, <1>4, <1>5, <2>1 DEF TokensFound
<1>6. CASE block + 1 \notin Packets
  <2>1. buf_length = (block + 1) * PCKTSIZE
    BY <1>2, <1>6, LastBlock
  <2> QED
    BY <1>1, <1>2, <1>3, <1>4, <1>6, <2>1 DEF TokensFound
<1> QED
  BY <1>5, <1>6

\* aftercomp begins with nothing packed.
LEMMA PackingBegins ==
    ASSUME input \in Inputs, job = NewJob, buffer = <<>>
    PROVE  Packed(job, buffer)
<1>1. /\ input \in Seq(Symbol) /\ Len(input) \in Nat /\ buf_length = Len(input)
      /\ PCKTSIZE \in Nat \ {0} /\ FLAGS - 1 \in Nat
  BY WholePackets, Sizes, SizesAssumption DEF buf_length
<1>2. /\ job.flags = 0 /\ job.flagPos = 1 /\ job.holdbuf = <<>>
      /\ job.i = 0 /\ job.tempj = 0 /\ job.header = <<>>
  BY DEF NewJob
<1>3. job \in JobType
  BY EmptySeq DEF NewJob, JobType
<1>4. buffer \in Seq(Bytes) /\ Len(buffer) = 0
  BY EmptySeq
<1>5. Len(job.header) = 0
  BY <1>2, EmptySeq
<1>6. 0 * PCKTSIZE = 0 /\ 0 < (0 + 1) * PCKTSIZE
  BY <1>1
<1>7. Cuts([j \in {0} |-> 0], buffer, job.header, job.tempj)
  <2>1. 0 .. 0 = {0} /\ 1 .. 0 = {}
    OBVIOUS
  <2> QED
    BY <1>2, <1>5, <2>1 DEF Cuts
<1>8. GroupOK(job, buffer)
  <2>1. SubSeq(buffer, 0 + 1, 0) = <<>>
    BY <1>4
  <2>2. Decodes(<<>>, 0, 0, 1, <<>>, Part(0, 0))
    BY <1>1, NothingDecoded
  <2>3. 0 \in 0 .. FLAGS - 1 /\ FlagBit[0] = 1
    BY <1>1, FlagBits
  <2> QED
    BY <1>2, <1>4, <1>5, <1>6, <2>1, <2>2, <2>3 DEF GroupOK
<1> QED
  BY <1>1, <1>2, <1>3, <1>4, <1>5, <1>6, <1>7, <1>8 DEF Packed

LEMMA PacksStays ==
    ASSUME Packed(job, buffer), input' = input, job' = job, buffer' = buffer
    PROVE  Packed(job, buffer)'
BY DEF Packed, Cuts, GroupOK, PacketOf, Part, buf_length

LEMMA NextBlockKeepsPackInv ==
    ASSUME PackInv, NextBlock
    PROVE  PackInv'
<1>1. /\ stage = "kernel" /\ input' = input /\ job' = job /\ buffer' = buffer
      /\ decoded' = decoded
      /\ \/ stage' = stage /\ phase' = [t \in Threads |-> 0]
         \/ stage' = "pack" /\ phase' = phase
  BY DEF NextBlock
<1>2. IInv' /\ TokensFound'
  BY NextBlockKeeps, NextBlockFinds DEF PackInv
<1>3. phase' \in [Threads -> 0 .. AfterLast]
  <2>1. AfterLast \in Nat
    BY PhaseFacts
  <2>2. 0 \in 0 .. AfterLast
    BY <2>1
  <2> QED
    BY <1>1, <2>2 DEF PackInv
<1>4. CASE stage' = stage
  BY <1>1, <1>2, <1>3, <1>4, KernelLeaves
<1>5. CASE stage' = "pack"
  <2>1. job = NewJob /\ buffer = <<>> /\ input \in Inputs
    BY <1>1 DEF PackInv, IInv
  <2>2. Packed(job, buffer)'
    BY <1>1, <2>1, PackingBegins, PacksStays
  <2>3. Packets' = Packets /\ buf_length' = buf_length /\ \A b : PacketOf(b)' = PacketOf(b)
    BY <1>1, SameInput
  <2>4. Unpacks'
    BY <1>1, <1>5, <2>3 DEF PackInv, Unpacks, NothingYet
  <2> QED
    BY <1>1, <1>2, <1>3, <1>5, <2>2, <2>3, <2>4 DEF PackInv, LosslessIfRoom
<1> QED
  BY <1>1, <1>4, <1>5

-----------------------------------------------------------------------------
(* aftercomp takes a token.                                                *)

\* The packet aftercomp is in, and the bytes of it that are packed.
LEMMA PacketOfByte ==
    ASSUME input \in Inputs, NEW i \in Nat, i < buf_length, NEW b \in Nat,
           b * PCKTSIZE <= i, i < (b + 1) * PCKTSIZE
    PROVE  /\ b \in Packets /\ i \div PCKTSIZE = b
           /\ b * PCKTSIZE \in Nat /\ (b + 1) * PCKTSIZE = b * PCKTSIZE + PCKTSIZE
           /\ (b + 1) * PCKTSIZE <= buf_length
<1>1. PCKTSIZE \in Nat \ {0}
  BY Sizes
<1>2. /\ buf_length = (buf_length \div PCKTSIZE) * PCKTSIZE
      /\ buf_length \div PCKTSIZE \in Nat \ {0}
  BY WholePackets
<1>3. ASSUME NEW c \in Int, NEW m \in Nat \ {0}
      PROVE  c * m \in Int /\ (c + 1) * m = c * m + m
  OBVIOUS
<1>4. b * PCKTSIZE \in Int /\ (b + 1) * PCKTSIZE = b * PCKTSIZE + PCKTSIZE
  BY <1>1, <1>3
<1>5. i \div PCKTSIZE = b
  <2> DEFINE S == b * PCKTSIZE
             y == i - S
  <2>1. S \in Int /\ i < S + PCKTSIZE /\ S <= i
    BY <1>4
  <2> HIDE DEF S
  <2>2. y \in 0 .. PCKTSIZE - 1 /\ i = S + y
    BY <1>1, <2>1
  <2> HIDE DEF y
  <2>3. (b * PCKTSIZE + y) \div PCKTSIZE = b
    BY <1>1, <2>2, DivUnique
  <2> QED
    BY <2>2, <2>3 DEF S
<1>6. b \in Packets
  <2>1. i \div PCKTSIZE \in 0 .. (buf_length \div PCKTSIZE) - 1
    BY <1>1, <1>2, QuotientBelow
  <2> QED
    BY <1>5, <2>1 DEF Packets
<1> QED
  BY <1>4, <1>5, <1>6, PacketBounds

\* The token of the next byte says what follows, and ends within the packet.
LEMMA TokenAhead ==
    ASSUME input \in Inputs, TokensDecodable, TokensFound, stage = "pack",
           DOMAIN bufferout = 1 .. buf_length,
           NEW i \in Nat, i < buf_length, NEW b \in Nat,
           b * PCKTSIZE <= i, i < (b + 1) * PCKTSIZE
    PROVE  /\ bufferout[i + 1] \in Tokens
           /\ Says(b * PCKTSIZE, i, bufferout[i + 1])
           /\ i + bufferout[i + 1][1] <= (b + 1) * PCKTSIZE
<1> DEFINE token == bufferout[i + 1]
           n == token[1]
           S == b * PCKTSIZE
<1>1. i + 1 \in 1 .. buf_length /\ (i + 1) - 1 = i
  BY WholePackets
<1>2. token \in Tokens /\ token # <<>>
  BY <1>1 DEF TokensFound
<1>3. i \div PCKTSIZE = b /\ S \in Nat /\ (b + 1) * PCKTSIZE = S + PCKTSIZE /\ PCKTSIZE \in Nat
  BY PacketOfByte, Sizes
<1>4. Describes(i + 1, token)
  BY <1>1, <1>2 DEF TokensDecodable, Describes
<1>5. IF n = 1 THEN token[2] = input[i + 1]
      ELSE /\ i + n <= S + PCKTSIZE
           /\ \A q \in 0 .. n - 1 :
                 input[i + 1 + q] = WindowAt(Part(S, i), (token[2] + q) % WINDOW_SIZE)
  <2> HIDE DEF token
  <2>1. IF n = 1 THEN token[2] = input[i + 1]
        ELSE /\ (i + 1) - 1 + n <= (((i + 1) - 1) \div PCKTSIZE) * PCKTSIZE + PCKTSIZE
             /\ \A q \in 0 .. n - 1 :
                   input[i + 1 + q] =
                      WindowAt(SubSeq(input, (((i + 1) - 1) \div PCKTSIZE) * PCKTSIZE + 1, (i + 1) - 1),
                               (token[2] + q) % WINDOW_SIZE)
    BY <1>4, Zenon DEF Describes
  <2> QED
    BY <1>1, <1>3, <2>1 DEF Part
<1> HIDE DEF token
<1>6. n \in Nat \ {0} /\ (n # 1 => token[2] \in Nat)
  BY <1>2 DEF Tokens
<1>7. CASE n = 1
  <2>1. Says(S, i, token)
    BY <1>5, <1>7 DEF Says
  <2>2. i + n <= (b + 1) * PCKTSIZE
    BY <1>3, <1>7
  <2> QED
    BY <1>2, <2>1, <2>2 DEF token
<1>8. CASE n # 1
  <2>1. ASSUME NEW q \in 1 .. n
        PROVE  input[i + q] = WindowAt(Part(S, i), (token[2] + q - 1) % WINDOW_SIZE)
    <3> DEFINE q1 == q - 1
    <3>1. q1 \in 0 .. n - 1 /\ i + 1 + q1 = i + q /\ token[2] + q1 = token[2] + q - 1
      BY <1>6, <1>8
    <3> HIDE DEF q1
    <3> QED
      BY <1>5, <1>8, <3>1
  <2>2. Says(S, i, token)
    BY <1>8, <2>1 DEF Says
  <2>3. i + n <= (b + 1) * PCKTSIZE
    BY <1>3, <1>5, <1>8
  <2> QED
    BY <1>2, <2>2, <2>3 DEF token
<1> QED
  BY <1>7, <1>8

LEMMA HoldIs ==
    ASSUME job \in JobType, NEW token \in Tokens, NEW h, h = Hold(token)
    PROVE  /\ h \in JobType
           /\ h.flags = IF token[1] = 1 THEN job.flags + job.flagPos ELSE job.flags
           /\ h.holdbuf = job.holdbuf \o Written(token)
           /\ h.i = job.i + token[1] /\ h.flagPos = job.flagPos
           /\ h.tempj = job.tempj /\ h.header = job.header
<1>1. /\ job.flags \in Nat /\ job.flagPos \in Nat /\ job.holdbuf \in Seq(Bytes)
      /\ job.i \in Nat /\ job.tempj \in Nat /\ job.header \in Seq(Nat)
  BY DEF JobType
<1>2. token[1] \in Nat \ {0} /\ token[2] \in Bytes /\ Written(token) \in Seq(Bytes)
  BY WrittenIs
<1> DEFINE fl == IF token[1] = 1 THEN job.flags + job.flagPos ELSE job.flags
           hb == job.holdbuf \o Written(token)
<1>3. (IF token[1] = 1 THEN Append(job.holdbuf, token[2]) ELSE job.holdbuf \o token) = hb
  <2>1. CASE token[1] = 1
    <3>1. Written(token) = <<token[2]>>
      BY <2>1 DEF Written
    <3>2. Append(job.holdbuf, token[2]) = job.holdbuf \o <<token[2]>>
      BY <1>1, <1>2, AppendIsConcat
    <3> QED
      BY <2>1, <3>1, <3>2
  <2>2. CASE token[1] # 1
    BY <2>2 DEF Written
  <2> QED
    BY <2>1, <2>2
<1>4. hb \in Seq(Bytes) /\ fl \in Nat
  BY <1>1, <1>2, ConcatProperties
<1> HIDE DEF fl, hb
<1>5. h = [job EXCEPT !.flags = fl, !.holdbuf = hb, !.i = job.i + token[1]]
  <2>1. h = [job EXCEPT !.flags = IF token[1] = 1 THEN job.flags + job.flagPos ELSE job.flags,
                        !.holdbuf = IF token[1] = 1 THEN Append(job.holdbuf, token[2])
                                    ELSE job.holdbuf \o token,
                        !.i = job.i + token[1]]
    BY DEF Hold, JobType
  <2> QED
    BY <1>3, <2>1 DEF fl
<1>6. job.i + token[1] \in Nat
  BY <1>1, <1>2
<1>7. h \in JobType
  BY <1>1, <1>4, <1>5, <1>6 DEF JobType
<1>8. /\ h.flags = fl /\ h.holdbuf = hb /\ h.i = job.i + token[1] /\ h.flagPos = job.flagPos
      /\ h.tempj = job.tempj /\ h.header = job.header
  BY <1>5 DEF JobType
<1> QED
  BY <1>7, <1>8 DEF fl, hb

\* The token is held back with its flag.
Held(h) ==
    /\ h \in JobType /\ h.tempj = job.tempj /\ h.header = job.header
    /\ Len(h.header) * PCKTSIZE < h.i /\ h.i <= (Len(h.header) + 1) * PCKTSIZE
    /\ Len(h.header) \in Packets
    /\ \E k \in 0 .. FLAGS - 1 :
          /\ h.flagPos = FlagBit[k]
          /\ Decodes(SubSeq(buffer, h.tempj + 1, Len(buffer)), k + 1, h.flags, 2 * h.flagPos,
                     h.holdbuf, Part(Len(h.header) * PCKTSIZE, h.i))

LEMMA TokenIsHeld ==
    ASSUME PackInv, stage = "pack", job.i < buf_length,
           NEW h, h = Hold(bufferout[job.i + 1])
    PROVE  Held(h)
<1> DEFINE f == SubSeq(buffer, job.tempj + 1, Len(buffer))
           b == Len(job.header)
           S == b * PCKTSIZE
           token == bufferout[job.i + 1]
<1>1. /\ input \in Inputs /\ TokensDecodable /\ TokensFound /\ DOMAIN bufferout = 1 .. buf_length
      /\ Packed(job, buffer)
  BY DEF PackInv, IInv
<1>2. /\ job \in JobType /\ buffer \in Seq(Bytes) /\ job.tempj <= Len(buffer)
      /\ S <= job.i /\ job.i < (b + 1) * PCKTSIZE
      /\ GroupOK(job, buffer)
  BY <1>1 DEF Packed
<1>3. /\ job.i \in Nat /\ b \in Nat /\ job.tempj \in Nat /\ Len(buffer) \in Nat
      /\ job.flags \in Nat /\ job.holdbuf \in Seq(Bytes)
  BY <1>2 DEF JobType
<1>4. /\ b \in Packets /\ S \in Nat /\ (b + 1) * PCKTSIZE = S + PCKTSIZE
      /\ (b + 1) * PCKTSIZE <= buf_length
  BY <1>1, <1>2, <1>3, PacketOfByte
<1>5. /\ token \in Tokens /\ Says(S, job.i, token) /\ job.i + token[1] <= (b + 1) * PCKTSIZE
  BY <1>1, <1>2, <1>3, TokenAhead
<1>6. f \in Seq(Bytes)
  BY <1>2, <1>3
<1>7. PICK k \in 0 .. FLAGS - 1 :
         /\ job.flagPos = FlagBit[k]
         /\ k = 0 => job.flags = 0 /\ job.holdbuf = <<>>
         /\ Decodes(f, k, job.flags, job.flagPos, job.holdbuf, Part(S, job.i))
  BY <1>2 DEF GroupOK
<1>8. job.flagPos \in Nat /\ (k = 0 => job.flagPos = 1)
  BY <1>7, FlagBits
<1>9. input \in Seq(Symbol) /\ job.i + token[1] <= Len(input) /\ buf_length \in Nat
      /\ token[1] \in Nat \ {0}
  <2>1. input \in Seq(Symbol) /\ Len(input) \in Nat /\ buf_length = Len(input)
    BY <1>1, WholePackets DEF buf_length
  <2>2. token[1] \in Nat \ {0}
    BY <1>5, WrittenIs
  <2> HIDE DEF token
  <2>3. job.i + token[1] <= Len(input)
    <3> DEFINE T == (b + 1) * PCKTSIZE
    <3>1. T \in Int /\ T <= Len(input) /\ job.i + token[1] <= T
      BY <1>4, <1>5, <2>1, Sizes
    <3> HIDE DEF T
    <3> QED
      BY <1>3, <2>1, <2>2, <3>1
  <2> QED
    BY <2>1, <2>2, <2>3
<1> HIDE DEF f, S, token
<1>10. Decodes(f, k + 1, IF token[1] = 1 THEN job.flags + job.flagPos ELSE job.flags,
               2 * job.flagPos, job.holdbuf \o Written(token), Part(S, job.i + token[1]))
  BY <1>2, <1>3, <1>4, <1>5, <1>6, <1>7, <1>8, <1>9, TokenHeld
<1>11. /\ h \in JobType
       /\ h.flags = IF token[1] = 1 THEN job.flags + job.flagPos ELSE job.flags
       /\ h.holdbuf = job.holdbuf \o Written(token)
       /\ h.i = job.i + token[1] /\ h.flagPos = job.flagPos
       /\ h.tempj = job.tempj /\ h.header = job.header
  <2>1. h = Hold(token)
    BY DEF token
  <2> QED
    BY <1>2, <1>5, <2>1, HoldIs
<1>12. Decodes(f, k + 1, h.flags, 2 * h.flagPos, h.holdbuf, Part(S, h.i))
  BY <1>10, <1>11
<1>13. S < h.i /\ h.i <= (b + 1) * PCKTSIZE
  BY <1>2, <1>3, <1>4, <1>5, <1>9, <1>11
<1> QED
  BY <1>4, <1>7, <1>11, <1>12, <1>13 DEF Held, f, S

-----------------------------------------------------------------------------
(* What is written of a group, and the end of a packet.                    *)

LEMMA SubSeqBehind ==
    ASSUME NEW s \in Seq(Bytes), NEW t \in Seq(Bytes), NEW a \in Nat, a <= Len(s)
    PROVE  SubSeq(s \o t, a + 1, Len(s \o t)) = SubSeq(s, a + 1, Len(s)) \o t
<1> DEFINE n == Len(s)
           m == Len(t)
           z == s \o t
           x == SubSeq(z, a + 1, n + m)
           y == SubSeq(s, a + 1, n)
<1>1. n \in Nat /\ m \in Nat /\ a <= n
  OBVIOUS
<1>2. /\ z \in Seq(Bytes) /\ Len(z) = n + m
      /\ \A k \in 1 .. n + m : z[k] = IF k <= n THEN s[k] ELSE t[k - n]
  BY ConcatProperties
<1>3. /\ y \in Seq(Bytes) /\ Len(y) = n - a
      /\ \A k \in 1 .. n - a : y[k] = s[a + k]
  OBVIOUS
<1>4. /\ y \o t \in Seq(Bytes) /\ Len(y \o t) = n - a + m
      /\ \A k \in 1 .. n - a + m : (y \o t)[k] = IF k <= n - a THEN y[k] ELSE t[k - (n - a)]
  <2> HIDE DEF y
  <2>1. /\ y \o t \in Seq(Bytes) /\ Len(y \o t) = Len(y) + m
        /\ \A k \in 1 .. Len(y) + m : (y \o t)[k] = IF k <= Len(y) THEN y[k] ELSE t[k - Len(y)]
    BY <1>3, ConcatProperties
  <2>2. Len(y) = n - a
    BY <1>3
  <2> QED
    BY <2>1, <2>2, Zenon
<1>5. /\ x \in Seq(Bytes) /\ Len(x) = n - a + m
      /\ \A k \in 1 .. n - a + m : x[k] = z[a + k]
  <2> HIDE DEF z, n, m
  <2> QED
    BY <1>1, <1>2
<1> HIDE DEF x, y, z, n, m
<1>6. ASSUME NEW k \in 1 .. n - a + m PROVE x[k] = (y \o t)[k]
  <2>1. a + k \in 1 .. n + m /\ a + k - n = k - (n - a)
    BY <1>1
  <2>2. x[k] = IF a + k <= n THEN s[a + k] ELSE t[k - (n - a)]
    <3>1. x[k] = z[a + k]
      BY <1>5
    <3>2. (a + k) - n = k - (n - a)
      BY <1>1
    <3> QED
      BY <1>2, <2>1, <3>1, <3>2
  <2>3. CASE k <= n - a
    <3>1. a + k <= n /\ k \in 1 .. n - a
      BY <1>1, <2>3
    <3> QED
      BY <1>3, <1>4, <2>2, <2>3, <3>1
  <2>4. CASE ~ (k <= n - a)
    <3>1. ~ (a + k <= n)
      BY <1>1, <2>4
    <3> QED
      BY <1>4, <2>2, <2>4, <3>1
  <2> QED
    BY <2>3, <2>4
<1>7. x = y \o t
  BY <1>4, <1>5, <1>6, SeqEqual
<1> QED
  BY <1>2, <1>7 DEF x, y, z, n, m

LEMMA SubSeqAhead ==
    ASSUME NEW s \in Seq(Bytes), NEW t \in Seq(Bytes), NEW a \in Nat, NEW c \in Nat,
           a <= c, c <= Len(s)
    PROVE  SubSeq(s \o t, a + 1, c) = SubSeq(s, a + 1, c)
<1>1. /\ s \o t \in Seq(Bytes) /\ Len(s \o t) = Len(s) + Len(t)
      /\ \A k \in 1 .. Len(s) : (s \o t)[k] = s[k]
  BY ConcatProperties
<1> DEFINE z == s \o t
<1>2. z \in Seq(Bytes) /\ c <= Len(z) /\ \A k \in 1 .. c : z[k] = s[k]
  BY <1>1
<1> HIDE DEF z
<1>3. SubSeq(z, a + 1, c) \in Seq(Bytes) /\ Len(SubSeq(z, a + 1, c)) = c - a
  BY <1>2
<1>4. SubSeq(s, a + 1, c) \in Seq(Bytes) /\ Len(SubSeq(s, a + 1, c)) = c - a
  OBVIOUS
<1>5. ASSUME NEW k \in 1 .. c - a PROVE SubSeq(z, a + 1, c)[k] = SubSeq(s, a + 1, c)[k]
  BY <1>2
<1>6. SubSeq(z, a + 1, c) = SubSeq(s, a + 1, c)
  BY <1>3, <1>4, <1>5, SeqEqual
<1> QED
  BY <1>6 DEF z

\* What is written when a group is flushed.
LEMMA FlushedIs ==
    ASSUME NEW s \in Seq(Bytes), NEW h \in JobType, h.tempj <= Len(s)
    PROVE  /\ s \o Flush(h) \in Seq(Bytes) /\ Len(s) <= Len(s \o Flush(h))
           /\ SubSeq(s \o Flush(h), h.tempj + 1, Len(s \o Flush(h)))
                 = (SubSeq(s, h.tempj + 1, Len(s)) \o <<h.flags>>) \o h.holdbuf
<1>1. h.flags \in Nat /\ h.holdbuf \in Seq(Bytes) /\ h.tempj \in Nat
  BY DEF JobType
<1>2. <<h.flags>> \in Seq(Bytes)
  BY <1>1 DEF Bytes
<1>3. Flush(h) \in Seq(Bytes)
  BY <1>1, <1>2, ConcatProperties DEF Flush
<1>4. s \o Flush(h) \in Seq(Bytes) /\ Len(s \o Flush(h)) = Len(s) + Len(Flush(h))
  BY <1>3, ConcatProperties
<1>5. Len(s) \in Nat /\ Len(Flush(h)) \in Nat
  BY <1>3
<1>6. Len(s) <= Len(s \o Flush(h))
  BY <1>4, <1>5
<1>7. SubSeq(s \o Flush(h), h.tempj + 1, Len(s \o Flush(h)))
         = SubSeq(s, h.tempj + 1, Len(s)) \o Flush(h)
  BY <1>1, <1>3, SubSeqBehind
<1>8. SubSeq(s, h.tempj + 1, Len(s)) \in Seq(Bytes)
  BY <1>1
<1>9. SubSeq(s, h.tempj + 1, Len(s)) \o Flush(h)
         = (SubSeq(s, h.tempj + 1, Len(s)) \o <<h.flags>>) \o h.holdbuf
  BY <1>1, <1>2, <1>8, BytesConcat DEF Flush
<1> QED
  BY <1>4, <1>6, <1>7, <1>9

\* What was written stands.
LEMMA CutsStand ==
    ASSUME NEW f \in Seq(Bytes), NEW g \in Seq(Bytes), NEW h, Len(h) \in Nat, NEW e \in Nat,
           e <= Len(f), NEW cut, Cuts(cut, f, h, e)
    PROVE  Cuts(cut, f \o g, h, e)
<1>1. ASSUME NEW j \in 1 .. Len(h)
      PROVE  DecodePacket(SubSeq(f \o g, cut[j - 1] + 1, cut[j])) = PacketOf(j - 1)
  <2>1. j \in 0 .. Len(h) /\ j - 1 \in 0 .. Len(h)
    OBVIOUS
  <2>2. cut[j - 1] \in Nat /\ cut[j] \in Nat
    BY <2>1 DEF Cuts
  <2>3. /\ cut[j - 1] <= cut[j] /\ cut[j] <= e
        /\ DecodePacket(SubSeq(f, cut[j - 1] + 1, cut[j])) = PacketOf(j - 1)
    BY DEF Cuts
  <2>4. cut[j] <= Len(f)
    BY <2>2, <2>3
  <2>5. SubSeq(f \o g, cut[j - 1] + 1, cut[j]) = SubSeq(f, cut[j - 1] + 1, cut[j])
    BY <2>2, <2>3, <2>4, SubSeqAhead, ZenonT(30)
  <2> QED
    BY <2>3, <2>5
<1> QED
  BY <1>1 DEF Cuts

LEMMA EndOfPacket ==
    ASSUME NEW b \in Nat, NEW i \in Nat, b * PCKTSIZE < i, i <= (b + 1) * PCKTSIZE
    PROVE  i % PCKTSIZE = 0 <=> i = (b + 1) * PCKTSIZE
<1>1. PCKTSIZE \in Nat \ {0}
  BY Sizes
<1>2. ASSUME NEW c \in Int, NEW m \in Nat \ {0}
      PROVE  c * m \in Int /\ (c + 1) * m = c * m + m /\ (0 + c * m) % m = 0
  <2>1. c * m \in Int /\ (c + 1) * m = c * m + m
    OBVIOUS
  <2>2. 0 \in 0 .. m - 1
    OBVIOUS
  <2> QED
    BY <2>1, <2>2, ModUnique
<1> DEFINE S == b * PCKTSIZE
           T == (b + 1) * PCKTSIZE
           y == i - S
<1>3. S \in Int /\ T = S + PCKTSIZE /\ (0 + T) % PCKTSIZE = 0
  BY <1>1, <1>2
<1>4. S < i /\ i <= T
  OBVIOUS
<1>5. ASSUME NEW x \in 0 .. PCKTSIZE - 1 PROVE (x + S) % PCKTSIZE = x
  BY <1>1, ModUnique
<1> HIDE DEF S, T
<1>6. CASE i = T
  <2>1. 0 + T = T
    BY <1>1, <1>3
  <2> QED
    BY <1>3, <1>6, <2>1, Zenon DEF T
<1>7. CASE i # T
  <2>1. y \in 0 .. PCKTSIZE - 1 /\ y # 0 /\ i = y + S
    BY <1>1, <1>3, <1>4, <1>7
  <2> HIDE DEF y
  <2>2. i % PCKTSIZE = y
    BY <1>5, <2>1
  <2> QED
    BY <1>7, <2>1, <2>2 DEF T
<1> QED
  BY <1>6, <1>7 DEF T

\* A token is held back, in the middle of a group.
LEMMA GroupGoesOn ==
    ASSUME input \in Inputs, Packed(job, buffer), NEW h, Held(h), h.flagPos # Top,
           ~ AtPacketEnd(h), NEW j, j = [h EXCEPT !.flagPos = 2 * h.flagPos]
    PROVE  Packed(j, buffer)
<1> DEFINE b == Len(h.header)
<1>1. /\ h \in JobType /\ b \in Packets /\ b * PCKTSIZE < h.i /\ h.i <= (b + 1) * PCKTSIZE
      /\ h.tempj = job.tempj /\ h.header = job.header
  BY DEF Held
<1>2. PICK k \in 0 .. FLAGS - 1 :
         /\ h.flagPos = FlagBit[k]
         /\ Decodes(SubSeq(buffer, h.tempj + 1, Len(buffer)), k + 1, h.flags, 2 * h.flagPos,
                    h.holdbuf, Part(b * PCKTSIZE, h.i))
  BY DEF Held
<1>3. k + 1 \in 1 .. FLAGS - 1 /\ FlagBit[k + 1] = 2 * h.flagPos
  <2>1. k # FLAGS - 1 /\ FLAGS \in Nat
    BY <1>2, TopIsLast, SizesAssumption
  <2>2. k + 1 \in 1 .. FLAGS - 1 /\ (k + 1) - 1 = k
    BY <2>1
  <2> QED
    BY <1>2, <2>2, FlagBits
<1>4. h.flagPos \in Nat /\ 2 * h.flagPos \in Nat /\ h.i \in Nat /\ b \in Nat
  <2>1. h.flagPos \in Nat /\ h.i \in Nat /\ b \in Nat
    BY <1>1 DEF JobType
  <2>2. ASSUME NEW x \in Nat PROVE 2 * x \in Nat
    OBVIOUS
  <2> QED
    BY <2>1, <2>2
<1>5. /\ j \in JobType /\ j.flags = h.flags /\ j.flagPos = 2 * h.flagPos
      /\ j.holdbuf = h.holdbuf /\ j.i = h.i /\ j.tempj = h.tempj /\ j.header = h.header
  BY <1>1, <1>4 DEF JobType
<1>6. h.i # (b + 1) * PCKTSIZE
  BY <1>1, <1>4, EndOfPacket DEF AtPacketEnd
<1>7. /\ b * PCKTSIZE <= j.i /\ j.i < (b + 1) * PCKTSIZE /\ j.i <= buf_length
  <2> DEFINE S == b * PCKTSIZE
             T == (b + 1) * PCKTSIZE
  <2>1. S \in Nat /\ T = S + PCKTSIZE /\ T <= buf_length /\ S < h.i /\ h.i <= T /\ h.i # T
    BY <1>1, <1>6, PacketBounds
  <2>2. buf_length \in Nat /\ PCKTSIZE \in Nat
    BY WholePackets, Sizes
  <2> HIDE DEF S, T
  <2>3. S <= h.i /\ h.i < T /\ h.i <= buf_length
    BY <1>4, <2>1, <2>2
  <2> QED
    BY <1>5, <2>3 DEF S, T
<1>8. GroupOK(j, buffer)
  <2>1. /\ k + 1 \in 0 .. FLAGS - 1 /\ k + 1 # 0 /\ j.flagPos = FlagBit[k + 1]
    BY <1>3, <1>5
  <2> QED
    BY <1>2, <1>5, <2>1, Zenon DEF GroupOK
<1>9. /\ buffer \in Seq(Bytes) /\ j.tempj <= Len(buffer)
      /\ \E cut : Cuts(cut, buffer, j.header, j.tempj)
  BY <1>1, <1>5 DEF Packed
<1> QED
  BY <1>5, <1>7, <1>8, <1>9 DEF Packed

\* The last token of a group is held back, within a packet.
LEMMA GroupIsWritten ==
    ASSUME input \in Inputs, Packed(job, buffer), NEW h, Held(h), h.flagPos = Top,
           ~ AtPacketEnd(h)
    PROVE  Packed(NextGroup(h), buffer \o Flush(h))
<1> DEFINE b == Len(h.header)
           w == buffer \o Flush(h)
           j == NextGroup(h)
<1>1. /\ h \in JobType /\ b \in Packets /\ b * PCKTSIZE < h.i /\ h.i <= (b + 1) * PCKTSIZE
      /\ h.tempj = job.tempj /\ h.header = job.header
  BY DEF Held
<1>2. PICK k \in 0 .. FLAGS - 1 :
         /\ h.flagPos = FlagBit[k]
         /\ Decodes(SubSeq(buffer, h.tempj + 1, Len(buffer)), k + 1, h.flags, 2 * h.flagPos,
                    h.holdbuf, Part(b * PCKTSIZE, h.i))
  BY DEF Held
<1>3. k + 1 = FLAGS /\ 0 \in 0 .. FLAGS - 1
  <2>1. k = FLAGS - 1 /\ FLAGS \in Nat \ {0}
    BY <1>2, TopIsLast, SizesAssumption
  <2> QED
    BY <2>1
<1>4. /\ h.i \in Nat /\ b \in Nat /\ h.flags \in Nat /\ h.flagPos \in Nat
      /\ h.holdbuf \in Seq(Bytes) /\ h.tempj \in Nat /\ 2 * h.flagPos \in Nat
  <2>1. /\ h.i \in Nat /\ b \in Nat /\ h.flags \in Nat /\ h.flagPos \in Nat
        /\ h.holdbuf \in Seq(Bytes) /\ h.tempj \in Nat
    BY <1>1 DEF JobType
  <2>2. ASSUME NEW x \in Nat PROVE 2 * x \in Nat
    OBVIOUS
  <2> QED
    BY <2>1, <2>2
<1>5. /\ j \in JobType /\ j.flags = 0 /\ j.flagPos = 1
      /\ j.holdbuf = <<>> /\ j.i = h.i /\ j.tempj = h.tempj /\ j.header = h.header
  <2>1. j = [h EXCEPT !.flags = 0, !.flagPos = 1, !.holdbuf = <<>>]
    BY DEF NextGroup
  <2>2. <<>> \in Seq(Bytes)
    OBVIOUS
  <2> HIDE DEF j
  <2> QED
    BY <1>1, <2>1, <2>2 DEF JobType
<1>6. h.i # (b + 1) * PCKTSIZE
  BY <1>1, <1>4, EndOfPacket DEF AtPacketEnd
<1>7. /\ b * PCKTSIZE <= j.i /\ j.i < (b + 1) * PCKTSIZE /\ j.i <= buf_length
  <2> DEFINE S == b * PCKTSIZE
             T == (b + 1) * PCKTSIZE
  <2>1. S \in Nat /\ T = S + PCKTSIZE /\ T <= buf_length /\ S < h.i /\ h.i <= T /\ h.i # T
    BY <1>1, <1>6, PacketBounds
  <2>2. buf_length \in Nat /\ PCKTSIZE \in Nat
    BY WholePackets, Sizes
  <2> HIDE DEF S, T
  <2>3. S <= h.i /\ h.i < T /\ h.i <= buf_length
    BY <1>4, <2>1, <2>2
  <2> HIDE DEF j
  <2> QED
    BY <1>5, <2>3 DEF S, T
<1>8. /\ buffer \in Seq(Bytes) /\ h.tempj <= Len(buffer)
      /\ \E cut : Cuts(cut, buffer, h.header, h.tempj)
  BY <1>1 DEF Packed
<1>9. /\ w \in Seq(Bytes) /\ Len(buffer) <= Len(w)
      /\ SubSeq(w, h.tempj + 1, Len(w))
            = (SubSeq(buffer, h.tempj + 1, Len(buffer)) \o <<h.flags>>) \o h.holdbuf
  BY <1>1, <1>8, FlushedIs
<1>10. Flush(h) \in Seq(Bytes)
  <2>1. <<h.flags>> \in Seq(Bytes)
    BY <1>4 DEF Bytes
  <2> QED
    BY <1>4, <2>1, ConcatProperties DEF Flush
<1>11. \E cut : Cuts(cut, w, h.header, h.tempj)
  <2>1. PICK cut : Cuts(cut, buffer, h.header, h.tempj)
    BY <1>8
  <2> QED
    BY <1>4, <1>8, <1>10, <2>1, CutsStand
<1>12. h.tempj <= Len(w)
  <2>1. Len(w) \in Nat /\ Len(buffer) \in Nat
    BY <1>8, <1>9
  <2> QED
    BY <1>4, <1>8, <1>9, <2>1
<1>13. Decodes(SubSeq(w, h.tempj + 1, Len(w)), 0, 0, 1, <<>>, Part(b * PCKTSIZE, h.i))
  <2> DEFINE f == SubSeq(buffer, h.tempj + 1, Len(buffer))
  <2>1. f \in Seq(Bytes)
    BY <1>4, <1>8
  <2>2. Decodes(f, FLAGS, h.flags, 2 * h.flagPos, h.holdbuf, Part(b * PCKTSIZE, h.i))
    BY <1>2, <1>3
  <2>3. Decodes((f \o <<h.flags>>) \o h.holdbuf, 0, 0, 1, <<>>, Part(b * PCKTSIZE, h.i))
    <3> HIDE DEF f
    <3> QED
      BY <1>4, <2>1, <2>2, GroupWritten
  <2> QED
    BY <1>9, <2>3
<1> HIDE DEF j, w
<1>14. GroupOK(j, w)
  BY <1>3, <1>5, <1>13, FlagBits, Zenon DEF GroupOK
<1>15. Packed(j, w)
  BY <1>5, <1>7, <1>9, <1>11, <1>12, <1>14 DEF Packed
<1> QED
  BY <1>15 DEF j, w

LEMMA CutAdded ==
    ASSUME NEW w \in Seq(Bytes), NEW h \in Seq(Nat), NEW e \in Nat, NEW n \in Nat, e <= n,
           NEW cut, Cuts(cut, w, h, e),
           DecodePacket(SubSeq(w, e + 1, n)) = PacketOf(Len(h))
    PROVE  \E c : Cuts(c, w, Append(h, n - e), n)
<1> DEFINE b == Len(h)
           c == [x \in 0 .. b + 1 |-> IF x <= b THEN cut[x] ELSE n]
           g == Append(h, n - e)
<1>1. b \in Nat /\ n - e \in Nat
  OBVIOUS
<1>2. /\ Len(g) = b + 1 /\ g[b + 1] = n - e /\ \A j \in 1 .. b : g[j] = h[j]
  BY <1>1, AppendProperties
<1>3. /\ cut \in [0 .. b -> Nat] /\ cut[0] = 0 /\ cut[b] = e
      /\ \A j \in 1 .. b :
            /\ cut[j - 1] <= cut[j] /\ cut[j] <= e /\ h[j] = cut[j] - cut[j - 1]
            /\ DecodePacket(SubSeq(w, cut[j - 1] + 1, cut[j])) = PacketOf(j - 1)
  BY DEF Cuts
<1> HIDE DEF b, g
<1>4. /\ c \in [0 .. b + 1 -> Nat] /\ c[0] = 0 /\ c[b + 1] = n
      /\ \A x \in 0 .. b : c[x] = cut[x]
  <2>1. ASSUME NEW x \in 0 .. b PROVE c[x] = cut[x]
    BY <1>1
  <2>2. c[b + 1] = n
    BY <1>1
  <2>3. ASSUME NEW x \in 0 .. b + 1 PROVE (IF x <= b THEN cut[x] ELSE n) \in Nat
    BY <1>1, <1>3
  <2>4. 0 \in 0 .. b
    BY <1>1
  <2> QED
    BY <1>3, <2>1, <2>2, <2>3, <2>4
<1> HIDE DEF c
<1>5. ASSUME NEW j \in 1 .. b + 1
      PROVE  /\ c[j - 1] <= c[j] /\ c[j] <= n /\ g[j] = c[j] - c[j - 1]
             /\ DecodePacket(SubSeq(w, c[j - 1] + 1, c[j])) = PacketOf(j - 1)
  <2>1. CASE j = b + 1
    <3>1. j - 1 = b /\ b \in 0 .. b
      BY <1>1, <2>1
    <3>2. c[j - 1] = e /\ c[j] = n /\ g[j] = n - e
      BY <1>2, <1>3, <1>4, <2>1, <3>1
    <3> QED
      BY <3>1, <3>2 DEF b
  <2>2. CASE j # b + 1
    <3>1. j \in 1 .. b /\ j \in 0 .. b /\ j - 1 \in 0 .. b
      BY <1>1, <2>2
    <3>2. c[j - 1] = cut[j - 1] /\ c[j] = cut[j] /\ g[j] = h[j]
      BY <1>2, <1>4, <3>1
    <3>3. /\ cut[j - 1] <= cut[j] /\ cut[j] <= e /\ h[j] = cut[j] - cut[j - 1]
          /\ DecodePacket(SubSeq(w, cut[j - 1] + 1, cut[j])) = PacketOf(j - 1)
      BY <1>3, <3>1
    <3>4. cut[j] \in Nat
      BY <1>3, <3>1
    <3>5. cut[j] <= n
      BY <3>3, <3>4
    <3> QED
      BY <3>2, <3>3, <3>5
  <2> QED
    BY <2>1, <2>2
<1>6. Cuts(c, w, g, n)
  BY <1>2, <1>4, <1>5 DEF Cuts
<1> QED
  BY <1>6 DEF g

\* The last token of a packet is held back.
LEMMA PacketIsWritten ==
    ASSUME input \in Inputs, Packed(job, buffer), NEW h, Held(h), AtPacketEnd(h),
           NEW w, w = buffer \o Flush(h), NEW j,
           j = [NextGroup(h) EXCEPT !.header = Append(@, Len(w) - NextGroup(h).tempj),
                                    !.tempj = Len(w)]
    PROVE  Packed(j, w)
<1> DEFINE b == Len(h.header)
           f == SubSeq(buffer, h.tempj + 1, Len(buffer))
<1>1. /\ h \in JobType /\ b \in Packets /\ b * PCKTSIZE < h.i /\ h.i <= (b + 1) * PCKTSIZE
      /\ h.tempj = job.tempj /\ h.header = job.header
  BY DEF Held
<1>2. PICK k \in 0 .. FLAGS - 1 :
         Decodes(f, k + 1, h.flags, 2 * h.flagPos, h.holdbuf, Part(b * PCKTSIZE, h.i))
  BY DEF Held
<1>3. k + 1 \in 1 .. FLAGS /\ 0 \in 0 .. FLAGS - 1
  BY SizesAssumption
<1>4. /\ h.i \in Nat /\ b \in Nat /\ h.flags \in Nat /\ h.flagPos \in Nat
      /\ h.holdbuf \in Seq(Bytes) /\ h.tempj \in Nat /\ 2 * h.flagPos \in Nat
      /\ h.header \in Seq(Nat)
  <2>1. /\ h.i \in Nat /\ b \in Nat /\ h.flags \in Nat /\ h.flagPos \in Nat
        /\ h.holdbuf \in Seq(Bytes) /\ h.tempj \in Nat /\ h.header \in Seq(Nat)
    BY <1>1 DEF JobType
  <2>2. ASSUME NEW x \in Nat PROVE 2 * x \in Nat
    OBVIOUS
  <2> QED
    BY <2>1, <2>2
<1>5. /\ buffer \in Seq(Bytes) /\ h.tempj <= Len(buffer)
      /\ \E cut : Cuts(cut, buffer, h.header, h.tempj)
  BY <1>1 DEF Packed
<1>6. /\ w \in Seq(Bytes) /\ Len(buffer) <= Len(w)
      /\ SubSeq(w, h.tempj + 1, Len(w)) = (f \o <<h.flags>>) \o h.holdbuf
  BY <1>1, <1>5, FlushedIs
<1>7. Len(w) \in Nat /\ h.tempj <= Len(w) /\ Len(w) - h.tempj \in Nat
  <2>1. Len(w) \in Nat /\ Len(buffer) \in Nat
    BY <1>5, <1>6
  <2>2. ASSUME NEW x \in Nat, NEW y \in Nat, NEW z \in Nat, x <= y, y <= z
        PROVE  x <= z /\ z - x \in Nat
    BY <2>2
  <2>3. h.tempj \in Nat /\ h.tempj <= Len(buffer) /\ Len(buffer) <= Len(w)
    BY <1>4, <1>5, <1>6
  <2> QED
    BY <2>1, <2>2, <2>3
<1>8. h.i = (b + 1) * PCKTSIZE
  BY <1>1, <1>4, EndOfPacket DEF AtPacketEnd
<1>9. DecodePacket(SubSeq(w, h.tempj + 1, Len(w))) = PacketOf(b)
  <2>1. f \in Seq(Bytes)
    BY <1>4, <1>5
  <2>2. DecodePacket((f \o <<h.flags>>) \o h.holdbuf) = Part(b * PCKTSIZE, h.i)
    <3> HIDE DEF f
    <3> QED
      BY <1>2, <1>3, <1>4, <2>1, PacketEnds
  <2> QED
    BY <1>6, <1>8, <2>2 DEF PacketOf
<1>10. Flush(h) \in Seq(Bytes)
  <2>1. <<h.flags>> \in Seq(Bytes)
    BY <1>4 DEF Bytes
  <2> QED
    BY <1>4, <2>1, ConcatProperties DEF Flush
<1> DEFINE g == Append(h.header, Len(w) - h.tempj)
<1>11. \E c : Cuts(c, w, g, Len(w))
  <2>1. PICK cut : Cuts(cut, buffer, h.header, h.tempj)
    BY <1>5
  <2>2. Cuts(cut, w, h.header, h.tempj)
    BY <1>4, <1>5, <1>10, <2>1, CutsStand
  <2> QED
    BY <1>4, <1>6, <1>7, <1>9, <2>2, CutAdded
<1>12. g \in Seq(Nat) /\ Len(g) = b + 1
  BY <1>4, <1>7, AppendProperties
<1> HIDE DEF g
<1>13. /\ j \in JobType /\ j.flags = 0 /\ j.flagPos = 1
       /\ j.holdbuf = <<>> /\ j.i = h.i /\ j.tempj = Len(w) /\ j.header = g
  <2>1. <<>> \in Seq(Bytes)
    OBVIOUS
  <2>2. NextGroup(h).tempj = h.tempj /\ NextGroup(h).header = h.header /\ NextGroup(h) \in JobType
        /\ NextGroup(h).flags = 0 /\ NextGroup(h).flagPos = 1 /\ NextGroup(h).holdbuf = <<>>
        /\ NextGroup(h).i = h.i
    BY <1>1, <2>1 DEF NextGroup, JobType
  <2>3. j = [NextGroup(h) EXCEPT !.header = g, !.tempj = Len(w)]
    BY <2>2 DEF g, JobType
  <2> QED
    BY <1>7, <1>12, <2>2, <2>3 DEF JobType
<1>14. /\ (b + 1) * PCKTSIZE <= j.i /\ j.i < (b + 1 + 1) * PCKTSIZE /\ j.i <= buf_length
  <2>1. ASSUME NEW c \in Nat, NEW m \in Nat \ {0}
        PROVE  (c + 1) * m = c * m + m /\ c * m \in Nat
    OBVIOUS
  <2> DEFINE T == (b + 1) * PCKTSIZE
  <2>2. PCKTSIZE \in Nat \ {0} /\ b + 1 \in Nat
    BY <1>4, Sizes
  <2>3. ((b + 1) + 1) * PCKTSIZE = T + PCKTSIZE /\ T \in Nat
    BY <2>1, <2>2
  <2>4. j.i = T /\ T <= buf_length
    BY <1>1, <1>8, <1>13, PacketBounds
  <2> HIDE DEF T
  <2>5. T <= j.i /\ j.i < T + PCKTSIZE /\ j.i <= buf_length
    BY <2>2, <2>3, <2>4
  <2> QED
    BY <2>3, <2>5 DEF T
<1>15. GroupOK(j, w)
  <2>1. SubSeq(w, Len(w) + 1, Len(w)) = <<>>
    BY <1>6, <1>7
  <2>2. h.i <= Len(input) /\ input \in Seq(Symbol)
    BY <1>13, <1>14, WholePackets DEF buf_length
  <2>3. Decodes(<<>>, 0, 0, 1, <<>>, Part(h.i, h.i))
    BY <1>4, <2>2, NothingDecoded
  <2>4. Len(j.header) * PCKTSIZE = h.i
    BY <1>8, <1>12, <1>13
  <2> QED
    BY <1>3, <1>13, <2>1, <2>3, <2>4, FlagBits, Zenon DEF GroupOK
<1>16. j.tempj <= Len(w) /\ \E c : Cuts(c, w, j.header, j.tempj)
  <2>1. j.tempj = Len(w) /\ j.header = g /\ Len(w) <= Len(w)
    BY <1>7, <1>13
  <2> QED
    BY <1>11, <2>1
<1>17. Len(j.header) = b + 1
  BY <1>12, <1>13
<1> QED
  BY <1>6, <1>13, <1>14, <1>15, <1>16, <1>17 DEF Packed

-----------------------------------------------------------------------------
(* The steps of aftercomp and of the wrapper keep the invariant.           *)

LEMMA TokenPacked ==
    ASSUME PackInv, stage = "pack", job.i < buf_length,
           NEW h, h = Hold(bufferout[job.i + 1]),
           NEW w, w = IF h.flagPos = Top \/ (AtPacketEnd(h) /\ ~ (h.flagPos = Top))
                      THEN buffer \o Flush(h) ELSE buffer,
           NEW next, next = IF h.flagPos = Top \/ (AtPacketEnd(h) /\ ~ (h.flagPos = Top))
                            THEN NextGroup(h) ELSE [h EXCEPT !.flagPos = 2 * @],
           NEW j, j = IF AtPacketEnd(h)
                      THEN [next EXCEPT !.header = Append(@, Len(w) - next.tempj),
                                        !.tempj = Len(w)]
                      ELSE next
    PROVE  Packed(j, w)
<1>1. input \in Inputs /\ Packed(job, buffer)
  BY DEF PackInv, IInv
<1>2. Held(h)
  BY TokenIsHeld
<1>3. CASE AtPacketEnd(h)
  <2>1. w = buffer \o Flush(h) /\ next = NextGroup(h)
    BY <1>3
  <2>2. j = [NextGroup(h) EXCEPT !.header = Append(@, Len(w) - NextGroup(h).tempj),
                                 !.tempj = Len(w)]
    BY <1>3, <2>1
  <2> QED
    BY <1>1, <1>2, <1>3, <2>1, <2>2, PacketIsWritten
<1>4. CASE ~ AtPacketEnd(h) /\ h.flagPos = Top
  <2>1. w = buffer \o Flush(h) /\ j = NextGroup(h)
    BY <1>4
  <2>2. Packed(NextGroup(h), buffer \o Flush(h))
    BY <1>1, <1>2, <1>4, GroupIsWritten
  <2> QED
    BY <2>1, <2>2
<1>5. CASE ~ AtPacketEnd(h) /\ h.flagPos # Top
  <2>1. w = buffer /\ j = [h EXCEPT !.flagPos = 2 * h.flagPos]
    BY <1>5
  <2> QED
    BY <1>1, <1>2, <1>5, <2>1, GroupGoesOn
<1> QED
  BY <1>3, <1>4, <1>5

LEMMA PackedNext ==
    ASSUME NEW j, NEW w, Packed(j, w), input' = input, job' = j, buffer' = w
    PROVE  Packed(job, buffer)'
BY DEF Packed, Cuts, GroupOK, PacketOf, Part, buf_length

LEMMA PackedTyped ==
    ASSUME input \in Inputs, NEW j, NEW w, Packed(j, w)
    PROVE  j.i \in 0 .. buf_length /\ j.flagPos \in 1 .. Top
<1>1. j.i \in Nat /\ j.i <= buf_length /\ buf_length \in Nat
  BY WholePackets DEF Packed, JobType
<1>2. PICK k \in 0 .. FLAGS - 1 : j.flagPos = FlagBit[k]
  BY DEF Packed, GroupOK
<1> QED
  BY <1>1, <1>2, TopIsLast

\* What stays as it is once the kernel has ended.
LEMMA TokensFoundStays ==
    ASSUME TokensFound, stage # "kernel", stage' # "kernel",
           input' = input, bufferout' = bufferout
    PROVE  TokensFound'
<1>1. buf_length' = buf_length
  BY SameInput
<1> QED
  BY <1>1 DEF TokensFound

LEMMA PackTokenKeepsPackInv ==
    ASSUME PackInv, PackToken
    PROVE  PackInv'
<1> DEFINE held == Hold(bufferout[job.i + 1])
           full == held.flagPos = Top
           rest == AtPacketEnd(held) /\ ~full
           written == IF full \/ rest THEN buffer \o Flush(held) ELSE buffer
           next == IF full \/ rest THEN NextGroup(held) ELSE [held EXCEPT !.flagPos = 2 * @]
           after == IF AtPacketEnd(held)
                    THEN [next EXCEPT !.header = Append(@, Len(written) - next.tempj),
                                      !.tempj = Len(written)]
                    ELSE next
<1>1. /\ stage = "pack" /\ job.i < buf_length /\ input' = input /\ stage' = stage
      /\ bufferout' = bufferout /\ phase' = phase /\ decoded' = decoded
  BY DEF PackToken, kernel
<1>2. buffer' = written /\ job' = after
  BY Zenon DEF PackToken
<1>3. Packed(after, written)
  BY <1>1, TokenPacked
<1>4. PICK j : j = after
  OBVIOUS
<1>5. PICK w : w = written
  OBVIOUS
<1> HIDE DEF after, written
<1>6. Packed(j, w) /\ job' = j /\ buffer' = w
  BY <1>2, <1>3, <1>4, <1>5
<1>7. Packed(job, buffer)'
  BY <1>1, <1>6, PackedNext
<1>8. input \in Inputs /\ TokensFound /\ IInv
  BY DEF PackInv, IInv
<1>9. job'.i \in 0 .. buf_length /\ job'.flagPos \in 1 .. Top
  BY <1>6, <1>8, PackedTyped
<1>10. IInv' /\ TokensFound'
  BY <1>1, <1>8, AfterKernelKeeps, TokensFoundStays
<1>11. Packets' = Packets /\ buf_length' = buf_length /\ \A b : PacketOf(b)' = PacketOf(b)
  BY <1>1, SameInput
<1>12. Unpacks'
  BY <1>1, <1>11 DEF PackInv, Unpacks, NothingYet
<1> QED
  BY <1>1, <1>7, <1>9, <1>10, <1>11, <1>12 DEF PackInv, LosslessIfRoom

LEMMA TookMoreKeepsPackInv ==
    ASSUME PackInv, TookMore
    PROVE  PackInv'
<1>1. /\ stage = "pack" /\ stage' = "chunk" /\ input' = input /\ buffer' = input
      /\ bufferout' = bufferout /\ phase' = phase /\ decoded' = decoded /\ job' = job
  BY DEF TookMore, kernel
<1>2. IInv' /\ TokensFound'
  BY <1>1, AfterKernelKeeps, TokensFoundStays DEF PackInv
<1>3. Packets' = Packets /\ buf_length' = buf_length /\ \A b : PacketOf(b)' = PacketOf(b)
  BY <1>1, SameInput
<1>4. Unpacks'
  BY <1>1, <1>3 DEF PackInv, Unpacks, NothingYet
<1>5. Chunk'
  BY <1>1 DEF Chunk
<1> QED
  BY <1>1, <1>2, <1>3, <1>4, <1>5 DEF PackInv, LosslessIfRoom

\* When all is packed there is one size for every packet.
LEMMA AllPacked ==
    ASSUME input \in Inputs, NEW n \in Nat, n * PCKTSIZE <= buf_length,
           buf_length < (n + 1) * PCKTSIZE
    PROVE  n = buf_length \div PCKTSIZE
<1>1. PCKTSIZE \in Nat \ {0} /\ buf_length \in Nat
  BY Sizes, WholePackets
<1>2. ASSUME NEW c \in Int, NEW m \in Nat \ {0}
      PROVE  c * m \in Int /\ (c + 1) * m = c * m + m
  OBVIOUS
<1> DEFINE S == n * PCKTSIZE
           T == (n + 1) * PCKTSIZE
           y == buf_length - S
<1>3. S \in Int /\ T = S + PCKTSIZE /\ S <= buf_length /\ buf_length < T
  BY <1>1, <1>2
<1> HIDE DEF S, T
<1>4. y \in 0 .. PCKTSIZE - 1 /\ buf_length = S + y
  BY <1>1, <1>3
<1> HIDE DEF y
<1>5. (n * PCKTSIZE + y) \div PCKTSIZE = n
  BY <1>1, <1>4, DivUnique
<1> QED
  BY <1>4, <1>5 DEF S

LEMMA AddTrailerKeepsPackInv ==
    ASSUME PackInv, AddTrailer
    PROVE  PackInv'
<1>1. /\ stage = "pack" /\ stage' = "chunk" /\ input' = input /\ job.i >= buf_length
      /\ buffer' = (buffer \o job.header) \o <<buf_length, 0>>
      /\ bufferout' = bufferout /\ phase' = phase /\ decoded' = decoded /\ job' = job
  BY DEF AddTrailer, kernel
<1>2. IInv' /\ TokensFound'
  BY <1>1, AfterKernelKeeps, TokensFoundStays DEF PackInv
<1>3. Packets' = Packets /\ buf_length' = buf_length /\ \A b : PacketOf(b)' = PacketOf(b)
  BY <1>1, SameInput
<1>4. Unpacks'
  BY <1>1, <1>3 DEF PackInv, Unpacks, NothingYet
<1>5. input \in Inputs /\ Packed(job, buffer)
  BY <1>1 DEF PackInv, IInv
<1>6. /\ buffer \in Seq(Bytes) /\ job.header \in Seq(Nat) /\ job.tempj \in Nat
      /\ job.tempj <= Len(buffer) /\ job.i \in Nat /\ job.i <= buf_length
      /\ Len(job.header) * PCKTSIZE <= job.i /\ job.i < (Len(job.header) + 1) * PCKTSIZE
      /\ \E cut : Cuts(cut, buffer, job.header, job.tempj)
  BY <1>5 DEF Packed, JobType
<1>7. job.i = buf_length
  <2>1. buf_length \in Nat
    BY <1>5, WholePackets
  <2> QED
    BY <1>1, <1>6, <2>1
<1>8. Len(job.header) = buf_length \div PCKTSIZE
  BY <1>5, <1>6, <1>7, AllPacked
<1>9. PICK cut : Cuts(cut, buffer, job.header, job.tempj)
  BY <1>6
<1>10. PICK f : f = buffer
  OBVIOUS
<1>11. PICK e : e = job.tempj
  OBVIOUS
<1>12. Cuts(cut, f, job.header, e)' <=> Cuts(cut, f, job.header, e)
  BY <1>1, <1>3 DEF Cuts
<1>13. Cuts(cut, f, job.header, e)'
  BY <1>9, <1>10, <1>11, <1>12
<1>14. Chunk'
  <2>1. f \in Seq(Bytes) /\ e \in Nat /\ e <= Len(f)
    BY <1>6, <1>10, <1>11
  <2>2. /\ job'.i = buf_length' /\ job'.header \in Seq(Nat)
        /\ Len(job'.header) = buf_length' \div PCKTSIZE
        /\ buffer' = (f \o job'.header) \o <<buf_length', 0>>
    BY <1>1, <1>3, <1>6, <1>7, <1>8, <1>10
  <2> QED
    BY <1>13, <2>1, <2>2 DEF Chunk
<1> QED
  BY <1>1, <1>2, <1>3, <1>4, <1>14 DEF PackInv, LosslessIfRoom

LEMMA TakenForRawKeepsPackInv ==
    ASSUME PackInv, TakenForRaw
    PROVE  PackInv'
<1>1. /\ stage = "chunk" /\ Len(buffer) = buf_length /\ stage' = "end" /\ input' = input
      /\ buffer' = buffer /\ bufferout' = bufferout /\ phase' = phase /\ decoded' = decoded
      /\ job' = job
  BY DEF TakenForRaw, kernel
<1>2. IInv' /\ TokensFound'
  BY <1>1, AfterKernelKeeps, TokensFoundStays DEF PackInv
<1>3. Packets' = Packets /\ buf_length' = buf_length /\ \A b : PacketOf(b)' = PacketOf(b)
  BY <1>1, SameInput
<1>4. Unpacks'
  BY <1>1, <1>3 DEF PackInv, Unpacks, NothingYet
<1>5. NothingYet
  <2>1. Len(buffer) >= buf_length
    <3>1. buf_length \in Nat
      BY WholePackets DEF PackInv, IInv
    <3> QED
      BY <1>1, <3>1
  <2> QED
    BY <1>1, <2>1 DEF PackInv, Unpacks
<1>6. buffer = input \/ job.i = buf_length
  BY <1>1 DEF PackInv, Chunk
<1>7. LosslessIfRoom'
  BY <1>1, <1>3, <1>5, <1>6 DEF LosslessIfRoom, NothingYet
<1> QED
  BY <1>1, <1>2, <1>3, <1>4, <1>7 DEF PackInv

LEMMA OverrunKeepsPackInv ==
    ASSUME PackInv, Overrun
    PROVE  PackInv'
<1>1. /\ stage = "chunk" /\ stage' = "lost" /\ input' = input
      /\ buffer' = buffer /\ bufferout' = bufferout /\ phase' = phase /\ decoded' = decoded
      /\ job' = job
  BY DEF Overrun, kernel
<1>2. IInv' /\ TokensFound'
  BY <1>1, AfterKernelKeeps, TokensFoundStays DEF PackInv
<1>3. Packets' = Packets /\ buf_length' = buf_length /\ \A b : PacketOf(b)' = PacketOf(b)
  BY <1>1, SameInput
<1>4. Unpacks'
  BY <1>1, <1>3 DEF PackInv, Unpacks, NothingYet
<1> QED
  BY <1>1, <1>2, <1>3, <1>4 DEF PackInv, LosslessIfRoom

-----------------------------------------------------------------------------
(* The trailer is read, and the packets are put together.                  *)

\* The chunk f with the sizes h and the trailer behind it.
Trailed(f, h, l, g) ==
    /\ g \in Seq(Bytes) /\ Len(g) = Len(f) + Len(h) + 2
    /\ g[Len(g) - 1] = l
    /\ \A x \in 1 .. Len(h) : g[Len(f) + x] = h[x]
    /\ \A a \in Nat, c \in Nat : a <= c /\ c <= Len(f) =>
           SubSeq(g, a + 1, c) = SubSeq(f, a + 1, c)

LEMMA TrailerIs ==
    ASSUME NEW f \in Seq(Bytes), NEW h \in Seq(Nat), NEW l \in Nat, NEW g,
           g = (f \o h) \o <<l, 0>>
    PROVE  Trailed(f, h, l, g)
<1> DEFINE t == <<l, 0>>
           m == Len(f)
           n == Len(h)
           fh == f \o h
<1>1. h \in Seq(Bytes) /\ t \in Seq(Bytes) /\ Len(t) = 2 /\ t[1] = l
  <2>1. l \in Bytes /\ 0 \in Bytes
    BY DEF Bytes
  <2>2. h \in Seq(Bytes)
    <3>1. Nat \subseteq Bytes
      BY DEF Bytes
    <3> QED
      BY <3>1, SeqMonotonic
  <2> QED
    BY <2>1, <2>2
<1>2. m \in Nat /\ n \in Nat
  OBVIOUS
<1>3. /\ fh \in Seq(Bytes) /\ Len(fh) = m + n
      /\ \A k \in 1 .. m + n : fh[k] = IF k <= m THEN f[k] ELSE h[k - m]
  BY <1>1, ConcatProperties
<1> HIDE DEF fh, t
<1>4. /\ g \in Seq(Bytes) /\ Len(g) = Len(fh) + 2
      /\ \A k \in 1 .. Len(fh) + 2 : g[k] = IF k <= Len(fh) THEN fh[k] ELSE t[k - Len(fh)]
  <2>1. g = fh \o t
    BY DEF fh, t
  <2>2. /\ fh \o t \in Seq(Bytes) /\ Len(fh \o t) = Len(fh) + Len(t)
        /\ \A k \in 1 .. Len(fh) + Len(t) :
              (fh \o t)[k] = IF k <= Len(fh) THEN fh[k] ELSE t[k - Len(fh)]
    <3>1. fh \in Seq(Bytes) /\ t \in Seq(Bytes)
      BY <1>1, <1>3
    <3> QED
      BY <3>1, ConcatProperties
  <2> QED
    BY <1>1, <2>1, <2>2, Zenon
<1>5. /\ Len(g) = (m + n) + 2
      /\ \A k \in 1 .. (m + n) + 2 : g[k] = IF k <= m + n THEN fh[k] ELSE t[k - (m + n)]
  BY <1>3, <1>4
<1> HIDE DEF m, n
<1>6. Len(g) = m + n + 2 /\ g[Len(g) - 1] = l
  <2>1. /\ Len(g) - 1 \in 1 .. (m + n) + 2 /\ ~ (Len(g) - 1 <= m + n)
        /\ (Len(g) - 1) - (m + n) = 1
    BY <1>2, <1>5
  <2>2. g[Len(g) - 1] = t[1]
    BY <1>5, <2>1
  <2> QED
    BY <1>1, <1>2, <1>5, <2>2
<1>7. ASSUME NEW x \in 1 .. n PROVE g[m + x] = h[x]
  <2>1. /\ m + x \in 1 .. (m + n) + 2 /\ m + x \in 1 .. m + n /\ m + x <= m + n
        /\ ~ (m + x <= m) /\ (m + x) - m = x
    BY <1>2
  <2>2. g[m + x] = fh[m + x]
    BY <1>5, <2>1
  <2>3. fh[m + x] = h[x]
    BY <1>3, <2>1
  <2> QED
    BY <2>2, <2>3
<1>8. ASSUME NEW a \in Nat, NEW c \in Nat, a <= c, c <= Len(f)
      PROVE  SubSeq(g, a + 1, c) = SubSeq(f, a + 1, c)
  <2>1. h \o t \in Seq(Bytes) /\ g = f \o (h \o t)
    <3>1. h \o t \in Seq(Bytes)
      BY <1>1, ConcatProperties
    <3>2. (f \o h) \o t = f \o (h \o t)
      BY <1>1, BytesConcat
    <3> QED
      BY <3>1, <3>2 DEF t
  <2> QED
    BY <1>8, <2>1, SubSeqAhead
<1> QED
  BY <1>4, <1>6, <1>7, <1>8 DEF m, n, Trailed

\* The host reads where each packet begins and ends from the trailer.
LEMMA SizesRead ==
    ASSUME input \in Inputs, NEW f \in Seq(Bytes), NEW e \in Nat, NEW cut,
           NEW h \in Seq(Nat), Len(h) = buf_length \div PCKTSIZE, Cuts(cut, f, h, e),
           buffer = (f \o h) \o <<buf_length, 0>>
    PROVE  /\ origsize = buf_length /\ numblocks = Len(h)
           /\ \A x \in 0 .. Len(h) : sizearr[x] = cut[x]
<1> DEFINE N == Len(h)
           Def(z) == z = [b \in 0 .. numblocks |->
                            IF b = 0 THEN 0 ELSE z[b - 1] + SizeOf(b - 1)]
<1>1. buf_length \in Nat /\ N \in Nat
  BY WholePackets
<1>2. /\ Len(buffer) = Len(f) + N + 2 /\ buffer[Len(buffer) - 1] = buf_length
      /\ \A x \in 1 .. N : buffer[Len(f) + x] = h[x]
  <2>1. PICK l \in Nat : l = buf_length
    BY <1>1
  <2>2. PICK g : g = buffer
    OBVIOUS
  <2>3. g = (f \o h) \o <<l, 0>>
    BY <2>1, <2>2
  <2>4. Trailed(f, h, l, g)
    BY <2>3, TrailerIs, Zenon
  <2> QED
    BY <2>1, <2>2, <2>4, Zenon DEF Trailed
<1>3. origsize = buf_length /\ numblocks = N
  BY <1>2 DEF origsize, numblocks
<1>4. /\ cut \in [0 .. N -> Nat] /\ cut[0] = 0
      /\ \A j \in 1 .. N : h[j] = cut[j] - cut[j - 1]
  BY DEF Cuts
<1>5. sizearr = CHOOSE z : Def(z)
  BY Zenon DEF sizearr
<1>6. ASSUME NEW x \in 1 .. N PROVE SizeOf(x - 1) = cut[x] - cut[x - 1]
  <2>1. (Len(buffer) - 2 - N) + (x - 1) + 1 = Len(f) + x
    <3>1. Len(f) \in Nat
      OBVIOUS
    <3>2. ASSUME NEW y \in Nat, NEW z \in Nat
          PROVE  ((y + z + 2) - 2 - z) + (x - 1) + 1 = y + x
      OBVIOUS
    <3> QED
      BY <1>1, <1>2, <3>1, <3>2, Zenon
  <2>2. SizeOf(x - 1) = buffer[(Len(buffer) - 2 - N) + (x - 1) + 1]
    BY <1>3 DEF SizeOf
  <2> QED
    BY <1>2, <1>4, <2>1, <2>2
<1> HIDE DEF N
<1>7. ASSUME NEW x \in 1 .. N
      PROVE  x - 1 \in 0 .. N /\ x \in 0 .. N /\ cut[x] = cut[x - 1] + SizeOf(x - 1)
  <2>1. x - 1 \in 0 .. N /\ x \in 0 .. N
    BY <1>1
  <2>2. cut[x] \in Nat /\ cut[x - 1] \in Nat
    BY <1>4, <2>1
  <2> QED
    BY <1>6, <2>1, <2>2
<1>8. Def(cut)
  <2>1. ASSUME NEW b \in 0 .. N
        PROVE  cut[b] = IF b = 0 THEN 0 ELSE cut[b - 1] + SizeOf(b - 1)
    <3>1. b = 0 \/ b \in 1 .. N
      BY <1>1
    <3>2. b \in 1 .. N => b # 0
      OBVIOUS
    <3> QED
      BY <1>4, <1>7, <3>1, <3>2
  <2>2. cut = [b \in 0 .. N |-> IF b = 0 THEN 0 ELSE cut[b - 1] + SizeOf(b - 1)]
    BY <1>4, <2>1
  <2> QED
    BY <1>3, <2>2
<1>9. Def(sizearr)
  <2> HIDE DEF Def
  <2> QED
    BY <1>5, <1>8
<1>10. \A b \in 0 .. N : sizearr[b] = IF b = 0 THEN 0 ELSE sizearr[b - 1] + SizeOf(b - 1)
  <2> DEFINE F(z, b) == IF b = 0 THEN 0 ELSE z[b - 1] + SizeOf(b - 1)
  <2>1. sizearr = [b \in 0 .. N |-> F(sizearr, b)]
    BY <1>3, <1>9
  <2>2. PICK s : s = sizearr
    OBVIOUS
  <2>3. s = [b \in 0 .. N |-> F(s, b)]
    BY <2>1, <2>2
  <2>4. \A b \in 0 .. N : s[b] = F(s, b)
    <3> HIDE DEF F
    <3> QED
      BY <2>3
  <2> QED
    BY <2>2, <2>4
<1> HIDE DEF Def
<1> DEFINE Bad == {x \in 0 .. N : sizearr[x] # cut[x]}
<1>11. Bad = {}
  <2> SUFFICES ASSUME Bad # {} PROVE FALSE
    OBVIOUS
  <2>1. PICK x \in Bad : \A y \in Bad : x <= y
    <3>1. Bad \in SUBSET Nat
      OBVIOUS
    <3> QED
      BY <3>1, LeastExists
  <2>2. x \in 0 .. N /\ sizearr[x] # cut[x]
    OBVIOUS
  <2>3. x # 0
    BY <1>1, <1>4, <1>10, <2>2
  <2>4. x \in 1 .. N /\ x - 1 \in 0 .. N /\ ~ (x <= x - 1)
    BY <1>1, <2>2, <2>3
  <2>5. x - 1 \notin Bad
    <3> HIDE DEF Bad
    <3> QED
      BY <2>1, <2>4
  <2>6. sizearr[x - 1] = cut[x - 1]
    BY <2>4, <2>5
  <2>7. sizearr[x] = sizearr[x - 1] + SizeOf(x - 1)
    BY <1>10, <2>2, <2>3
  <2> QED
    BY <1>7, <2>2, <2>4, <2>6, <2>7
<1> QED
  BY <1>3, <1>11 DEF N

\* A chunk shorter than the buffer is the packed packets and the trailer.
LEMMA ShortChunk ==
    ASSUME input \in Inputs, Chunk, Len(buffer) < buf_length
    PROVE  /\ numblocks = buf_length \div PCKTSIZE
           /\ \A b \in Packets :
                 DecodePacket(SubSeq(buffer, sizearr[b] + 1, sizearr[b + 1])) = PacketOf(b)
<1>1. buffer # input
  <2>1. buf_length \in Nat /\ buf_length = Len(input)
    BY WholePackets DEF buf_length
  <2> QED
    BY <2>1
<1>2. PICK f \in Seq(Bytes), e \in Nat : \E cut :
         /\ e <= Len(f) /\ Cuts(cut, f, job.header, e)
         /\ buffer = (f \o job.header) \o <<buf_length, 0>>
  BY <1>1 DEF Chunk
<1>3. PICK cut :
         /\ e <= Len(f) /\ Cuts(cut, f, job.header, e)
         /\ buffer = (f \o job.header) \o <<buf_length, 0>>
  BY <1>2
<1>4. PICK h \in Seq(Nat) : h = job.header /\ Len(h) = buf_length \div PCKTSIZE
  BY <1>1 DEF Chunk
<1>5. Cuts(cut, f, h, e) /\ buffer = (f \o h) \o <<buf_length, 0>>
  BY <1>3, <1>4
<1>6. origsize = buf_length /\ numblocks = Len(h) /\ \A x \in 0 .. Len(h) : sizearr[x] = cut[x]
  BY <1>4, <1>5, SizesRead
<1>7. \A a \in Nat, c \in Nat : a <= c /\ c <= Len(f) =>
          SubSeq(buffer, a + 1, c) = SubSeq(f, a + 1, c)
  <2>1. PICK l \in Nat : l = buf_length
    BY WholePackets
  <2>2. PICK g : g = buffer
    OBVIOUS
  <2>3. g = (f \o h) \o <<l, 0>>
    BY <1>5, <2>1, <2>2
  <2>4. Trailed(f, h, l, g)
    BY <2>3, TrailerIs, Zenon
  <2> QED
    BY <2>2, <2>4, Zenon DEF Trailed
<1>8. ASSUME NEW b \in Packets
      PROVE  DecodePacket(SubSeq(buffer, sizearr[b] + 1, sizearr[b + 1])) = PacketOf(b)
  <2> DEFINE N == buf_length \div PCKTSIZE
  <2>1. b \in 0 .. N - 1 /\ N \in Nat /\ Len(h) = N
    BY <1>4, WholePackets DEF Packets
  <2> HIDE DEF N
  <2>2. b \in 0 .. Len(h) /\ b + 1 \in 0 .. Len(h) /\ b + 1 \in 1 .. Len(h) /\ (b + 1) - 1 = b
    BY <2>1
  <2>3. sizearr[b] = cut[b] /\ sizearr[b + 1] = cut[b + 1]
    BY <1>6, <2>2
  <2>4. /\ cut[b] \in Nat /\ cut[b + 1] \in Nat /\ cut[b] <= cut[b + 1] /\ cut[b + 1] <= e
        /\ DecodePacket(SubSeq(f, cut[b] + 1, cut[b + 1])) = PacketOf(b)
    <3>1. /\ cut[(b + 1) - 1] <= cut[b + 1] /\ cut[b + 1] <= e
          /\ DecodePacket(SubSeq(f, cut[(b + 1) - 1] + 1, cut[b + 1])) = PacketOf((b + 1) - 1)
      BY <1>5, <2>2, Zenon DEF Cuts
    <3>2. cut[b] \in Nat /\ cut[b + 1] \in Nat
      BY <1>5, <2>2 DEF Cuts
    <3> QED
      BY <2>2, <3>1, <3>2
  <2>5. cut[b + 1] <= Len(f)
    <3>1. Len(f) \in Nat
      OBVIOUS
    <3> QED
      BY <1>3, <2>4, <3>1
  <2>6. SubSeq(buffer, cut[b] + 1, cut[b + 1]) = SubSeq(f, cut[b] + 1, cut[b + 1])
    BY <1>7, <2>4, <2>5
  <2> QED
    BY <2>3, <2>4, <2>6
<1>9. numblocks = buf_length \div PCKTSIZE
  BY <1>4, <1>6
<1> QED
  BY <1>8, <1>9

LEMMA PacketTyped ==
    ASSUME input \in Inputs, NEW b \in Packets
    PROVE  PacketOf(b) \in Seq(Symbol) /\ Len(PacketOf(b)) = PCKTSIZE
<1> DEFINE S == b * PCKTSIZE
           T == (b + 1) * PCKTSIZE
<1>1. S \in Nat /\ T = S + PCKTSIZE /\ T <= Len(input) /\ input \in Seq(Symbol)
  BY PacketBounds, WholePackets DEF buf_length
<1>2. PCKTSIZE \in Nat \ {0}
  BY Sizes
<1> HIDE DEF S, T
<1>3. S <= T /\ T \in Nat /\ T - S = PCKTSIZE
  BY <1>1, <1>2
<1>4. Part(S, T) \in Seq(Symbol) /\ Len(Part(S, T)) = T - S
  BY <1>1, <1>3, PartIs
<1> QED
  BY <1>3, <1>4 DEF PacketOf, S, T

LEMMA ChunkTyped ==
    ASSUME input \in Inputs, Chunk
    PROVE  buffer \in Seq(Bytes)
<1>1. CASE buffer = input
  <2>1. Symbol \subseteq Bytes
    BY DEF Bytes
  <2> QED
    BY <1>1, <2>1, WholePackets, SeqMonotonic
<1>2. CASE buffer # input
  <2>1. PICK f \in Seq(Bytes) : buffer = (f \o job.header) \o <<buf_length, 0>>
    BY <1>2, Zenon DEF Chunk
  <2>2. PICK h \in Seq(Nat) : h = job.header
    BY <1>2 DEF Chunk
  <2>3. PICK l \in Nat : l = buf_length
    BY WholePackets
  <2>4. PICK g : g = buffer
    OBVIOUS
  <2>5. g = (f \o h) \o <<l, 0>>
    BY <2>1, <2>2, <2>3, <2>4
  <2>6. Trailed(f, h, l, g)
    BY <2>5, TrailerIs, Zenon
  <2> QED
    BY <2>4, <2>6 DEF Trailed
<1> QED
  BY <1>1, <1>2

LEMMA ChunkStays ==
    ASSUME Chunk, input' = input, job' = job, buffer' = buffer
    PROVE  Chunk'
BY ZenonT(30) DEF Chunk, Cuts, PacketOf, Part, buf_length

LEMMA DecodeKernelKeepsPackInv ==
    ASSUME PackInv, NEW b \in Packets, DecodeKernel(b)
    PROVE  PackInv'
<1>1. /\ stage = "chunk" /\ Len(buffer) < buf_length /\ stage' = stage /\ input' = input
      /\ decoded' = [decoded EXCEPT ![b] =
                        DecodePacket(SubSeq(buffer, sizearr[b] + 1, sizearr[b + 1]))]
      /\ buffer' = buffer /\ bufferout' = bufferout /\ phase' = phase /\ job' = job
  BY DEF DecodeKernel, kernel
<1>2. IInv' /\ TokensFound'
  BY <1>1, AfterKernelKeeps, TokensFoundStays DEF PackInv
<1>3. Packets' = Packets /\ buf_length' = buf_length /\ \A c : PacketOf(c)' = PacketOf(c)
  BY <1>1, SameInput
<1>4. input \in Inputs /\ Chunk /\ Unpacks
  BY <1>1 DEF PackInv, IInv
<1>5. decoded' = [decoded EXCEPT ![b] = PacketOf(b)]
  BY <1>1, <1>4, ShortChunk
<1>6. PacketOf(b) \in Seq(Symbol)
  BY <1>4, PacketTyped
<1>7. ~ (Len(buffer) >= buf_length)
  <2>1. Len(buffer) \in Int /\ buf_length \in Nat
    BY <1>4, ChunkTyped, WholePackets
  <2> QED
    BY <1>1, <2>1
<1>8. Unpacks'
  BY <1>1, <1>3, <1>4, <1>5, <1>6, <1>7 DEF Unpacks
<1>9. Chunk'
  BY <1>1, <1>4, ChunkStays
<1> QED
  BY <1>1, <1>2, <1>3, <1>8, <1>9 DEF PackInv, LosslessIfRoom

LEMMA FunctionLength ==
    ASSUME NEW X, NEW n \in Nat, NEW s \in [1 .. n -> X]
    PROVE  Len(s) = n
<1>1. s = [i \in 1 .. n |-> s[i]]
  OBVIOUS
<1>2. PICK z : z = s
  OBVIOUS
<1>3. z = [i \in 1 .. n |-> s[i]]
  BY <1>1, <1>2
<1>4. Len(z) = n
  BY <1>3
<1> QED
  BY <1>2, <1>4

\* The packets are the buffer.
LEMMA PacketsJoin ==
    ASSUME input \in Inputs, NEW seqs,
           seqs = [b \in 1 .. buf_length \div PCKTSIZE |-> PacketOf(b - 1)]
    PROVE  FlattenSeq(seqs) = input
<1> DEFINE N == buf_length \div PCKTSIZE
           Def(z) == z = [i \in 1 .. N |-> IF i = 1 THEN seqs[i] ELSE z[i - 1] \o seqs[i]]
           f == [i \in 1 .. N |-> Part(0, i * PCKTSIZE)]
           s == CHOOSE x : Def(x)
<1>1. /\ N \in Nat \ {0} /\ input \in Seq(Symbol) /\ Len(input) = N * PCKTSIZE
      /\ Packets = 0 .. N - 1
  BY WholePackets DEF buf_length, Packets
<1> HIDE DEF N
<1>2. ASSUME NEW i \in 1 .. N
      PROVE  /\ i - 1 \in Packets /\ seqs[i] = PacketOf(i - 1)
             /\ seqs[i] \in Seq(Symbol)
  <2>1. i - 1 \in Packets
    BY <1>1
  <2>2. seqs[i] = PacketOf(i - 1)
    BY DEF N
  <2> QED
    BY <2>1, <2>2, PacketTyped
<1>3. Len(seqs) = N
  <2>1. seqs = [b \in 1 .. N |-> PacketOf(b - 1)]
    BY DEF N
  <2>2. seqs \in [1 .. N -> Seq(Symbol)]
    <3>1. \A b \in 1 .. N : PacketOf(b - 1) \in Seq(Symbol)
      BY <1>2
    <3> QED
      BY <2>1, <3>1
  <2> QED
    BY <1>1, <2>2, FunctionLength
<1>4. f[1] = seqs[1]
  <2>1. 1 \in 1 .. N /\ 1 - 1 = 0 /\ 0 * PCKTSIZE = 0 /\ 0 + 1 = 1
    BY <1>1, Sizes
  <2>2. f[1] = Part(0, 1 * PCKTSIZE)
    BY <2>1
  <2>3. seqs[1] = Part(0 * PCKTSIZE, (0 + 1) * PCKTSIZE)
    BY <1>2, <2>1 DEF PacketOf
  <2> QED
    BY <2>1, <2>2, <2>3
<1>5. ASSUME NEW i \in 2 .. N PROVE f[i] = f[i - 1] \o seqs[i]
  <2>1. i \in 1 .. N /\ i - 1 \in 1 .. N /\ (i - 1) + 1 = i
    BY <1>1
  <2> DEFINE S == (i - 1) * PCKTSIZE
             T == i * PCKTSIZE
             w == Part(S, T)
  <2>2. seqs[i] = w
    BY <1>2, <2>1 DEF PacketOf
  <2>3. f[i] = Part(0, T) /\ f[i - 1] = Part(0, S)
    BY <2>1
  <2>4. S \in Nat /\ T = S + PCKTSIZE /\ T <= Len(input) /\ PCKTSIZE \in Nat
    <3>1. i - 1 \in Packets
      BY <1>2, <2>1
    <3>2. (i - 1) * PCKTSIZE \in Nat /\ ((i - 1) + 1) * PCKTSIZE = (i - 1) * PCKTSIZE + PCKTSIZE
          /\ ((i - 1) + 1) * PCKTSIZE <= buf_length
      BY <3>1, PacketBounds
    <3> QED
      BY <2>1, <3>2, Sizes DEF buf_length
  <2> HIDE DEF S, T, f
  <2>5. S <= T /\ T \in Nat /\ T - S = PCKTSIZE /\ S + PCKTSIZE = T
    BY <2>4
  <2>6. w \in Seq(Symbol) /\ Len(w) = PCKTSIZE /\ \A k \in 1 .. PCKTSIZE : w[k] = input[S + k]
    BY <1>1, <2>4, <2>5, PartIs
  <2> HIDE DEF w
  <2>7. Part(0, S) \o w = Part(0, S + Len(w))
    <3>1. /\ 0 \in Nat /\ 0 <= S /\ S + Len(w) <= Len(input)
          /\ \A k \in 1 .. Len(w) : w[k] = input[S + k]
      BY <2>4, <2>5, <2>6
    <3>2. w \in Seq(Symbol) /\ input \in Seq(Symbol) /\ S \in Nat
      BY <1>1, <2>4, <2>6
    <3> QED
      BY <3>1, <3>2, PartExtended, Zenon
  <2> QED
    BY <2>2, <2>3, <2>5, <2>6, <2>7
<1>6. Def(f)
  <2>1. ASSUME NEW i \in 1 .. N PROVE f[i] = IF i = 1 THEN seqs[i] ELSE f[i - 1] \o seqs[i]
    <3>1. i # 1 => i \in 2 .. N
      BY <1>1
    <3> HIDE DEF f
    <3> QED
      BY <1>4, <1>5, <3>1
  <2>2. f = [i \in 1 .. N |-> f[i]]
    OBVIOUS
  <2> HIDE DEF f
  <2> QED
    BY <2>1, <2>2
<1>7. f[N] = input
  <2>1. N \in 1 .. N
    BY <1>1
  <2>2. f[N] = Part(0, Len(input))
    BY <1>1, <2>1
  <2>3. SubSeq(input, 1, Len(input)) = input
    BY <1>1
  <2>4. Part(0, Len(input)) = SubSeq(input, 1, Len(input))
    BY DEF Part
  <2> QED
    BY <2>2, <2>3, <2>4
<1> HIDE DEF f
<1>8. Def(s)
  <2> HIDE DEF Def
  <2> QED
    BY <1>6
<1>9. FlattenSeq(seqs) = s[N]
  <2>1. ~ (Len(seqs) = 0)
    BY <1>1, <1>3
  <2> QED
    BY <1>3, <2>1, Zenon DEF FlattenSeq
<1> HIDE DEF s
<1>10. \A i \in 1 .. N : s[i] = IF i = 1 THEN seqs[i] ELSE s[i - 1] \o seqs[i]
  BY <1>8, Zenon
<1> HIDE DEF Def
<1> DEFINE Bad == {i \in 1 .. N : s[i] # f[i]}
<1>11. Bad = {}
  <2> SUFFICES ASSUME Bad # {} PROVE FALSE
    OBVIOUS
  <2>1. PICK i \in Bad : \A j \in Bad : i <= j
    <3>1. Bad \in SUBSET Nat
      BY <1>1
    <3> QED
      BY <3>1, LeastExists
  <2>2. i \in 1 .. N /\ s[i] # f[i]
    OBVIOUS
  <2>3. i # 1
    BY <1>4, <1>10, <2>2
  <2>4. i \in 2 .. N /\ i - 1 \in 1 .. N /\ ~ (i <= i - 1)
    BY <1>1, <2>2, <2>3
  <2>5. i - 1 \notin Bad
    <3> HIDE DEF Bad
    <3> QED
      BY <2>1, <2>4
  <2>6. s[i - 1] = f[i - 1]
    BY <2>4, <2>5
  <2>7. s[i] = s[i - 1] \o seqs[i]
    BY <1>10, <2>2, <2>3
  <2> QED
    BY <1>5, <2>2, <2>4, <2>6, <2>7
<1>12. s[N] = f[N]
  <2>1. N \in 1 .. N
    BY <1>1
  <2> QED
    BY <1>11, <2>1
<1> QED
  BY <1>7, <1>9, <1>12

LEMMA CopyBackKeepsPackInv ==
    ASSUME PackInv, CopyBack
    PROVE  PackInv'
<1>1. /\ stage = "chunk" /\ Len(buffer) < buf_length /\ stage' = "end" /\ input' = input
      /\ \A b \in 0 .. numblocks - 1 : decoded[b] # <<>>
      /\ buffer' = FlattenSeq([b \in 1 .. numblocks |-> decoded[b - 1]])
      /\ decoded' = decoded /\ bufferout' = bufferout /\ phase' = phase /\ job' = job
  BY DEF CopyBack, kernel
<1>2. IInv' /\ TokensFound'
  BY <1>1, AfterKernelKeeps, TokensFoundStays DEF PackInv
<1>3. Packets' = Packets /\ buf_length' = buf_length /\ \A c : PacketOf(c)' = PacketOf(c)
  BY <1>1, SameInput
<1>4. input \in Inputs /\ Chunk /\ Unpacks
  BY <1>1 DEF PackInv, IInv
<1>5. Unpacks'
  BY <1>1, <1>3, <1>4 DEF Unpacks
<1> DEFINE N == buf_length \div PCKTSIZE
<1>6. numblocks = N /\ N \in Nat /\ Packets = 0 .. N - 1
  BY <1>1, <1>4, ShortChunk, WholePackets DEF Packets
<1>7. ASSUME NEW b \in 1 .. N PROVE decoded[b - 1] = PacketOf(b - 1)
  <2> HIDE DEF N
  <2>1. b - 1 \in Packets /\ b - 1 \in 0 .. numblocks - 1
    BY <1>6
  <2>2. decoded[b - 1] \in {<<>>, PacketOf(b - 1)}
    BY <1>4, <2>1 DEF Unpacks
  <2> QED
    BY <1>1, <2>1, <2>2
<1>8. [b \in 1 .. numblocks |-> decoded[b - 1]] = [b \in 1 .. N |-> PacketOf(b - 1)]
  <2> HIDE DEF N
  <2> QED
    BY <1>6, <1>7
<1>9. FlattenSeq([b \in 1 .. N |-> PacketOf(b - 1)]) = input
  <2>1. PICK q : q = [b \in 1 .. N |-> PacketOf(b - 1)]
    OBVIOUS
  <2>2. FlattenSeq(q) = input
    BY <1>4, <2>1, PacketsJoin
  <2> QED
    BY <2>1, <2>2
<1>10. buffer' = input'
  BY <1>1, <1>8, <1>9, Zenon
<1>11. LosslessIfRoom'
  BY <1>10 DEF LosslessIfRoom
<1> QED
  BY <1>1, <1>2, <1>3, <1>5, <1>11 DEF PackInv

-----------------------------------------------------------------------------
(* The invariant is inductive, and the theorems.                           *)

LEMMA PackInvInit == Init => PackInv
<1> SUFFICES ASSUME Init PROVE PackInv
  OBVIOUS
<1>1. /\ input \in Inputs /\ stage = "kernel" /\ block = 0 /\ phase = [t \in Threads |-> 0]
      /\ bufferout = [p \in 1 .. buf_length |-> <<>>]
      /\ job = NewJob /\ buffer = <<>> /\ decoded = [b \in Packets |-> <<>>]
  BY DEF Init
<1>2. IInv
  BY InitHolds
<1>3. /\ buf_length \in Nat /\ PCKTSIZE \in Nat \ {0} /\ AfterLast \in Nat
  BY <1>1, WholePackets, Sizes, PhaseFacts
<1>4. 0 \in Packets
  <2> DEFINE N == buf_length \div PCKTSIZE
  <2>1. N \in Nat \ {0} /\ Packets = 0 .. N - 1
    BY <1>1, WholePackets DEF Packets
  <2> HIDE DEF N
  <2> QED
    BY <2>1
<1>5. TokensFound
  <2>1. 0 * PCKTSIZE = 0 /\ 1 .. 0 = {}
    BY <1>3
  <2>2. ASSUME NEW t \in Threads, NEW r \in 0 .. Rounds - 1 PROVE ~ (phase[t] > EmitPhase(r))
    <3>1. phase[t] = 0 /\ EmitPhase(r) = 3 + 2 * r /\ r \in Nat
      BY <1>1, PhaseFacts, Sizes
    <3> QED
      BY <3>1
  <2> QED
    BY <1>1, <1>4, <2>1, <2>2 DEF TokensFound
<1>6. phase \in [Threads -> 0 .. AfterLast]
  <2>1. 0 \in 0 .. AfterLast
    BY <1>3
  <2> QED
    BY <1>1, <2>1
<1>7. job.i \in 0 .. buf_length /\ job.flagPos \in 1 .. Top
  <2>1. Packed(job, buffer)
    BY <1>1, PackingBegins
  <2> QED
    BY <1>1, <2>1, PackedTyped
<1>8. Unpacks
  <2>1. <<>> \in Seq(Symbol)
    OBVIOUS
  <2> QED
    BY <1>1, <2>1 DEF Unpacks, NothingYet
<1> QED
  BY <1>1, <1>2, <1>5, <1>6, <1>7, <1>8 DEF PackInv, LosslessIfRoom

LEMMA PackInvStutter ==
    ASSUME PackInv, UNCHANGED vars
    PROVE  PackInv'
<1>1. /\ input' = input /\ stage' = stage /\ block' = block /\ phase' = phase
      /\ bufferout' = bufferout /\ job' = job /\ buffer' = buffer /\ decoded' = decoded
  BY DEF vars
<1>2. IInv'
  BY NextKeeps DEF PackInv
<1>3. Packets' = Packets /\ buf_length' = buf_length /\ \A c : PacketOf(c)' = PacketOf(c)
  BY <1>1, SameInput
<1>4. TokensFound'
  BY <1>1, <1>3 DEF PackInv, TokensFound
<1>5. Unpacks'
  BY <1>1, <1>3 DEF PackInv, Unpacks, NothingYet
<1>6. stage = "pack" => Packed(job, buffer)'
  BY <1>1, PacksStays DEF PackInv
<1>7. stage = "chunk" => Chunk'
  BY <1>1, ChunkStays DEF PackInv
<1>8. LosslessIfRoom'
  BY <1>1, <1>3 DEF PackInv, LosslessIfRoom
<1> QED
  BY <1>1, <1>2, <1>3, <1>4, <1>5, <1>6, <1>7, <1>8 DEF PackInv

LEMMA PackInvNext ==
    ASSUME PackInv, [Next]_vars
    PROVE  PackInv'
<1>1. CASE \E t \in Threads : Fill(t) \/ LoadFirst(t) \/ LoadSecond(t) \/ Emit(t) \/ Shift(t)
  BY <1>1, ThreadKeepsPackInv
<1>2. CASE NextBlock
  BY <1>2, NextBlockKeepsPackInv
<1>3. CASE PackToken
  BY <1>3, PackTokenKeepsPackInv
<1>4. CASE TookMore
  BY <1>4, TookMoreKeepsPackInv
<1>5. CASE AddTrailer
  BY <1>5, AddTrailerKeepsPackInv
<1>6. CASE TakenForRaw
  BY <1>6, TakenForRawKeepsPackInv
<1>7. CASE Overrun
  BY <1>7, OverrunKeepsPackInv
<1>8. CASE CopyBack
  BY <1>8, CopyBackKeepsPackInv
<1>9. CASE \E b \in Packets : DecodeKernel(b)
  BY <1>9, DecodeKernelKeepsPackInv
<1>10. CASE UNCHANGED vars
  BY <1>10, PackInvStutter
<1> QED
  BY <1>1, <1>2, <1>3, <1>4, <1>5, <1>6, <1>7, <1>8, <1>9, <1>10 DEF Next

\* Every reachable state satisfies the inductive invariant: at every position
\* of the packing loop there are bytes the decoder's loop turns into what is
\* packed, and the sizes of the trailer are the places where packets end.
THEOREM PackInvariance == Spec => []PackInv
<1>1. Init => PackInv
  BY PackInvInit
<1>2. PackInv /\ [Next]_vars => PackInv'
  BY PackInvNext
<1> QED
  BY <1>1, <1>2, PTL DEF Spec

\* DecodeKernel (gpu_decompress.cu) writes exactly PCKTSIZE bytes for every
\* packet it is given, and aftercomp's position and flag stay in their bounds.
THEOREM PacketsExact == Spec => []TypeOK
<1>1. PackInv => TypeOK
  <2> SUFFICES ASSUME PackInv PROVE TypeOK
    OBVIOUS
  <2>1. ASSUME NEW b \in Packets PROVE Len(decoded[b]) \in {0, PCKTSIZE}
    <3>1. decoded[b] \in {<<>>, PacketOf(b)} /\ input \in Inputs
      BY DEF PackInv, Unpacks, IInv
    <3>2. Len(PacketOf(b)) = PCKTSIZE /\ Len(<<>>) = 0
      BY <3>1, PacketTyped
    <3> QED
      BY <3>1, <3>2
  <2> QED
    BY <2>1 DEF PackInv, TypeOK
<1> QED
  BY <1>1, PackInvariance, PTL

\* A buffer that compression_kernel_wrapper (gpu_compress.cu) packs into less
\* than its length, or gives up, comes back from decompression_kernel_wrapper
\* (gpu_decompress.cu) as it was, for every buffer, packet size, number of
\* threads and number of flags; what does not is a chunk as long as the buffer.
THEOREM BufferComesBack == Spec => []LosslessIfRoom
<1>1. PackInv => LosslessIfRoom
  BY DEF PackInv
<1> QED
  BY <1>1, PackInvariance, PTL
=============================================================================
