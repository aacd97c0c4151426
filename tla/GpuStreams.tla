----------------------------- MODULE GpuStreams -----------------------------
(***************************************************************************)
(* The device work behind gpu_consumer and cpu_consumer (gpu_compress.cu). *)
(*                                                                         *)
(* A block is cut into instreams segments, and each slot of the ring has a *)
(* CUDA stream for every segment.  compression_kernel_wrapper queues three *)
(* operations per segment: the copy of the segment to the device, the      *)
(* kernel, the copy of its tokens back.  It does so for all segments of a  *)
(* kind before the next kind, and does not wait.  The host buffers belong  *)
(* to the slot; the device buffers in_d and out_d are shared by all slots. *)
(* onestream_finish_GPU waits for the slot's last stream only.             *)
(*                                                                         *)
(* CUDA promises that the operations of one stream run in the order of     *)
(* issue, and nothing about different streams; nor does the code ask for   *)
(* more, by an event or of the device it has chosen.  So a copy may        *)
(* overtake one of another stream.  Two history variables, read by no      *)
(* action, record where that does harm.                                    *)
(***************************************************************************)
EXTENDS Integers, Sequences

CONSTANTS NumBlocks,      \* maxiterations
          NumSlots,       \* numblocks
          NumSegs         \* instreams

ASSUME StreamsAssumption ==
    NumBlocks \in Nat \ {0} /\ NumSlots \in Nat \ {0} /\ NumSegs \in Nat \ {0}

NoBlock == -1
Blocks == 0 .. NumBlocks - 1
Slots == 0 .. NumSlots - 1
Segs == 0 .. NumSegs - 1
LastSeg == NumSegs - 1
SlotOf(b) == b % NumSlots

VARIABLES
    filled,        \* blocks the producer has read
    issued,        \* blocks whose issue is complete (gpu_consumer's i)
    loop, seg,     \* the next call: which of the three loops, and its i
    taken,         \* blocks cpu_consumer has packed
    ran,           \* per block and segment: how many of its operations ran
    buf,           \* per slot and segment: the block whose bytes are there
    in_d, out_d,   \* per segment: the same for the buffers on the device
    bufout,        \* per slot and segment: the block whose tokens are there
    tokens,        \* per block: the tokens the packing found
    crossed,       \* segments of blocks over whose bytes on the device those
                   \* of another block were copied before their tokens left it
    late           \* segments not yet finished when their block's last one was

callVars == <<issued, loop, seg>>
historyVars == <<crossed, late>>
gsVars == <<filled, callVars, taken, ran, buf, in_d, out_d, bufout, tokens,
            historyVars>>

GSInit ==
    /\ filled = 0 /\ issued = 0 /\ loop = 0 /\ seg = 0 /\ taken = 0
    /\ ran = [b \in Blocks |-> [g \in Segs |-> 0]]
    /\ buf = [s \in Slots |-> [g \in Segs |-> NoBlock]]
    /\ in_d = [g \in Segs |-> NoBlock]
    /\ out_d = [g \in Segs |-> NoBlock]
    /\ bufout = [s \in Slots |-> [g \in Segs |-> NoBlock]]
    /\ tokens = <<>>
    /\ crossed = {} /\ late = {}

-----------------------------------------------------------------------------
(* The host: the stages of Culzss, their waits reduced to the counters.    *)

\* Mistake: the producer does not wait for the slot.
FillUnchecked ==
    /\ filled < NumBlocks
    /\ buf' = [buf EXCEPT ![SlotOf(filled)] = [g \in Segs |-> filled]]
    /\ filled' = filled + 1
    /\ UNCHANGED <<callVars, taken, tokens, ran, in_d, out_d, bufout, historyVars>>

\* The producer reads a block into a slot that has been packed (and sent).
FillSlot ==
    /\ filled < NumBlocks /\ filled < taken + NumSlots
    /\ buf' = [buf EXCEPT ![SlotOf(filled)] = [g \in Segs |-> filled]]
    /\ filled' = filled + 1
    /\ UNCHANGED <<callVars, taken, tokens, ran, in_d, out_d, bufout, historyVars>>

\* The next call of the three loops of compression_kernel_wrapper: what it
\* queues, behind the earlier ones of its stream, is told by the position.
IssueCall ==
    /\ issued < filled
    /\ IF seg < LastSeg
       THEN seg' = seg + 1 /\ UNCHANGED <<loop, issued>>
       ELSE /\ seg' = 0
            /\ IF loop < 2 THEN loop' = loop + 1 /\ UNCHANGED issued
                           ELSE loop' = 0 /\ issued' = issued + 1
    /\ UNCHANGED <<filled, taken, tokens, ran, buf, in_d, out_d, bufout, historyVars>>

\* The operations queued so far for segment g of block b.
Called(b, g) ==
    IF b < issued THEN 3
    ELSE IF b = issued THEN loop + (IF g < seg THEN 1 ELSE 0)
    ELSE 0

Outstanding(s, g) ==
    \E b \in Blocks : SlotOf(b) = s /\ ran[b][g] < Called(b, g)

\* Mistake: the first stream is polled instead of the last.
FinishedFirst(s) == ~ Outstanding(s, 0)

\* onestream_finish_GPU: cudaStreamQuery of the slot's last stream.
Finished(s) == ~ Outstanding(s, LastSeg)

\* cpu_consumer packs the tokens of bufout over buf.
Take ==
    /\ taken < issued
    /\ Finished(SlotOf(taken))
    /\ tokens' = Append(tokens, bufout[SlotOf(taken)])
    /\ buf' = [buf EXCEPT ![SlotOf(taken)] = [g \in Segs |-> NoBlock]]
    /\ taken' = taken + 1
    /\ UNCHANGED <<filled, callVars, ran, in_d, out_d, bufout, historyVars>>

-----------------------------------------------------------------------------
(* The device.                                                             *)

\* Mistake: the kernel of a segment is queued before the copy to the device.
KindsKernelFirst == <<"kernel", "h2d", "d2h">>

\* The operations of a segment, in the order of the three loops.
Kinds == <<"h2d", "kernel", "d2h">>

\* The next operation of segment g of block b can run: it is the first of
\* its stream.
Runnable(b, g) ==
    /\ ran[b][g] < Called(b, g)
    /\ \A c \in Blocks : c < b /\ SlotOf(c) = SlotOf(b) => ran[c][g] = 3

\* The bytes of segment g on the device: whose they are, until its tokens are
\* copied back.
OnDevice(g) == {b \in Blocks : ran[b][g] \in {1, 2}}

CopyIn(b, g) ==
    /\ Kinds[ran[b][g] + 1] = "h2d"
    /\ in_d' = [in_d EXCEPT ![g] = buf[SlotOf(b)][g]]
    /\ crossed' = crossed \cup {<<c, g>> : c \in OnDevice(g) \ {b}}
    /\ UNCHANGED <<out_d, bufout, late>>

Kernel(b, g) ==
    /\ Kinds[ran[b][g] + 1] = "kernel"
    /\ out_d' = [out_d EXCEPT ![g] = in_d[g]]
    /\ UNCHANGED <<in_d, bufout, historyVars>>

CopyOut(b, g) ==
    /\ Kinds[ran[b][g] + 1] = "d2h"
    /\ bufout' = [bufout EXCEPT ![SlotOf(b)][g] = out_d[g]]
    /\ late' = IF g = LastSeg
               THEN late \cup {<<b, h>> : h \in {f \in Segs \ {g} : ran[b][f] < 3}}
               ELSE late
    /\ UNCHANGED <<in_d, out_d, crossed>>

DeviceRun(b, g) ==
    /\ Runnable(b, g)
    /\ CopyIn(b, g) \/ Kernel(b, g) \/ CopyOut(b, g)
    /\ ran' = [ran EXCEPT ![b][g] = @ + 1]
    /\ UNCHANGED <<filled, callVars, taken, tokens, buf>>

-----------------------------------------------------------------------------
GSNext == \/ FillSlot \/ IssueCall \/ Take
          \/ \E b \in Blocks, g \in Segs : DeviceRun(b, g)

GSSpec == GSInit /\ [][GSNext]_gsVars

-----------------------------------------------------------------------------
(* Properties.                                                             *)

\* Whatever order CUDA allows, a wrong token has one of two causes: another
\* block's bytes were copied over the very segment on the device while it was
\* in use there, or its block's last stream was done before its own.  So what
\* cpu_consumer packs as segment g of block b are its tokens, though slots in
\* flight share the buffers on the device and are reused, and though kernels
\* of other blocks run on the same segment.
TokensOfTheirBlock ==
    \A b \in 0 .. taken - 1 : \A g \in Segs :
        tokens[b + 1][g] = b \/ <<b, g>> \in crossed \cup late

\* No operation of a block is left over when the host packs, sends and
\* refills its slot, but those of segments which the last one, the only one
\* polled, overtook.
NothingLeftBehind ==
    \A b \in 0 .. taken - 1 : \A g \in Segs : ran[b][g] = 3 \/ <<b, g>> \in late

\* The atomic device Culzss assumes.  A slot is busy from its first call to
\* the last of its operations.
Issuing == loop > 0 \/ seg > 0
Begun == issued + (IF Issuing THEN 1 ELSE 0)
Busy(s) ==
    \/ \E g \in Segs : Outstanding(s, g)
    \/ Issuing /\ s = SlotOf(issued)

\* The block all segments of a buffer belong to.
Mixed == -2
Whole(segs) == IF \A g \in Segs : segs[g] = segs[0] THEN segs[0] ELSE Mixed

Device == INSTANCE SlotDevice WITH
    issued <- Begun,
    buf <- [s \in Slots |-> Whole(buf[s])],
    bufout <- [s \in Slots |-> IF Busy(s) THEN NoBlock ELSE Whole(bufout[s])],
    stream <- [s \in Slots |-> IF Busy(s) THEN "busy" ELSE "idle"],
    orderly <- crossed \cup late = {}

\* The streams, all three operations of all segments, are that atomic device
\* up to the first step that does harm.
ImplementsSlotDevice == Device!SDSpec
=============================================================================
