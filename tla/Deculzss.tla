------------------------------ MODULE Deculzss ------------------------------
(***************************************************************************)
(* The CULZSS decompression pipeline (src/LZSS/Cuda: decompression.c,      *)
(* deculzss.c).                                                            *)
(*                                                                         *)
(*       file --> receiver --> degpu_consumer --> decpu_consumer --> file  *)
(*                                                                         *)
(* Three threads share a ring of NUMBUF slots (dequeue, deculzss.h) in the *)
(* way of Culzss: ledger says which stage a slot waits for (0 receiver,    *)
(* 1 GPU, 2 writer), each stage has its head (headRG, headGW, headWR) and  *)
(* a condition variable of its own to wait on.  The receiver reads with    *)
(* the mutex held; the GPU stage decompresses in place and the writer      *)
(* writes without it.  There is no exit request here.                      *)
(*                                                                         *)
(* The input is a file Culzss can have written; the restored file is the   *)
(* sequence of contents written, of which all but the form is given by the *)
(* position, and their sizes.  main (main.c) has cut the original into     *)
(* blocks of one size, and the last write leaves out the padding.          *)
(***************************************************************************)
EXTENDS CulzssFormat, Ring

CONSTANTS NumBlocks,   \* numbufs, nchunks: blocks of the file
          Faults       \* whether files and device may fail

ASSUME DecSizesAssumption ==
    /\ NumBlocks \in Nat \ {0}
    /\ Faults \in BOOLEAN

Stages == {"rec", "gpu", "wr"}
Threads == Stages \cup {"main"}

\* The value of ledger[head] each stage waits for.
Want == [rec |-> 0, gpu |-> 1, wr |-> 2]

VARIABLES
    totalsize, \* bytes of the original file, which nobody knows here
    padding,   \* the second number of the header, as decompression reads it
    inFile,    \* the chunks of the compressed file, block by block
    pc, iter, head, mut, ledger,
    buf,       \* contents of buf[s]
    compsize,  \* bytes the receiver read into buf[s]
    outFile,   \* what was written, content and size
    freed,     \* dequeueDelete has freed the queue
    proc       \* "running", "exited" or "failed"

queueVars == <<head, ledger, iter>>
dataVars == <<buf, compsize, outFile>>
endVars == <<freed, proc>>
inputs == <<totalsize, padding, inFile>>
vars == <<inputs, pc, mut, queueVars, dataVars, endVars>>

\* Mistake: a file that fills its blocks is padded as well.
PaddingAlways(size) == BlockSize - (size % BlockSize)

\* What main.c has written into the header of a file of this size: how much its
\* last block is short of.
PaddingOf(size) == IF size % BlockSize > 0 THEN BlockSize - (size % BlockSize) ELSE 0

\* A file of NumBlocks blocks, and what the header says of it.
Init ==
    /\ totalsize \in (NumBlocks - 1) * BlockSize + 1 .. NumBlocks * BlockSize
    /\ padding = PaddingOf(totalsize)
    /\ inFile \in [0 .. NumBlocks - 1 -> UNION {ChunksOf(b) : b \in 0 .. NumBlocks - 1}]
    /\ \A b \in 0 .. NumBlocks - 1 : IsChunkOf(inFile[b], b)
    /\ pc = [t \in Threads |-> CASE t = "gpu" -> "top"
                                 [] t = "main" -> "join"
                                 [] OTHER -> "open"]
    /\ iter = [t \in Stages |-> 0]
    /\ head = [t \in Stages |-> 0]
    /\ mut = "free"
    /\ ledger = [s \in Slots |-> 0]
    /\ buf = [s \in Slots |-> Empty]
    /\ compsize = [s \in Slots |-> 0]
    /\ outFile = <<>>
    /\ freed = FALSE
    /\ proc = "running"

At(t, label) == proc = "running" /\ pc[t] = label
Goto(t, label) == pc' = [pc EXCEPT ![t] = label]

-----------------------------------------------------------------------------
(* What the three loops have in common.                                    *)

\* fopen of the input and of the output.
Open(t) ==
    /\ At(t, "open")
    /\ Goto(t, "top")
    /\ UNCHANGED <<inputs, mut, queueVars, dataVars, endVars>>

Enter(t) ==
    /\ At(t, "top")
    /\ Goto(t, IF iter[t] < NumBlocks THEN "lock" ELSE "done")
    /\ UNCHANGED <<inputs, mut, queueVars, dataVars, endVars>>

Acquire(t) ==
    /\ \/ At(t, "lock") /\ Goto(t, "test")
       \/ At(t, "relock") /\ Goto(t, "publish")
    /\ mut = "free"
    /\ mut' = t
    /\ UNCHANGED <<inputs, queueVars, dataVars, endVars>>

NotReady(t) ==
    /\ At(t, "test")
    /\ ledger[head[t]] # Want[t]
    /\ Goto(t, "sleep")
    /\ UNCHANGED <<inputs, mut, queueVars, dataVars, endVars>>

CondWait(t) ==
    /\ At(t, "sleep")
    /\ mut' = "free"
    /\ Goto(t, "wait")
    /\ UNCHANGED <<inputs, queueVars, dataVars, endVars>>

\* Mistake: the writer takes a slot the GPU stage has not passed on.
ReadyTooEarly(t) ==
    /\ At(t, "test")
    /\ ledger[head[t]] = Want[t] \/ (t = "wr" /\ ledger[head[t]] = 1)
    /\ mut' = IF t = "rec" THEN t ELSE "free"
    /\ Goto(t, IF t = "rec" THEN "fill" ELSE "work")
    /\ UNCHANGED <<inputs, queueVars, dataVars, endVars>>

Ready(t) ==
    /\ At(t, "test")
    /\ ledger[head[t]] = Want[t]
    /\ mut' = IF t = "rec" THEN t ELSE "free"
    /\ Goto(t, IF t = "rec" THEN "fill" ELSE "work")
    /\ UNCHANGED <<inputs, queueVars, dataVars, endVars>>

SpuriousWakeup(t) ==
    /\ At(t, "wait")
    /\ Goto(t, "lock")
    /\ UNCHANGED <<inputs, mut, queueVars, dataVars, endVars>>

\* Mistake: decpu_consumer does not signal wrote.
WaiterOfForgotten == [rec |-> "gpu", gpu |-> "wr", wr |-> "nobody"]

\* Who waits on the condition variable t signals: rcvd, decomp, wrote.
WaiterOf == [rec |-> "gpu", gpu |-> "wr", wr |-> "rec"]

Signal(t) ==
    /\ At(t, "signal")
    /\ pc' = [u \in Threads |->
                IF u = t THEN "top"
                ELSE IF u = WaiterOf[t] /\ pc[u] = "wait" THEN "lock"
                ELSE pc[u]]
    /\ UNCHANGED <<inputs, mut, queueVars, dataVars, endVars>>

PassOn(t, val) ==
    /\ ledger' = [ledger EXCEPT ![head[t]] = val]
    /\ head' = [head EXCEPT ![t] = NextSlot(@)]
    /\ iter' = [iter EXCEPT ![t] = @ + 1]
    /\ mut' = "free"
    /\ Goto(t, "signal")

\* ledger[head]++ in the GPU stage, ledger[head] = 0 in the writer.
Publish(t) ==
    /\ At(t, "publish")
    /\ PassOn(t, IF t = "wr" THEN 0 ELSE ledger[head[t]] + 1)
    /\ UNCHANGED <<inputs, dataVars, endVars>>

-----------------------------------------------------------------------------
(* The work of each stage.                                                 *)

\* The size of a chunk is the difference of two offsets of the header (the
\* invariant HeaderDescribesFile of Culzss).  fread of a chunk longer than a
\* block runs over the end of buf: the behaviour is undefined, and the process
\* counts as lost.
Receive ==
    /\ At("rec", "fill")
    /\ LET chunk == inFile[iter["rec"]]
       IN  /\ chunk.size <= BlockSize
           /\ buf' = [buf EXCEPT ![head["rec"]] = Content(chunk.block, chunk.form)]
           /\ compsize' = [compsize EXCEPT ![head["rec"]] = chunk.size]
    /\ PassOn("rec", ledger[head["rec"]] + 1)
    /\ UNCHANGED <<inputs, outFile, endVars>>

ReceiveOverrun ==
    /\ At("rec", "fill")
    /\ inFile[iter["rec"]].size > BlockSize
    /\ proc' = "failed"
    /\ UNCHANGED <<inputs, pc, mut, queueVars, dataVars, freed>>

\* What decompression_kernel_wrapper makes of content c.
Unpacked(c) == Content(c.block, IF c.form = "packed" THEN "raw" ELSE "garbled")

\* Mistake: every chunk is taken for a packed one.
DecompressAlways ==
    /\ At("gpu", "work")
    /\ buf' = [buf EXCEPT ![head["gpu"]] = Unpacked(@)]
    /\ Goto("gpu", "relock")
    /\ UNCHANGED <<inputs, mut, queueVars, compsize, outFile, endVars>>

\* A chunk of a block's size is taken for a raw one; any other is
\* decompressed in place (the call returns when the device is through).
Decompress ==
    /\ At("gpu", "work")
    /\ buf' = [buf EXCEPT ![head["gpu"]] =
                 IF compsize[head["gpu"]] = BlockSize THEN @ ELSE Unpacked(@)]
    /\ Goto("gpu", "relock")
    /\ UNCHANGED <<inputs, mut, queueVars, compsize, outFile, endVars>>

Write ==
    /\ At("wr", "work")
    /\ LET size == IF iter["wr"] = NumBlocks - 1 /\ padding > 0 THEN BlockSize - padding
                   ELSE BlockSize
       IN  outFile' = Append(outFile, [content |-> buf[head["wr"]], size |-> size])
    /\ Goto("wr", "relock")
    /\ UNCHANGED <<inputs, mut, queueVars, buf, compsize, endVars>>

-----------------------------------------------------------------------------
(* decompression: joins, and dequeueDelete.                                *)

\* Mistake: the receiver is not joined.
JoinAllButReceiver ==
    /\ At("main", "join")
    /\ pc["gpu"] = "done" /\ pc["wr"] = "done"
    /\ Goto("main", "delete")
    /\ UNCHANGED <<inputs, mut, queueVars, dataVars, endVars>>

JoinAll ==
    /\ At("main", "join")
    /\ \A t \in Stages : pc[t] = "done"
    /\ Goto("main", "delete")
    /\ UNCHANGED <<inputs, mut, queueVars, dataVars, endVars>>

DequeueDelete ==
    /\ At("main", "delete")
    /\ freed' = TRUE
    /\ Goto("main", "return")
    /\ UNCHANGED <<inputs, mut, queueVars, dataVars, proc>>

MainReturn ==
    /\ At("main", "return")
    /\ proc' = "exited"
    /\ Goto("main", "done")
    /\ UNCHANGED <<inputs, mut, queueVars, dataVars, freed>>

\* fopen and short reads end the process, a CUDA error in the GPU stage too.
Fail(t) ==
    /\ Faults
    /\ proc = "running"
    /\ pc[t] = "open" \/ pc[t] = "fill" \/ (t = "gpu" /\ pc[t] = "work")
    /\ proc' = "failed"
    /\ UNCHANGED <<inputs, pc, mut, queueVars, dataVars, freed>>

-----------------------------------------------------------------------------
StageStep(t) ==
    \/ t \in {"rec", "wr"} /\ Open(t)
    \/ Enter(t) \/ Acquire(t) \/ NotReady(t) \/ CondWait(t) \/ Ready(t)
    \/ Signal(t) \/ Publish(t)
    \/ t = "rec" /\ (Receive \/ ReceiveOverrun)
    \/ t = "gpu" /\ Decompress
    \/ t = "wr" /\ Write

MainStep == JoinAll \/ DequeueDelete \/ MainReturn

Next ==
    \/ \E t \in Stages : StageStep(t) \/ SpuriousWakeup(t) \/ Fail(t)
    \/ MainStep

Spec == Init /\ [][Next]_vars

\* Threads that can run do.  A thread woken up for nothing locks the mutex, looks
\* and sleeps again: if that goes on without end, the mutex must not pass over
\* the others for ever.
Fairness ==
    /\ \A t \in Stages : WF_vars(StageStep(t)) /\ SF_vars(Acquire(t))
    /\ WF_vars(MainStep)

FairSpec == Spec /\ Fairness

-----------------------------------------------------------------------------
(* Properties.                                                             *)

\* While a stage is at work on its slot, no other stage is.
OneUser ==
    \A s \in Slots : \A t, u \in Stages :
        /\ pc[t] \in {"fill", "work"} /\ head[t] = s
        /\ pc[u] \in {"fill", "work"} /\ head[u] = s
        => t = u

\* A packed chunk exactly as long as a block, which the compressor does not
\* rule out, is taken for a raw one: that block alone is written packed.
TakenForRaw(b) == inFile[b] = PackedChunk(b, BlockSize)

\* The restored file is the original: its blocks, in order, unpacked, but for
\* those whose chunk cannot be told from a raw one.
Lossless ==
    \A k \in 1 .. Len(outFile) :
        outFile[k].content = Content(k - 1, IF TakenForRaw(k - 1) THEN "packed" ELSE "raw")

\* The restored file is as long as the original: all blocks are whole but the
\* last, which takes what the others leave of it, whether the sizes divide or
\* not.
RestoredWhole ==
    \A k \in 1 .. Len(outFile) :
        outFile[k].size = IF k < NumBlocks THEN BlockSize
                          ELSE totalsize - (NumBlocks - 1) * BlockSize

\* dequeueDelete frees the queue after the last use of it.
NoUseAfterFree == freed => \A t \in Stages : pc[t] = "done"

Stream == INSTANCE BlockStream WITH
    Capacity <- NumSlots,
    accepted <- iter["rec"],
    out <- [k \in 1 .. Len(outFile) |-> outFile[k].content.block],
    status <- proc

\* Unless the process fails, every block is written, in order, and main
\* returns after it.
DeliversEverything == Stream!BSFairSpec
=============================================================================
