---------------------------- MODULE DeculzssInv ----------------------------
(***************************************************************************)
(* The inductive invariant of Deculzss: what has to be known, besides the  *)
(* properties stated there, for them to follow from one step to the next.  *)
(***************************************************************************)
EXTENDS Deculzss

Labels == {"open", "top", "lock", "test", "sleep", "wait", "fill", "work",
           "relock", "publish", "signal", "done", "join", "delete", "return"}

Blocks == 0 .. NumBlocks - 1
Contents == [block : {NoBlock} \cup Blocks, form : Forms]

\* The file read is one Culzss can have written; the rest has its type.  The
\* receiver keeps the mutex, so it has not to lock it again.
TypeOK ==
    /\ totalsize \in (NumBlocks - 1) * BlockSize + 1 .. NumBlocks * BlockSize
    /\ padding = PaddingOf(totalsize)
    /\ \A b \in Blocks : IsChunkOf(inFile[b], b)
    /\ pc \in [Threads -> Labels] /\ pc["rec"] \notin {"relock", "publish"}
    /\ iter \in [Stages -> 0 .. NumBlocks]
    /\ head \in [Stages -> Slots]
    /\ mut \in Stages \cup {"free"}
    /\ ledger \in [Slots -> 0 .. 2]
    /\ buf \in [Slots -> Contents]
    /\ compsize \in [Slots -> Nat]
    /\ outFile \in Seq([content : Contents, size : Int])
    /\ freed \in BOOLEAN
    /\ proc \in {"running", "exited", "failed"}

\* Labels between the wait for a slot and the update of its ledger, and all
\* those inside the loops.
Working == {"fill", "work", "relock", "publish"}
InLoop == Working \cup {"lock", "test", "sleep", "wait"}

\* A thread inside its loop has a block left to pass on.
LoopInv == \A t \in Stages : pc[t] \in InLoop => iter[t] < NumBlocks

\* While a stage works on its slot, the ledger stays as the stage found it.
ReadyInv == \A t \in Stages : pc[t] \in Working => ledger[head[t]] = Want[t]

RingInv == Agree(Stages, Want, "wr", iter, head, ledger)

RingIInv == TypeOK /\ LoopInv /\ ReadyInv /\ RingInv

\* Threads end when they have passed all blocks on; main moves on behind them.
EndInv ==
    /\ \A t \in Stages : pc[t] = "done" => iter[t] = NumBlocks
    /\ pc["main"] # "join" => \A t \in Stages : pc[t] = "done"
    /\ freed => pc["main"] # "join"

\* The block slot s stands for, and whether the GPU stage is through with it.
BlockAt(s) == iter["wr"] + Gap(head["wr"], s)
GpuPastAt(s) == head["gpu"] = s /\ pc["gpu"] \in {"relock", "publish"}

\* What the writer is to find for block b.
Restored(b) == Content(b, IF TakenForRaw(b) THEN "packed" ELSE "raw")

\* The receiver leaves a slot with the chunk of its block and the chunk's
\* size, from which the GPU stage judges its form.
ChunkHeld(s) ==
    ledger[s] = 1 /\ ~ GpuPastAt(s) =>
        LET chunk == inFile[BlockAt(s)]
        IN  buf[s] = Content(chunk.block, chunk.form) /\ compsize[s] = chunk.size

\* The GPU stage leaves it with the block.
BlockHeld(s) ==
    ledger[s] = 2 \/ (ledger[s] = 1 /\ GpuPastAt(s)) => buf[s] = Restored(BlockAt(s))

DataInv == \A s \in Slots : ChunkHeld(s) /\ BlockHeld(s)

\* The writer is at most one block ahead of its counter.
FileInv ==
    Len(outFile) = iter["wr"] + (IF pc["wr"] \in {"relock", "publish"} THEN 1 ELSE 0)

\* The whole: each part is inductive given those before it.
IInv ==
    /\ RingIInv
    /\ EndInv
    /\ DataInv
    /\ FileInv /\ Lossless /\ RestoredWhole
=============================================================================
