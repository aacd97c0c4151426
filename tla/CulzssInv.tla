----------------------------- MODULE CulzssInv -----------------------------
(***************************************************************************)
(* The inductive invariant of Culzss: what has to be known, besides the    *)
(* properties stated in Culzss, for them to follow from one step to the    *)
(* next.  TLC checks it (MCCulzss); the module of proofs uses it.          *)
(***************************************************************************)
EXTENDS Culzss

\* Labels inside the loops, and those between the wait for a slot and the
\* update of its ledger.
Working == {"fill", "issue", "sync", "backup", "pack", "restore", "relock",
            "publish"}
InLoop == Working \cup {"lock", "test", "sleep", "wait"}

\* A thread inside its loop has a block left to pass on.
LoopInv == \A t \in Stages : pc[t] \in InLoop => iter[t] < NumBlocks

\* While a stage works on its slot, the ledger stays as the stage found it:
\* no other stage may change it.
ReadyInv == \A t \in Stages : pc[t] \in Working => ledger[head[t]] = Want[t]

\* The critical sections.
Held == {"test", "sleep", "fill", "publish"}
MutexInv == \A t \in Stages : pc[t] \in Held => mut = t

\* What a stage found before it goes to sleep is still so.
SleepInv == \A t \in Stages : pc[t] = "sleep" => ledger[head[t]] # Want[t]

WaitInv == MutexInv /\ SleepInv /\ NoLostWakeup

CpuPast == {"backup", "pack", "restore", "relock", "publish"}

\* Device work is outstanding only for a slot the GPU stage has issued and
\* the CPU stage has not synchronised with.
StreamInv ==
    \A s \in Slots : stream[s] # "idle" =>
        \/ ledger[s] = 1 /\ head["gpu"] = s /\ pc["gpu"] \in {"relock", "publish"}
        \/ ledger[s] = 2 /\ ~ (head["cpu"] = s /\ pc["cpu"] \in CpuPast)

\* exit_signal is set only when the consumers have ended, so none of them
\* breaks off; main moves on behind them.
EndInv ==
    /\ exit_signal # 0 => \A t \in Stages \ {"pro"} : pc[t] = "done"
    /\ pc["main"] # "join" => \A t \in Stages \ {"pro"} : pc[t] = "done"
    /\ pc["main"] \in {"delete", "spin", "return", "done"} => pc["pro"] = "done"
    /\ freed => pc["main"] \in {"return", "done"}
    /\ \A t \in Stages : pc[t] \in {"finish", "done"} => iter[t] = NumBlocks
    /\ pc["gpu"] = "done" => \A s \in Slots : stream[s] # "busy"
    /\ fileHeader = "final" => pc["snd"] = "done"

\* c is what it should be, or some packing may have spoilt its bytes.
Holds(c, wanted) == c = wanted \/ (spills > 0 /\ c.block = wanted.block)

\* Block b can be restored from what slot s holds for the sender.
Sendable(s, b) ==
    /\ buf[s].block = b
    /\ spills > 0 \/ IsChunkOf(Chunk(buf[s], SendSize(s)), b)

\* The block slot s stands for, as the producer read it.
RawOf(s) == Content(BlockAt(s), "raw")

\* Slot s is with the CPU stage, past its synchronisation with the device;
\* with the GPU stage, past the issue.
CpuPastAt(s) == head["cpu"] = s /\ pc["cpu"] \in CpuPast
GpuPastAt(s) == head["gpu"] = s /\ pc["gpu"] \in {"relock", "publish"}

\* Until the CPU stage packs it, the block is in buf.
InputHeld(s) ==
    ledger[s] = 1 \/ (ledger[s] = 2 /\ ~ CpuPastAt(s)) => Holds(buf[s], RawOf(s))

\* When the device has done what was issued, bufout has the block's tokens.
TokensHeld(s) ==
    stream[s] = "idle" /\ (ledger[s] = 2 \/ (ledger[s] = 1 /\ GpuPastAt(s)))
        => Holds(bufout[s], RawOf(s))

\* The CPU stage step by step: what it has copied, tried and restored.
PackHeld(s) ==
    ledger[s] = 2 /\ CpuPastAt(s) =>
        /\ pc["cpu"] = "backup" => Holds(buf[s], RawOf(s))
        /\ pc["cpu"] = "pack" => Holds(bckpbuf, RawOf(s))
        /\ pc["cpu"] = "restore" => Holds(bckpbuf, RawOf(s)) /\ outsize[s] = 0
        /\ pc["cpu"] \in {"relock", "publish"} => Sendable(s, BlockAt(s))

\* What the sender is given.
OutputHeld(s) == ledger[s] = 3 => Sendable(s, BlockAt(s))

\* What the buffers of a slot hold at each stage of its block.
SlotData(s) == InputHeld(s) /\ TokensHeld(s) /\ PackHeld(s) /\ OutputHeld(s)
DataInv == \A s \in Slots : SlotData(s)

\* Every chunk in the file has its end offset in bookkeeping.
OffsetsInv ==
    /\ Len(outFile) = iter["snd"]
    /\ \A b \in 0 .. iter["snd"] - 1 :
          bookkeeping[b] = OffsetBefore(b) + outFile[b + 1].size

\* The part that concerns the ring, inductive by itself.
RingIInv == TypeOK /\ LoopInv /\ ReadyInv /\ RingInv

\* The whole: each part is inductive given those before it.
IInv ==
    /\ RingIInv
    /\ WaitInv
    /\ EndInv /\ StreamInv
    /\ DataInv /\ OutputInOrder /\ OffsetsInv
=============================================================================
