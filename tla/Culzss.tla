------------------------------- MODULE Culzss -------------------------------
(***************************************************************************)
(* The CULZSS compression pipeline (src/LZSS/Cuda: main.c, culzss.c).      *)
(*                                                                         *)
(*   producer --> gpu_consumer --> cpu_consumer --> cpu_sender --> file    *)
(*                                                                         *)
(* Four threads share one ring of numblocks slots (queue, culzss.h).  For  *)
(* each slot, ledger says which stage the slot waits for: 0 producer, 1    *)
(* GPU, 2 CPU, 3 sender.  Each stage keeps its own head into the ring      *)
(* (headPG, headGC, headCS, headSP), waits until ledger[head] has its      *)
(* value, works on the slot, increments ledger[head] (the sender resets it *)
(* to 0) and moves its head on.  mut protects the ledger and the heads;    *)
(* the work on a slot's buffers is done without the mutex, except in the   *)
(* producer and the sender.                                                *)
(*                                                                         *)
(* Three stages wait on a condition variable, which one other stage        *)
(* signals after it has unlocked mut; cpu_consumer does not wait but locks *)
(* and unlocks in a loop.  The GPU stage only issues work to the device:   *)
(* the copies and kernels of a slot complete later, and the CPU stage      *)
(* polls for that.  Here a slot's device work is one atomic step;          *)
(* GpuStreams looks inside it.                                             *)
(***************************************************************************)
EXTENDS CulzssFormat, Ring

CONSTANTS NumBlocks,   \* maxiterations: blocks of the input
          Faults,      \* whether files, memory and device may fail
          Behind,      \* which buffers may lie behind the buf of each slot
          MaxSpills    \* bound: packings that write into such a buffer

ASSUME SizesAssumption ==
    /\ NumBlocks \in Nat \ {0}
    /\ Faults \in BOOLEAN
    /\ MaxSpills \in Nat

\* queueInit allocates the bufs one by one and then the bufouts.
ASSUME BehindAssumption ==
    /\ Behind \in [Slots -> SUBSET ({"buf", "bufout"} \X Slots)]
    /\ \A s \in Slots : \A b \in Behind[s] : b[2] # s

Stages == {"pro", "gpu", "cpu", "snd"}
Threads == Stages \cup {"main"}

\* The value of ledger[head] each stage waits for.
Want == [pro |-> 0, gpu |-> 1, cpu |-> 2, snd |-> 3]

Unset == -1   \* a word of the malloc'ed bookkeeping nobody has written yet

VARIABLES
    pc,           \* where each thread is
    iter,         \* blocks a stage has passed on (its loop counter i)
    head,         \* headPG, headGC, headCS, headSP
    mut,          \* the thread that holds fifo->mut, or "free"
    ledger,
    buf,          \* contents of buf[s]
    bufout,       \* the content whose token stream bufout[s] holds
    outsize,      \* bytes to send from buf[s]; 0 stands for a whole block
    bckpbuf,      \* cpu_consumer's copy of the block it packs
    spills,       \* history: packings that wrote into a buffer behind theirs
    stream,       \* "busy" while device work of the slot is outstanding,
                  \* "error" when that work has failed
    bookkeeping,  \* end offset of each block's chunk
    outFile,      \* the chunks in the file
    fileHeader,   \* the header in the file: "none", "placeholder", "final"
    exit_signal,
    freed,        \* queueDelete has freed the queue
    proc          \* "running", "exited" (main returned) or "failed"

queueVars == <<head, ledger, iter>>
dataVars == <<buf, bufout, outsize, bckpbuf, spills>>
fileVars == <<bookkeeping, outFile, fileHeader>>
endVars == <<exit_signal, freed, proc>>
vars == <<pc, mut, queueVars, dataVars, stream, fileVars, endVars>>

Init ==
    /\ pc = [t \in Threads |-> CASE t = "pro" -> "open"
                                 [] t = "snd" -> "open"
                                 [] t = "main" -> "join"
                                 [] OTHER -> "top"]
    /\ iter = [t \in Stages |-> 0]
    /\ head = [t \in Stages |-> 0]
    /\ mut = "free"
    /\ ledger = [s \in Slots |-> 0]
    /\ buf = [s \in Slots |-> Empty]
    /\ bufout = [s \in Slots |-> Empty]
    /\ outsize = [s \in Slots |-> 0]
    /\ bckpbuf = Empty
    /\ spills = 0
    /\ stream = [s \in Slots |-> "idle"]
    /\ bookkeeping = [b \in 0 .. NumBlocks - 1 |-> Unset]
    /\ outFile = <<>>
    /\ fileHeader = "none"
    /\ exit_signal = 0
    /\ freed = FALSE
    /\ proc = "running"

At(t, label) == proc = "running" /\ pc[t] = label
Goto(t, label) == pc' = [pc EXCEPT ![t] = label]

-----------------------------------------------------------------------------
(* What the four loops have in common.                                     *)

\* for (i = 0; i < maxiterations; i++): a consumer tests for an exit request,
\* if (exit_signal) { exit_signal++; break; }, the producer does not.
Enter(t) ==
    /\ At(t, "top")
    /\ iter[t] < NumBlocks
    /\ IF t = "pro" \/ exit_signal = 0
       THEN exit_signal' = exit_signal /\ Goto(t, "lock")
       ELSE exit_signal' = exit_signal + 1 /\ Goto(t, "finish")
    /\ UNCHANGED <<mut, queueVars, dataVars, stream, fileVars, freed, proc>>

LoopEnd(t) ==
    /\ At(t, "top")
    /\ iter[t] = NumBlocks
    /\ Goto(t, "finish")
    /\ UNCHANGED <<mut, queueVars, dataVars, stream, fileVars, endVars>>

\* pthread_mutex_lock, of the wait for a slot ("lock", also after a wakeup)
\* and of the update that follows the work ("relock").
Acquire(t) ==
    /\ \/ At(t, "lock") /\ Goto(t, "test")
       \/ At(t, "relock") /\ Goto(t, "publish")
    /\ mut = "free"
    /\ mut' = t
    /\ UNCHANGED <<queueVars, dataVars, stream, fileVars, endVars>>

\* Mistake: the mutex is released before the thread is asleep.
NotReadyUnlocked(t) ==
    /\ At(t, "test")
    /\ ledger[head[t]] # Want[t]
    /\ mut' = "free"
    /\ Goto(t, IF t = "cpu" THEN "lock" ELSE "sleep")
    /\ UNCHANGED <<queueVars, dataVars, stream, fileVars, endVars>>

\* ledger[head] is not what the stage waits for: it is about to call
\* pthread_cond_wait; cpu_consumer unlocks and locks again.
NotReady(t) ==
    /\ At(t, "test")
    /\ ledger[head[t]] # Want[t]
    /\ IF t = "cpu" THEN mut' = "free" /\ Goto(t, "lock")
                    ELSE mut' = mut /\ Goto(t, "sleep")
    /\ UNCHANGED <<queueVars, dataVars, stream, fileVars, endVars>>

\* pthread_cond_wait: gives up the mutex and sleeps, in one step.
CondWait(t) ==
    /\ At(t, "sleep")
    /\ mut' = "free"
    /\ Goto(t, "wait")
    /\ UNCHANGED <<queueVars, dataVars, stream, fileVars, endVars>>

\* Where a stage goes when its slot is ready.  The producer keeps the mutex
\* while it reads; the others unlock.
WorkOf == [pro |-> "fill", gpu |-> "issue", cpu |-> "sync", snd |-> "relock"]

\* Mistake: the producer does not wait for its slot to be sent.
ReadyUnchecked(t) ==
    /\ At(t, "test")
    /\ t = "pro" \/ ledger[head[t]] = Want[t]
    /\ mut' = IF t = "pro" THEN "pro" ELSE "free"
    /\ Goto(t, WorkOf[t])
    /\ UNCHANGED <<queueVars, dataVars, stream, fileVars, endVars>>

Ready(t) ==
    /\ At(t, "test")
    /\ ledger[head[t]] = Want[t]
    /\ mut' = IF t = "pro" THEN "pro" ELSE "free"
    /\ Goto(t, WorkOf[t])
    /\ UNCHANGED <<queueVars, dataVars, stream, fileVars, endVars>>

\* pthread_cond_wait may return without a signal.
SpuriousWakeup(t) ==
    /\ At(t, "wait")
    /\ Goto(t, "lock")
    /\ UNCHANGED <<mut, queueVars, dataVars, stream, fileVars, endVars>>

\* Mistake: cpu_consumer signals a condition variable the sender does not
\* wait on.
WaiterOfMixedUp == [pro |-> "gpu", gpu |-> "nobody", cpu |-> "gpu", snd |-> "pro"]

\* The stage waiting on the condition variable t signals: produced, (for gpu)
\* compressed, on which nobody waits, sendready, sent.
WaiterOf == [pro |-> "gpu", gpu |-> "nobody", cpu |-> "snd", snd |-> "pro"]

\* pthread_cond_signal, called after the unlock.
Signal(t) ==
    /\ At(t, "signal")
    /\ pc' = [u \in Threads |->
                IF u = t THEN "top"
                ELSE IF u = WaiterOf[t] /\ pc[u] = "wait" THEN "lock"
                ELSE pc[u]]
    /\ UNCHANGED <<mut, queueVars, dataVars, stream, fileVars, endVars>>

\* Mistake: the head stays where it is.
PassOnSameSlot(t, val) ==
    /\ ledger' = [ledger EXCEPT ![head[t]] = val]
    /\ iter' = [iter EXCEPT ![t] = @ + 1]
    /\ mut' = "free"
    /\ Goto(t, "signal")
    /\ UNCHANGED head

\* ledger[head] becomes val, the head moves on, the mutex is released.
PassOn(t, val) ==
    /\ ledger' = [ledger EXCEPT ![head[t]] = val]
    /\ head' = [head EXCEPT ![t] = NextSlot(@)]
    /\ iter' = [iter EXCEPT ![t] = @ + 1]
    /\ mut' = "free"
    /\ Goto(t, "signal")

\* The end of gpu_consumer's and cpu_consumer's pass: ledger[head]++.
Publish(t) ==
    /\ t \in {"gpu", "cpu"}
    /\ At(t, "publish")
    /\ PassOn(t, ledger[head[t]] + 1)
    /\ UNCHANGED <<dataVars, stream, fileVars, endVars>>

\* Mistake: the device buffers are freed while the device may use them.
FinishAtOnce(t) ==
    /\ At(t, "finish")
    /\ fileHeader' = IF t = "snd" THEN "final" ELSE fileHeader
    /\ Goto(t, "done")
    /\ UNCHANGED <<mut, queueVars, dataVars, stream, bookkeeping, outFile,
                   endVars>>

\* After the loop: gpu_consumer frees its device buffers (cudaFree waits for
\* the device, and gives back an error nobody looks at), cpu_sender rewrites
\* the header and closes the file.
Finish(t) ==
    /\ At(t, "finish")
    /\ t = "gpu" => \A s \in Slots : stream[s] # "busy"
    /\ fileHeader' = IF t = "snd" THEN "final" ELSE fileHeader
    /\ Goto(t, "done")
    /\ UNCHANGED <<mut, queueVars, dataVars, stream, bookkeeping, outFile,
                   endVars>>

-----------------------------------------------------------------------------
(* The work of each stage.                                                 *)

ProducerOpen ==
    /\ At("pro", "open")
    /\ Goto("pro", "top")
    /\ UNCHANGED <<mut, queueVars, dataVars, stream, fileVars, endVars>>

\* fread into buf[headPG], ledger[headPG]++.  The last block may be short.
ProducerFill ==
    /\ At("pro", "fill")
    /\ buf' = [buf EXCEPT ![head["pro"]] = Content(iter["pro"], "raw")]
    /\ PassOn("pro", ledger[head["pro"]] + 1)
    /\ UNCHANGED <<bufout, outsize, bckpbuf, spills, stream, fileVars, endVars>>

\* compression_kernel_wrapper: copies and kernels are queued on the streams
\* of the slot, and the call returns.
GpuIssue ==
    /\ At("gpu", "issue")
    /\ stream' = [stream EXCEPT ![head["gpu"]] = "busy"]
    /\ Goto("gpu", "relock")
    /\ UNCHANGED <<mut, queueVars, dataVars, fileVars, endVars>>

\* The device works through what was queued for slot s.
DeviceRun(s) ==
    /\ proc = "running"
    /\ stream[s] = "busy"
    /\ stream' = [stream EXCEPT ![s] = "idle"]
    /\ bufout' = [bufout EXCEPT ![s] = buf[s]]
    /\ UNCHANGED <<pc, mut, queueVars, buf, outsize, bckpbuf, spills, fileVars,
                   endVars>>

\* A copy or a kernel of slot s fails: every later query of its stream
\* returns the error.
DeviceError(s) ==
    /\ Faults
    /\ proc = "running"
    /\ stream[s] = "busy"
    /\ stream' = [stream EXCEPT ![s] = "error"]
    /\ UNCHANGED <<pc, mut, queueVars, dataVars, fileVars, endVars>>

\* Mistake: the tokens are used without waiting for the device.
CpuSyncSkipped ==
    /\ At("cpu", "sync")
    /\ Goto("cpu", "backup")
    /\ UNCHANGED <<mut, queueVars, dataVars, stream, fileVars, endVars>>

\* onestream_finish_GPU(headCS): polls until the slot's device work is over,
\* for ever if it has failed (cudaStreamQuery never returns cudaSuccess).
CpuSync ==
    /\ At("cpu", "sync")
    /\ stream[head["cpu"]] = "idle"
    /\ Goto("cpu", "backup")
    /\ UNCHANGED <<mut, queueVars, dataVars, stream, fileVars, endVars>>

CpuBackup ==
    /\ At("cpu", "backup")
    /\ bckpbuf' = buf[head["cpu"]]
    /\ Goto("cpu", "pack")
    /\ UNCHANGED <<mut, queueVars, buf, bufout, outsize, spills, stream, fileVars,
                   endVars>>

Spoilt(c) == Content(c.block, "garbled")

\* aftercompression_wrapper packs over the buf of slot s, which makes the
\* bufs newbuf.  It may write past the end: with a packed form longer than
\* the block, or in the last of its workers, which notices too late or gives
\* the room back later.  That does no harm, or it spoils the buffer that lies
\* behind, or it ends the process (Fail).
PackInto(s, newbuf) ==
    \/ buf' = newbuf /\ bufout' = bufout /\ spills' = spills
    \/ /\ spills < MaxSpills
       /\ spills' = spills + 1
       /\ \E v \in Slots :
             \/ /\ <<"buf", v>> \in Behind[s]
                /\ buf' = [newbuf EXCEPT ![v] = Spoilt(@)]
                /\ bufout' = bufout
             \/ /\ <<"bufout", v>> \in Behind[s]
                /\ buf' = newbuf
                /\ bufout' = [bufout EXCEPT ![v] = Spoilt(@)]

\* The tokens of bufout, packed, fit, or go past the block's end unnoticed.
CpuPackFits ==
    /\ At("cpu", "pack")
    /\ \E len \in CompLens :
          outsize' = [outsize EXCEPT ![head["cpu"]] = len]
    /\ PackInto(head["cpu"],
                [buf EXCEPT ![head["cpu"]] = Packed(bufout[head["cpu"]])])
    /\ Goto("cpu", "relock")
    /\ UNCHANGED <<mut, queueVars, bckpbuf, stream, fileVars, endVars>>

\* Mistake: outsize keeps the length of the slot's last block.
CpuPackFailsStaleSize ==
    /\ At("cpu", "pack")
    /\ PackInto(head["cpu"], [buf EXCEPT ![head["cpu"]] = Spoilt(@)])
    /\ Goto("cpu", "restore")
    /\ UNCHANGED <<mut, queueVars, outsize, bckpbuf, stream, fileVars, endVars>>

\* It returns 0 (comptookmore) with buf half overwritten; outsize becomes 0.
CpuPackFails ==
    /\ At("cpu", "pack")
    /\ outsize' = [outsize EXCEPT ![head["cpu"]] = 0]
    /\ PackInto(head["cpu"], [buf EXCEPT ![head["cpu"]] = Spoilt(@)])
    /\ Goto("cpu", "restore")
    /\ UNCHANGED <<mut, queueVars, bckpbuf, stream, fileVars, endVars>>

CpuRestore ==
    /\ At("cpu", "restore")
    /\ buf' = [buf EXCEPT ![head["cpu"]] = bckpbuf]
    /\ Goto("cpu", "relock")
    /\ UNCHANGED <<mut, queueVars, bufout, outsize, bckpbuf, spills, stream, fileVars,
                   endVars>>

\* fopen, and the header with no offset in it yet.
SenderOpen ==
    /\ At("snd", "open")
    /\ fileHeader' = "placeholder"
    /\ Goto("snd", "top")
    /\ UNCHANGED <<mut, queueVars, dataVars, stream, bookkeeping, outFile, endVars>>

\* Bytes of slot s that go to the file.
SendSize(s) == IF outsize[s] = 0 THEN BlockSize ELSE outsize[s]

\* Mistake: sizes instead of running sums.
OffsetBeforeZero(b) == 0

\* The end offset of the chunk before that of block b.
OffsetBefore(b) == IF b = 0 THEN 0 ELSE bookkeeping[b - 1]

\* fwrite and ledger[headSP] = 0, all under the mutex.
SenderSend ==
    /\ At("snd", "publish")
    /\ LET s == head["snd"]
           i == iter["snd"]
       IN  /\ bookkeeping' = [bookkeeping EXCEPT
                                ![i] = SendSize(s) + OffsetBefore(i)]
           /\ outFile' = Append(outFile, Chunk(buf[s], SendSize(s)))
    /\ PassOn("snd", 0)
    /\ UNCHANGED <<dataVars, stream, fileHeader, endVars>>

-----------------------------------------------------------------------------
(* main: join_comp_threads, pthread_join of the producer, queueDelete.     *)

JoinConsumers ==
    /\ At("main", "join")
    /\ \A t \in {"gpu", "cpu", "snd"} : pc[t] = "done"
    /\ exit_signal' = 3
    /\ Goto("main", "joinpro")
    /\ UNCHANGED <<mut, queueVars, dataVars, stream, fileVars, freed, proc>>

\* Mistake: main does not wait for the producer.
JoinProducerSkipped ==
    /\ At("main", "joinpro")
    /\ Goto("main", "delete")
    /\ UNCHANGED <<mut, queueVars, dataVars, stream, fileVars, endVars>>

JoinProducer ==
    /\ At("main", "joinpro")
    /\ pc["pro"] = "done"
    /\ Goto("main", "delete")
    /\ UNCHANGED <<mut, queueVars, dataVars, stream, fileVars, endVars>>

\* signalExitThreads, first line.
SignalExit ==
    /\ At("main", "delete")
    /\ exit_signal' = exit_signal + 1
    /\ Goto("main", "spin")
    /\ UNCHANGED <<mut, queueVars, dataVars, stream, fileVars, freed, proc>>

\* while (!(exit_signal > 3)); then everything is destroyed and freed.
QueueDelete ==
    /\ At("main", "spin")
    /\ exit_signal > 3
    /\ freed' = TRUE
    /\ Goto("main", "return")
    /\ UNCHANGED <<mut, queueVars, dataVars, stream, fileVars, exit_signal, proc>>

MainReturn ==
    /\ At("main", "return")
    /\ proc' = "exited"
    /\ Goto("main", "done")
    /\ UNCHANGED <<mut, queueVars, dataVars, stream, fileVars, exit_signal, freed>>

-----------------------------------------------------------------------------
(* The environment may fail: fopen (exit in the producer; a null FILE in   *)
(* the sender), a short read before the last block, a CUDA error, found by *)
(* checkCUDAError (in the CPU stage only after its poll has ended), a      *)
(* malloc of aftercompression_wrapper.  Each ends the process on the spot, *)
(* as a packing that writes past the end of its buffer may.                *)

FaultPoints == [pro |-> {"open", "fill"}, gpu |-> {"issue"},
                cpu |-> {"sync", "pack"}, snd |-> {"open"}]

FaultAt(t) ==
    /\ Faults
    /\ pc[t] \in FaultPoints[t]
    /\ pc[t] = "fill" => iter[t] # NumBlocks - 1
    /\ pc[t] = "sync" => stream[head[t]] = "idle"

Fail(t) ==
    /\ proc = "running"
    /\ FaultAt(t) \/ (t = "cpu" /\ pc[t] = "pack")
    /\ proc' = "failed"
    /\ UNCHANGED <<pc, mut, queueVars, dataVars, stream, fileVars, exit_signal,
                   freed>>

-----------------------------------------------------------------------------
LoopStep(t) ==
    \/ Enter(t) \/ LoopEnd(t) \/ Acquire(t) \/ NotReady(t)
    \/ CondWait(t) \/ Ready(t) \/ Signal(t) \/ Publish(t) \/ Finish(t)

WorkStep(t) ==
    \/ t = "pro" /\ (ProducerOpen \/ ProducerFill)
    \/ t = "gpu" /\ GpuIssue
    \/ t = "cpu" /\ (CpuSync \/ CpuBackup \/ CpuPackFits \/ CpuPackFails \/ CpuRestore)
    \/ t = "snd" /\ (SenderOpen \/ SenderSend)

StageStep(t) == LoopStep(t) \/ WorkStep(t)

MainStep ==
    JoinConsumers \/ JoinProducer \/ SignalExit \/ QueueDelete \/ MainReturn

Next ==
    \/ \E t \in Stages : StageStep(t) \/ SpuriousWakeup(t) \/ Fail(t)
    \/ \E s \in Slots : DeviceRun(s) \/ DeviceError(s)
    \/ MainStep

Spec == Init /\ [][Next]_vars

\* Every thread that can run does, and the device works off its queues.  Of
\* the mutex nothing is assumed: a thread may stand at pthread_mutex_lock for
\* ever while others take it again and again.
Fairness ==
    /\ \A t \in Stages : WF_vars(StageStep(t))
    /\ WF_vars(MainStep)
    /\ \A s \in Slots : WF_vars(DeviceRun(s))

FairSpec == Spec /\ Fairness

-----------------------------------------------------------------------------
(* Properties.                                                             *)

Labels == {"open", "top", "lock", "test", "sleep", "wait", "fill", "issue", "sync",
           "backup", "pack", "restore", "relock", "publish", "signal",
           "finish", "done", "join", "joinpro", "delete", "spin", "return"}

Contents == [block : {NoBlock} \cup 0 .. NumBlocks - 1, form : Forms]

\* Every variable stays in its range; the heads stay inside the ring.
TypeOK ==
    /\ pc \in [Threads -> Labels]
    /\ iter \in [Stages -> 0 .. NumBlocks]
    /\ head \in [Stages -> Slots]
    /\ mut \in Stages \cup {"free"}
    /\ ledger \in [Slots -> 0 .. 3]
    /\ buf \in [Slots -> Contents]
    /\ bufout \in [Slots -> Contents]
    /\ outsize \in [Slots -> {0} \cup CompLens]
    /\ bckpbuf \in Contents
    /\ spills \in 0 .. MaxSpills
    /\ stream \in [Slots -> {"idle", "busy", "error"}]
    /\ bookkeeping \in [0 .. NumBlocks - 1 -> Nat \cup {Unset}]
    /\ outFile \in Seq([block : {NoBlock} \cup 0 .. NumBlocks - 1,
                        form : Forms, size : Nat])
    /\ fileHeader \in {"none", "placeholder", "final"}
    /\ exit_signal \in Nat
    /\ freed \in BOOLEAN
    /\ proc \in {"running", "exited", "failed"}

\* How many blocks stage t is ahead of the sender, and how many slots s is
\* ahead of the sender's head: slot s belongs to block iter.snd + Dist(s).
Lead(t) == iter[t] - iter["snd"]
Dist(s) == Gap(head["snd"], s)
BlockAt(s) == iter["snd"] + Dist(s)

\* The four private heads, the four loop counters and the ledger never
\* disagree: no stage overtakes the one before it, the producer is at most
\* one turn of the ring ahead of the sender, each head points at the slot of
\* the stage's next block, and the ledger of every slot tells which stages
\* have passed its block on.
RingInv == Agree(Stages, Want, "snd", iter, head, ledger)

\* Who is at work on the buffers of slot s: a stage between its wait and its
\* update of the ledger, or the device.
Uses(a, s) ==
    CASE a = "pro" -> pc["pro"] = "fill" /\ head["pro"] = s
      [] a = "gpu" -> pc["gpu"] = "issue" /\ head["gpu"] = s
      [] a = "cpu" -> pc["cpu"] \in {"backup", "pack", "restore"} /\ head["cpu"] = s
      [] a = "snd" -> pc["snd"] = "publish" /\ head["snd"] = s
      [] a = "device" -> stream[s] = "busy"

\* The buffers of a slot are used without the mutex, yet never by two at a
\* time: not by two stages, and not by a stage while the device still copies
\* from and to them.
OneUser ==
    \A s \in Slots : \A a, b \in Stages \cup {"device"} :
        Uses(a, s) /\ Uses(b, s) => a = b

\* The stage that signals the condition variable t waits on.
SignallerOf == [pro |-> "snd", gpu |-> "pro", snd |-> "cpu"]

\* No lost wakeup: if a thread sleeps in pthread_cond_wait though its slot is
\* ready, then the thread that made it ready is about to signal (the signal
\* is sent after the unlock, so the gap exists).
NoLostWakeup ==
    \A t \in {"pro", "gpu", "snd"} :
        pc[t] = "wait" /\ ledger[head[t]] = Want[t]
            => pc[SignallerOf[t]] = "signal"

\* The file holds the blocks in order, each either raw and whole or packed
\* with the length its packing returned: a packing that was given up has been
\* undone, no slot was sent before it was ready or refilled before it was
\* sent, and outsize and buf belong to the same block.  Only the bytes of a
\* chunk, never its place, can suffer from a packing that wrote past the end
\* of its buffer.
OutputInOrder ==
    /\ Len(outFile) = iter["snd"]
    /\ \A k \in 1 .. Len(outFile) :
          /\ outFile[k].block = k - 1
          /\ spills > 0 \/ IsChunkOf(outFile[k], k - 1)

\* A header that is final describes a whole file: the difference of two
\* successive offsets, by which the reader finds its way (decompression.c),
\* is the size of the chunk between them, and no offset was left unwritten.
HeaderDescribesFile ==
    fileHeader = "final" =>
        /\ Len(outFile) = NumBlocks
        /\ bookkeeping[0] = outFile[1].size
        /\ \A b \in 1 .. NumBlocks - 1 :
              bookkeeping[b] - bookkeeping[b - 1] = outFile[b + 1].size

\* queueDelete frees mutex, condition variables, buffers and streams only
\* after the last use of any of them.
NoUseAfterFree ==
    freed => /\ \A t \in Stages : pc[t] = "done"
             /\ \A s \in Slots : stream[s] # "busy"

\* The abstract stream: what the producer took in and what is in the file.
Stream == INSTANCE BlockStream WITH
    Capacity <- NumSlots,
    accepted <- iter["pro"],
    out <- [k \in 1 .. Len(outFile) |-> outFile[k].block],
    status <- proc

\* Whatever fails, the pipeline is a bounded first-in first-out stream, and
\* main returns only when all of it is in the file.
ImplementsStream == Stream!BSSpec

\* What can keep a thread from the mutex for ever: that others take it for
\* ever, which they do without passing a block on only in cpu_consumer's
\* unlock/lock loop and after spurious wakeups.
Starved(t) ==
    /\ <>[](At(t, "lock") \/ At(t, "relock"))
    /\ \/ []<><<NotReady("cpu")>>_vars
       \/ \E u \in Stages : []<><<SpuriousWakeup(u)>>_vars

\* The poll for device work that has failed.
PollsForEver == <>[](At("cpu", "sync") /\ stream[head["cpu"]] = "error")

\* The process ends, with the whole file or by a failure (ImplementsStream),
\* unless one of two things the code does not exclude happens: a thread is
\* starved at the mutex, or cpu_consumer polls a stream that has failed.  No
\* thread sleeps through its last signal, none is waited for by one that
\* waits for it, and main is not left in a join or in queueDelete's loop.
EndsUnlessStuck ==
    \/ <>(proc # "running")
    \/ \E t \in Stages : Starved(t)
    \/ PollsForEver
=============================================================================
