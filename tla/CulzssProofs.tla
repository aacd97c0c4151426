---------------------------- MODULE CulzssProofs ----------------------------
(***************************************************************************)
(* Proofs about Culzss for every number of blocks and slots, every block   *)
(* size and every set of packed lengths, whatever packings spill into what *)
(* lies behind their buffers, with and without faults: first types and the *)
(* ring, then the synchronisation of the threads, then the data that goes  *)
(* through the slots, the abstract stream, and at last what an interrupt   *)
(* leaves of it.                                                           *)
(***************************************************************************)
EXTENDS CulzssInv, CulzssInterrupt, PipelineLemmas

-----------------------------------------------------------------------------
(* Types; heads, counters and ledger.                                      *)

LEMMA InitType == Init => TypeOK
<1> SUFFICES ASSUME Init PROVE TypeOK
  OBVIOUS
<1>1. 0 \in Slots
  BY SlotsAssumption DEF Slots
<1>2. Empty \in Contents
  BY DEF Empty, Content, Contents, Forms
<1>3. pc \in [Threads -> Labels]
  BY DEF Init, Threads, Labels
<1>4. outFile \in Seq([block : {NoBlock} \cup 0 .. NumBlocks - 1,
                       form : Forms, size : Nat])
  BY DEF Init
<1>5. /\ iter \in [Stages -> 0 .. NumBlocks]
      /\ head \in [Stages -> Slots]
      /\ ledger \in [Slots -> 0 .. 3]
      /\ buf \in [Slots -> Contents] /\ bufout \in [Slots -> Contents]
      /\ outsize \in [Slots -> {0} \cup CompLens]
      /\ stream \in [Slots -> {"idle", "busy", "error"}] /\ spills \in 0 .. MaxSpills
      /\ bookkeeping \in [0 .. NumBlocks - 1 -> Nat \cup {Unset}]
  BY <1>1, <1>2, SizesAssumption DEF Init
<1> QED
  BY <1>2, <1>3, <1>4, <1>5 DEF Init, TypeOK

\* What PassOn does to the variables of the ring.
LEMMA PassOnType ==
    ASSUME TypeOK, NEW t \in Stages, iter[t] < NumBlocks, NEW val \in 0 .. 3,
           PassOn(t, val)
    PROVE  /\ pc' \in [Threads -> Labels]
           /\ iter' \in [Stages -> 0 .. NumBlocks]
           /\ head' \in [Stages -> Slots]
           /\ mut' \in Stages \cup {"free"}
           /\ ledger' \in [Slots -> 0 .. 3]
<1>1. iter[t] + 1 \in 0 .. NumBlocks
  BY SizesAssumption DEF TypeOK
<1>2. NextSlot(head[t]) \in Slots
  BY NextSlotType DEF TypeOK
<1> QED
  BY <1>1, <1>2 DEF TypeOK, PassOn, Goto, Labels

-----------------------------------------------------------------------------
(* The four stages and the ring.                                           *)

LEMMA StagesInOrder == StageOrder(Stages, Want, "snd")
BY DEF StageOrder, Stages, Want

LEMMA RingTypes ==
    ASSUME TypeOK
    PROVE  /\ iter \in [Stages -> Int] /\ head \in [Stages -> Slots]
           /\ ledger \in [Slots -> Nat]
           /\ \A t \in Stages : Want[t] \in 0 .. 3
<1>1. iter \in [Stages -> Int]
  BY SizesAssumption DEF TypeOK
<1>2. head \in [Stages -> Slots]
  BY DEF TypeOK
<1>3. ledger \in [Slots -> Nat]
  BY SMTT(30) DEF TypeOK
<1>4. \A t \in Stages : Want[t] \in 0 .. 3
  BY DEF Want, Stages
<1> QED
  BY <1>1, <1>2, <1>3, <1>4

\* A stage whose slot is ready is less than a turn ahead of the sender, its
\* head is where its lead says, and it is behind all earlier stages.
LEMMA ReadyPlace ==
    ASSUME TypeOK, RingInv, NEW t \in Stages, ledger[head[t]] = Want[t]
    PROVE  /\ 0 <= Lead(t) /\ Lead(t) < NumSlots
           /\ Dist(head[t]) = Lead(t)
           /\ \A u \in Stages : Want[u] < Want[t] => iter[t] < iter[u]
BY RingTypes, StagesInOrder, ReadySlot, SlotsAssumption DEF RingInv, Lead, Dist

\* The ring stays consistent when a stage passes its block on.
LEMMA PassOnRing ==
    ASSUME TypeOK, RingInv, NEW t \in Stages, ledger[head[t]] = Want[t],
           PassOn(t, IF t = "snd" THEN 0 ELSE Want[t] + 1)
    PROVE  RingInv'
<1>1. /\ iter' = [iter EXCEPT ![t] = iter[t] + 1]
      /\ head' = [head EXCEPT ![t] = NextSlot(head[t])]
      /\ ledger' = [ledger EXCEPT ![head[t]] = IF t = "snd" THEN 0 ELSE Want[t] + 1]
  BY DEF PassOn
<1>2. CASE t = "snd"
  BY <1>1, <1>2, RingTypes, StagesInOrder, ResetAgree DEF RingInv
<1>3. CASE t # "snd"
  BY <1>1, <1>3, RingTypes, StagesInOrder, IncrementAgree DEF RingInv
<1> QED
  BY <1>2, <1>3

-----------------------------------------------------------------------------
(* Type correctness.                                                       *)

LEMMA WantSuccType ==
    ASSUME TypeOK, LoopInv, ReadyInv, NEW t \in Stages, pc[t] \in Working
    PROVE  /\ iter[t] < NumBlocks
           /\ ledger[head[t]] = Want[t]
           /\ t # "snd" => ledger[head[t]] + 1 \in 0 .. 3
BY DEF LoopInv, ReadyInv, InLoop, Stages, Want

\* A move of one thread to another label keeps pc well typed.
LEMMA GotoType ==
    ASSUME TypeOK, NEW t \in Threads, NEW l \in Labels, Goto(t, l)
    PROVE  pc' \in [Threads -> Labels]
BY DEF Goto, TypeOK

LEMMA ChunkType ==
    ASSUME NEW c \in Contents, NEW n \in Nat
    PROVE  Chunk(c, n) \in [block : {NoBlock} \cup 0 .. NumBlocks - 1,
                            form : Forms, size : Nat]
BY DEF Contents, Chunk

LEMMA LoopStepType ==
    ASSUME TypeOK, LoopInv, ReadyInv, NEW t \in Stages, LoopStep(t)
    PROVE  TypeOK'
<1> USE DEF queueVars, dataVars, fileVars, endVars, At
<1>0. t \in Threads
  BY DEF Threads
<1>1. CASE Enter(t)
  BY <1>0, <1>1, GotoType DEF Enter, TypeOK, Labels
<1>2. CASE LoopEnd(t)
  BY <1>0, <1>2, GotoType DEF LoopEnd, TypeOK, Labels
<1>3. CASE Acquire(t)
  BY <1>0, <1>3, GotoType DEF Acquire, TypeOK, Labels
<1>4. CASE NotReady(t)
  BY <1>0, <1>4, GotoType DEF NotReady, TypeOK, Labels
<1>5. CASE CondWait(t)
  BY <1>0, <1>5, GotoType DEF CondWait, TypeOK, Labels
<1>6. CASE Ready(t)
  <2>1. WorkOf[t] \in Labels
    BY DEF Stages, WorkOf, Labels
  <2> QED
    BY <1>0, <1>6, <2>1, GotoType DEF Ready, TypeOK
<1>7. CASE Signal(t)
  <2>1. pc' \in [Threads -> Labels]
    BY <1>7 DEF Signal, TypeOK, Labels
  <2> QED
    BY <1>7, <2>1 DEF Signal, TypeOK
<1>8. CASE Publish(t)
  <2>1. t # "snd" /\ pc[t] \in Working
    BY <1>8 DEF Publish, Working
  <2>2. iter[t] < NumBlocks /\ ledger[head[t]] + 1 \in 0 .. 3
    BY <2>1, WantSuccType
  <2>3. PassOn(t, ledger[head[t]] + 1)
    BY <1>8 DEF Publish
  <2> QED
    BY <1>8, <2>2, <2>3, PassOnType DEF Publish, TypeOK
<1>9. CASE Finish(t)
  BY <1>0, <1>9, GotoType DEF Finish, TypeOK, Labels
<1> QED
  BY <1>1, <1>2, <1>3, <1>4, <1>5, <1>6, <1>7, <1>8, <1>9 DEF LoopStep

\* Contents stay contents.
LEMMA ContentTypes ==
    /\ \A b \in {NoBlock} \cup 0 .. NumBlocks - 1, f \in Forms : Content(b, f) \in Contents
    /\ \A c \in Contents : Packed(c) \in Contents /\ Content(c.block, "garbled") \in Contents
<1>1. \A b \in {NoBlock} \cup 0 .. NumBlocks - 1, f \in Forms : Content(b, f) \in Contents
  BY DEF Content, Contents
<1>2. \A c \in Contents : c.block \in {NoBlock} \cup 0 .. NumBlocks - 1
  BY DEF Contents
<1>3. \A c \in Contents : Packed(c) \in Contents /\ Content(c.block, "garbled") \in Contents
  BY <1>1, <1>2 DEF Packed, Forms
<1> QED
  BY <1>1, <1>3

\* What a packing leaves in the buffers: the slot's own are as it made them;
\* one of another slot may be spoilt, which is then on the record.
LEMMA PackEffect ==
    ASSUME TypeOK, NEW s \in Slots, NEW newbuf \in [Slots -> Contents],
           PackInto(s, newbuf)
    PROVE  /\ buf' \in [Slots -> Contents] /\ bufout' \in [Slots -> Contents]
           /\ spills' \in 0 .. MaxSpills
           /\ spills > 0 => spills' > 0
           /\ buf'[s] = newbuf[s] /\ bufout'[s] = bufout[s]
           /\ \A v \in Slots :
                 /\ \/ buf'[v] = newbuf[v]
                    \/ spills' > 0 /\ buf'[v].block = newbuf[v].block
                 /\ \/ bufout'[v] = bufout[v]
                    \/ spills' > 0 /\ bufout'[v].block = bufout[v].block
<1>0. /\ bufout \in [Slots -> Contents] /\ spills \in 0 .. MaxSpills /\ MaxSpills \in Nat
      /\ buf \in [Slots -> Contents]
  BY SizesAssumption DEF TypeOK
<1>1. CASE buf' = newbuf /\ bufout' = bufout /\ spills' = spills
  BY <1>0, <1>1
<1>2. CASE /\ spills < MaxSpills
           /\ spills' = spills + 1
           /\ \E v \in Slots :
                 \/ /\ <<"buf", v>> \in Behind[s]
                    /\ buf' = [newbuf EXCEPT ![v] = Spoilt(@)]
                    /\ bufout' = bufout
                 \/ /\ <<"bufout", v>> \in Behind[s]
                    /\ buf' = newbuf
                    /\ bufout' = [bufout EXCEPT ![v] = Spoilt(@)]
  <2>1. PICK v \in Slots :
           \/ /\ <<"buf", v>> \in Behind[s]
              /\ buf' = [newbuf EXCEPT ![v] = Spoilt(@)]
              /\ bufout' = bufout
           \/ /\ <<"bufout", v>> \in Behind[s]
              /\ buf' = newbuf
              /\ bufout' = [bufout EXCEPT ![v] = Spoilt(@)]
    BY <1>2
  <2>2. v # s
    <3>1. \A b \in Behind[s] : b[2] # s
      BY BehindAssumption
    <3>2. <<"buf", v>>[2] = v /\ <<"bufout", v>>[2] = v
      OBVIOUS
    <3> QED
      BY <2>1, <3>1, <3>2
  <2>3. spills' \in 0 .. MaxSpills /\ spills' > 0
    BY <1>0, <1>2
  <2>4. \A c \in Contents : Spoilt(c) \in Contents /\ Spoilt(c).block = c.block
    BY ContentTypes DEF Spoilt, Content
  <2>5. CASE buf' = [newbuf EXCEPT ![v] = Spoilt(@)] /\ bufout' = bufout
    <3>1. \A u \in Slots : buf'[u] = IF u = v THEN Spoilt(newbuf[v]) ELSE newbuf[u]
      BY <2>5
    <3>2. buf' \in [Slots -> Contents]
      BY <2>4, <2>5
    <3> QED
      BY <1>0, <2>2, <2>3, <2>4, <2>5, <3>1, <3>2
  <2>6. CASE buf' = newbuf /\ bufout' = [bufout EXCEPT ![v] = Spoilt(@)]
    <3>1. \A u \in Slots : bufout'[u] = IF u = v THEN Spoilt(bufout[v]) ELSE bufout[u]
      BY <1>0, <2>6
    <3>2. bufout' \in [Slots -> Contents]
      BY <1>0, <2>4, <2>6
    <3> QED
      BY <1>0, <2>2, <2>3, <2>4, <2>6, <3>1, <3>2
  <2> QED
    BY <2>1, <2>5, <2>6
<1> QED
  BY <1>1, <1>2 DEF PackInto

LEMMA WorkStepType ==
    ASSUME TypeOK, LoopInv, ReadyInv, NEW t \in Stages, WorkStep(t)
    PROVE  TypeOK'
<1> USE DEF queueVars, dataVars, fileVars, endVars, At
<1>0. /\ {"pro", "gpu", "cpu", "snd"} \subseteq Threads
      /\ {"pro", "gpu", "cpu", "snd"} = Stages
      /\ \A u \in Stages : head[u] \in Slots
      /\ \A s \in Slots : buf[s] \in Contents /\ bufout[s] \in Contents
  BY DEF Threads, Stages, TypeOK
<1>1. CASE ProducerOpen
  BY <1>0, <1>1, GotoType DEF ProducerOpen, TypeOK, Labels
<1>2. CASE ProducerFill
  <2>1. pc["pro"] \in Working
    BY <1>2 DEF ProducerFill, Working
  <2>2. iter["pro"] < NumBlocks /\ ledger[head["pro"]] + 1 \in 0 .. 3
    BY <1>0, <2>1, WantSuccType
  <2>3. PassOn("pro", ledger[head["pro"]] + 1)
    BY <1>2 DEF ProducerFill
  <2>4. iter["pro"] \in 0 .. NumBlocks - 1
    BY <1>0, <2>2, SizesAssumption DEF TypeOK
  <2>5. Content(iter["pro"], "raw") \in Contents
    BY <2>4, ContentTypes DEF Forms
  <2>6. buf' \in [Slots -> Contents]
    BY <1>2, <2>5 DEF ProducerFill, TypeOK
  <2> QED
    BY <1>0, <1>2, <2>2, <2>3, <2>6, PassOnType DEF ProducerFill, TypeOK
<1>3. CASE GpuIssue
  BY <1>0, <1>3, GotoType DEF GpuIssue, TypeOK, Labels
<1>4. CASE CpuSync
  BY <1>0, <1>4, GotoType DEF CpuSync, TypeOK, Labels
<1>5. CASE CpuBackup
  BY <1>0, <1>5, GotoType DEF CpuBackup, TypeOK, Labels
<1>6. CASE CpuPackFits
  <2> DEFINE new == [buf EXCEPT ![head["cpu"]] = Packed(bufout[head["cpu"]])]
  <2>1. Packed(bufout[head["cpu"]]) \in Contents
    BY <1>0, ContentTypes
  <2>2. new \in [Slots -> Contents]
    BY <2>1 DEF TypeOK
  <2>3. PackInto(head["cpu"], new)
    BY <1>6 DEF CpuPackFits
  <2>4. /\ buf' \in [Slots -> Contents] /\ bufout' \in [Slots -> Contents]
        /\ spills' \in 0 .. MaxSpills
    <3> HIDE DEF new
    <3> QED
      BY <1>0, <2>2, <2>3, PackEffect
  <2>5. outsize' \in [Slots -> {0} \cup CompLens]
    BY <1>6, ZenonT(30) DEF CpuPackFits, TypeOK
  <2> QED
    BY <1>0, <1>6, <2>4, <2>5, GotoType DEF CpuPackFits, TypeOK, Labels
<1>7. CASE CpuPackFails
  <2> DEFINE new == [buf EXCEPT ![head["cpu"]] = Spoilt(@)]
  <2>1. Spoilt(buf[head["cpu"]]) \in Contents
    BY <1>0, ContentTypes DEF Spoilt
  <2>2. new \in [Slots -> Contents]
    BY <2>1 DEF TypeOK
  <2>3. PackInto(head["cpu"], new)
    BY <1>7 DEF CpuPackFails
  <2>4. /\ buf' \in [Slots -> Contents] /\ bufout' \in [Slots -> Contents]
        /\ spills' \in 0 .. MaxSpills
    <3> HIDE DEF new
    <3> QED
      BY <1>0, <2>2, <2>3, PackEffect
  <2> QED
    BY <1>0, <1>7, <2>4, GotoType DEF CpuPackFails, TypeOK, Labels
<1>8. CASE CpuRestore
  BY <1>0, <1>8, GotoType DEF CpuRestore, TypeOK, Labels
<1>9. CASE SenderOpen
  BY <1>0, <1>9, GotoType DEF SenderOpen, TypeOK, Labels
<1>10. CASE SenderSend
  <2> DEFINE s == head["snd"]
             i == iter["snd"]
  <2>1. pc["snd"] \in Working
    BY <1>10 DEF SenderSend, Working
  <2>2. i < NumBlocks /\ i \in 0 .. NumBlocks - 1
    BY <1>0, <2>1, WantSuccType, SizesAssumption DEF TypeOK
  <2>3. SendSize(s) \in Nat \ {0}
    BY <1>0, FormatAssumption DEF SendSize, TypeOK
  <2>4. OffsetBefore(i) \in Nat \cup {Unset}
    BY <2>2, SizesAssumption DEF OffsetBefore, TypeOK
  <2>5. SendSize(s) + OffsetBefore(i) \in Nat
    BY <2>3, <2>4 DEF Unset
  <2>6. bookkeeping' \in [0 .. NumBlocks - 1 -> Nat \cup {Unset}]
    BY <1>10, <2>5 DEF SenderSend, TypeOK
  <2>7. Chunk(buf[s], SendSize(s)) \in [block : {NoBlock} \cup 0 .. NumBlocks - 1,
                                       form : Forms, size : Nat]
    BY <1>0, <2>3, ChunkType
  <2>8. outFile' \in Seq([block : {NoBlock} \cup 0 .. NumBlocks - 1,
                         form : Forms, size : Nat])
    BY <1>10, <2>7 DEF SenderSend, TypeOK
  <2>9. PassOn("snd", 0)
    BY <1>10 DEF SenderSend
  <2> QED
    BY <1>0, <1>10, <2>2, <2>6, <2>8, <2>9, PassOnType, SMTT(30)
    DEF SenderSend, TypeOK
<1> QED
  BY <1>1, <1>2, <1>3, <1>4, <1>5, <1>6, <1>7, <1>8, <1>9, <1>10 DEF WorkStep

LEMMA OtherStepType ==
    ASSUME TypeOK,
           \/ \E t \in Stages : SpuriousWakeup(t) \/ Fail(t)
           \/ \E s \in Slots : DeviceRun(s) \/ DeviceError(s)
           \/ MainStep
    PROVE  TypeOK'
<1> USE DEF queueVars, dataVars, fileVars, endVars, At
<1>0. Stages \subseteq Threads /\ "main" \in Threads
  BY DEF Threads
<1>1. ASSUME NEW t \in Stages, SpuriousWakeup(t)
      PROVE  TypeOK'
  BY <1>0, <1>1, GotoType DEF SpuriousWakeup, TypeOK, Labels
<1>2. ASSUME NEW t \in Stages, Fail(t)
      PROVE  TypeOK'
  BY <1>2 DEF Fail, TypeOK
<1>3. ASSUME NEW s \in Slots, DeviceRun(s) \/ DeviceError(s)
      PROVE  TypeOK'
  BY <1>3 DEF DeviceRun, DeviceError, TypeOK
<1>4. CASE JoinConsumers
  BY <1>0, <1>4, GotoType DEF JoinConsumers, TypeOK, Labels
<1>5. CASE JoinProducer
  BY <1>0, <1>5, GotoType DEF JoinProducer, TypeOK, Labels
<1>6. CASE SignalExit
  BY <1>0, <1>6, GotoType DEF SignalExit, TypeOK, Labels
<1>7. CASE QueueDelete
  BY <1>0, <1>7, GotoType DEF QueueDelete, TypeOK, Labels
<1>8. CASE MainReturn
  BY <1>0, <1>8, GotoType DEF MainReturn, TypeOK, Labels
<1> QED
  BY <1>1, <1>2, <1>3, <1>4, <1>5, <1>6, <1>7, <1>8 DEF MainStep

-----------------------------------------------------------------------------
(* The ring invariant.                                                     *)

\* A step that leaves the ring alone: it is enough to look at the labels.
LEMMA QuietRing ==
    ASSUME RingIInv, UNCHANGED queueVars,
           \A u \in Stages : pc'[u] \in InLoop => pc[u] \in InLoop \/ iter[u] < NumBlocks,
           \A u \in Stages : pc'[u] \in Working =>
               pc[u] \in Working \/ ledger[head[u]] = Want[u]
    PROVE  LoopInv' /\ ReadyInv' /\ RingInv'
<1>1. LoopInv'
  BY DEF RingIInv, LoopInv, queueVars
<1>2. ReadyInv'
  BY DEF RingIInv, ReadyInv, queueVars
<1>3. RingInv'
  BY DEF RingIInv, RingInv, queueVars, Lead, Dist
<1> QED
  BY <1>1, <1>2, <1>3

\* A step that passes a block on.
LEMMA PassOnRingIInv ==
    ASSUME RingIInv, NEW t \in Stages, pc[t] \in Working,
           PassOn(t, IF t = "snd" THEN 0 ELSE ledger[head[t]] + 1)
    PROVE  LoopInv' /\ ReadyInv' /\ RingInv'
<1>1. ledger[head[t]] = Want[t]
  BY DEF RingIInv, ReadyInv
<1>2. RingInv'
  BY <1>1, PassOnRing DEF RingIInv
<1>3. /\ \A u \in Stages : pc'[u] = IF u = t THEN "signal" ELSE pc[u]
      /\ \A u \in Stages \ {t} : iter'[u] = iter[u] /\ head'[u] = head[u]
  BY DEF RingIInv, PassOn, Goto, TypeOK, Threads
<1>4. LoopInv'
  BY <1>3 DEF RingIInv, LoopInv, InLoop, Working
<1>5. ReadyInv'
  <2> SUFFICES ASSUME NEW u \in Stages, pc'[u] \in Working
               PROVE  ledger'[head'[u]] = Want[u]
    BY DEF ReadyInv
  <2>1. u # t /\ pc[u] \in Working
    BY <1>3 DEF Working
  <2>2. ledger[head[u]] = Want[u] /\ head'[u] = head[u]
    BY <2>1, <1>3 DEF RingIInv, ReadyInv
  <2>3. Want[u] # Want[t]
    BY <2>1 DEF Want, Stages
  <2>4. head[u] # head[t] /\ head[u] \in Slots
    BY <1>1, <2>2, <2>3 DEF RingIInv, TypeOK
  <2>5. ledger'[head[u]] = ledger[head[u]]
    BY <2>4 DEF PassOn, RingIInv, TypeOK
  <2> QED
    BY <2>2, <2>5
<1> QED
  BY <1>2, <1>4, <1>5

LEMMA LoopStepRing ==
    ASSUME RingIInv, NEW t \in Stages, LoopStep(t)
    PROVE  LoopInv' /\ ReadyInv' /\ RingInv'
<1> USE DEF At, InLoop, Working
<1>0. pc \in [Threads -> Labels] /\ t \in Threads /\ Stages \subseteq Threads
  BY DEF RingIInv, TypeOK, Threads
<1>1. CASE Enter(t)
  BY <1>0, <1>1, QuietRing DEF Enter, Goto
<1>2. CASE LoopEnd(t)
  BY <1>0, <1>2, QuietRing DEF LoopEnd, Goto
<1>3. CASE Acquire(t)
  BY <1>0, <1>3, QuietRing DEF Acquire, Goto
<1>4. CASE NotReady(t)
  BY <1>0, <1>4, QuietRing DEF NotReady, Goto
<1>5. CASE CondWait(t)
  BY <1>0, <1>5, QuietRing DEF CondWait, Goto
<1>6. CASE Ready(t)
  BY <1>0, <1>6, QuietRing DEF Ready, Goto
<1>7. CASE Signal(t)
  BY <1>0, <1>7, QuietRing DEF Signal
<1>8. CASE Publish(t)
  BY <1>8, PassOnRingIInv DEF Publish
<1>9. CASE Finish(t)
  BY <1>0, <1>9, QuietRing DEF Finish, Goto
<1> QED
  BY <1>1, <1>2, <1>3, <1>4, <1>5, <1>6, <1>7, <1>8, <1>9 DEF LoopStep

LEMMA WorkStepRing ==
    ASSUME RingIInv, NEW t \in Stages, WorkStep(t)
    PROVE  LoopInv' /\ ReadyInv' /\ RingInv'
<1> USE DEF At, InLoop, Working
<1>0. /\ pc \in [Threads -> Labels] /\ Stages \subseteq Threads
      /\ {"pro", "gpu", "cpu", "snd"} \subseteq Stages
  BY DEF RingIInv, TypeOK, Threads, Stages
<1>1. CASE ProducerOpen
  BY <1>0, <1>1, QuietRing DEF ProducerOpen, Goto
<1>2. CASE ProducerFill
  BY <1>0, <1>2, PassOnRingIInv DEF ProducerFill
<1>3. CASE GpuIssue
  BY <1>0, <1>3, QuietRing DEF GpuIssue, Goto
<1>4. CASE CpuSync
  BY <1>0, <1>4, QuietRing DEF CpuSync, Goto
<1>5. CASE CpuBackup
  BY <1>0, <1>5, QuietRing DEF CpuBackup, Goto
<1>6. CASE CpuPackFits
  BY <1>0, <1>6, QuietRing DEF CpuPackFits, Goto
<1>7. CASE CpuPackFails
  BY <1>0, <1>7, QuietRing DEF CpuPackFails, Goto
<1>8. CASE CpuRestore
  BY <1>0, <1>8, QuietRing DEF CpuRestore, Goto
<1>9. CASE SenderOpen
  BY <1>0, <1>9, QuietRing DEF SenderOpen, Goto
<1>10. CASE SenderSend
  BY <1>0, <1>10, PassOnRingIInv DEF SenderSend
<1> QED
  BY <1>1, <1>2, <1>3, <1>4, <1>5, <1>6, <1>7, <1>8, <1>9, <1>10 DEF WorkStep

LEMMA OtherStepRing ==
    ASSUME RingIInv,
           \/ \E t \in Stages : SpuriousWakeup(t) \/ Fail(t)
           \/ \E s \in Slots : DeviceRun(s) \/ DeviceError(s)
           \/ MainStep
    PROVE  LoopInv' /\ ReadyInv' /\ RingInv'
<1> USE DEF At, InLoop, Working
<1>0. /\ pc \in [Threads -> Labels] /\ Stages \subseteq Threads
      /\ "main" \in Threads /\ "main" \notin Stages
  BY DEF RingIInv, TypeOK, Threads, Stages
<1>1. ASSUME NEW t \in Stages, SpuriousWakeup(t)
      PROVE  LoopInv' /\ ReadyInv' /\ RingInv'
  BY <1>0, <1>1, QuietRing DEF SpuriousWakeup, Goto
<1>2. ASSUME NEW t \in Stages, Fail(t)
      PROVE  LoopInv' /\ ReadyInv' /\ RingInv'
  BY <1>2, QuietRing DEF Fail
<1>3. ASSUME NEW s \in Slots, DeviceRun(s) \/ DeviceError(s)
      PROVE  LoopInv' /\ ReadyInv' /\ RingInv'
  BY <1>3, QuietRing DEF DeviceRun, DeviceError
<1>4. CASE MainStep
  <2>1. \A u \in Stages : pc'[u] = pc[u]
    BY <1>0, <1>4 DEF MainStep, JoinConsumers, JoinProducer, SignalExit,
                      QueueDelete, MainReturn, Goto
  <2>2. UNCHANGED queueVars
    BY <1>4 DEF MainStep, JoinConsumers, JoinProducer, SignalExit,
                QueueDelete, MainReturn
  <2> QED
    BY <2>1, <2>2, QuietRing
<1> QED
  BY <1>1, <1>2, <1>3, <1>4

LEMMA RingInit == Init => RingIInv
<1> SUFFICES ASSUME Init PROVE RingIInv
  OBVIOUS
<1>1. TypeOK
  BY InitType
<1>2. \A t \in Stages : pc[t] \in {"open", "top"}
  BY DEF Init, Stages, Threads
<1>3. LoopInv /\ ReadyInv
  BY <1>2 DEF LoopInv, ReadyInv, InLoop, Working
<1>4. RingInv
  BY StagesInOrder, InitAgree DEF Init, RingInv
<1> QED
  BY <1>1, <1>3, <1>4 DEF RingIInv

LEMMA RingStep == RingIInv /\ [Next]_vars => RingIInv'
<1> SUFFICES ASSUME RingIInv, [Next]_vars PROVE RingIInv'
  OBVIOUS
<1>1. TypeOK /\ LoopInv /\ ReadyInv /\ RingInv
  BY DEF RingIInv
<1>2. ASSUME NEW t \in Stages, StageStep(t)
      PROVE  RingIInv'
  BY <1>1, <1>2, LoopStepType, LoopStepRing, WorkStepType, WorkStepRing
  DEF StageStep, RingIInv
<1>3. ASSUME \/ \E t \in Stages : SpuriousWakeup(t) \/ Fail(t)
             \/ \E s \in Slots : DeviceRun(s) \/ DeviceError(s)
             \/ MainStep
      PROVE  RingIInv'
  BY <1>1, <1>3, OtherStepType, OtherStepRing DEF RingIInv
<1>4. CASE UNCHANGED vars
  <2>1. TypeOK'
    BY <1>1, <1>4 DEF TypeOK, vars, queueVars, dataVars, fileVars, endVars
  <2>2. UNCHANGED <<pc, queueVars>>
    BY <1>4 DEF vars
  <2>3. LoopInv' /\ ReadyInv' /\ RingInv'
    BY <2>2, QuietRing
  <2> QED
    BY <2>1, <2>3 DEF RingIInv
<1> QED
  BY <1>2, <1>3, <1>4 DEF Next

\* Every variable keeps its type: heads, loop counters and the ledger never
\* leave their ranges, for any ring and any file.
THEOREM TypeCorrect == Spec => []TypeOK
<1>1. RingIInv => TypeOK
  BY DEF RingIInv
<1> QED
  BY <1>1, RingInit, RingStep, PTL DEF Spec

\* The private heads, the loop counters and the shared ledger always agree.
THEOREM RingConsistent == Spec => []RingInv
<1>1. RingIInv => RingInv
  BY DEF RingIInv
<1> QED
  BY <1>1, RingInit, RingStep, PTL DEF Spec

-----------------------------------------------------------------------------
(* The mutex, the condition variables, and who uses the buffers of a slot. *)

\* How a step of thread t may deal with the mutex.
LEMMA MutexStep ==
    ASSUME MutexInv, NEW t \in Stages,
           \A u \in Stages \ {t} : pc'[u] \in Held => pc[u] \in Held,
           \/ mut' = mut /\ (pc'[t] \in Held => pc[t] \in Held)
           \/ mut = "free" /\ mut' = t
           \/ pc[t] \in Held /\ pc'[t] \notin Held
    PROVE  MutexInv'
BY DEF MutexInv, Held, Stages

\* A step that leaves ring and mutex alone and moves no thread into a
\* critical section, to sleep, or past its signal.
LEMMA QuietWait ==
    ASSUME WaitInv, UNCHANGED <<mut, queueVars>>,
           \A u \in Stages : /\ pc'[u] \in Held \cup {"wait"} => pc'[u] = pc[u]
                             /\ pc[u] = "signal" => pc'[u] = pc[u]
    PROVE  WaitInv'
<1>1. MutexInv'
  BY DEF WaitInv, MutexInv, Held
<1>2. SleepInv'
  BY DEF WaitInv, SleepInv, queueVars, Held
<1>3. NoLostWakeup'
  BY DEF WaitInv, NoLostWakeup, queueVars, Held, Stages, SignallerOf
<1> QED
  BY <1>1, <1>2, <1>3 DEF WaitInv

LEMMA PassOnWait ==
    ASSUME RingIInv, WaitInv, NEW t \in Stages, pc[t] \in {"fill", "publish"},
           PassOn(t, IF t = "snd" THEN 0 ELSE ledger[head[t]] + 1)
    PROVE  WaitInv'
<1>1. ledger[head[t]] = Want[t]
  BY DEF RingIInv, ReadyInv, Working
<1>2. mut = t
  BY DEF WaitInv, MutexInv, Held
<1>3. /\ \A u \in Stages : pc'[u] = IF u = t THEN "signal" ELSE pc[u]
      /\ \A u \in Stages \ {t} : head'[u] = head[u] /\ head[u] \in Slots
      /\ \A s \in Slots : ledger'[s] =
            IF s = head[t] THEN (IF t = "snd" THEN 0 ELSE Want[t] + 1) ELSE ledger[s]
      /\ mut' = "free"
  BY <1>1 DEF RingIInv, PassOn, Goto, TypeOK, Threads
<1>4. MutexInv' /\ SleepInv'
  BY <1>2, <1>3 DEF WaitInv, MutexInv, Held, SleepInv, Stages
<1>5. NoLostWakeup'
  <2> SUFFICES ASSUME NEW u \in {"pro", "gpu", "snd"},
                      pc'[u] = "wait", ledger'[head'[u]] = Want[u]
               PROVE  pc'[SignallerOf[u]] = "signal"
    BY DEF NoLostWakeup
  <2>1. u \in Stages \ {t} /\ pc[u] = "wait" /\ head'[u] = head[u] /\ head[u] \in Slots
    BY <1>3 DEF Stages
  <2>2. SignallerOf[u] \in Stages
    BY DEF SignallerOf, Stages
  <2>3. CASE head[u] = head[t]
    <3>1. Want[u] = IF t = "snd" THEN 0 ELSE Want[t] + 1
      BY <2>1, <2>3, <1>3
    <3>2. t = SignallerOf[u]
      BY <3>1, <2>1 DEF Want, SignallerOf, Stages
    <3> QED
      BY <3>2, <1>3
  <2>4. CASE head[u] # head[t]
    <3>1. ledger[head[u]] = Want[u]
      BY <2>1, <2>4, <1>3
    <3>2. pc[SignallerOf[u]] = "signal"
      BY <3>1, <2>1 DEF WaitInv, NoLostWakeup
    <3> QED
      BY <3>2, <2>2, <1>3
  <2> QED
    BY <2>3, <2>4
<1> QED
  BY <1>4, <1>5 DEF WaitInv

LEMMA LoopStepWait ==
    ASSUME RingIInv, WaitInv, NEW t \in Stages, LoopStep(t)
    PROVE  WaitInv'
<1> USE DEF At, Held
<1>0. pc \in [Threads -> Labels] /\ t \in Threads /\ Stages \subseteq Threads
  BY DEF RingIInv, TypeOK, Threads
<1>1. CASE Enter(t)
  BY <1>0, <1>1, QuietWait DEF Enter, Goto
<1>2. CASE LoopEnd(t)
  BY <1>0, <1>2, QuietWait DEF LoopEnd, Goto
<1>3. CASE Acquire(t)
  <2>1. \A u \in Stages \ {t} : pc'[u] = pc[u]
    BY <1>0, <1>3 DEF Acquire, Goto
  <2>2. pc'[t] \in {"test", "publish"} /\ pc[t] \in {"lock", "relock"}
    BY <1>0, <1>3 DEF Acquire, Goto
  <2>3. MutexInv'
    BY <1>3, <2>1, MutexStep DEF Acquire, WaitInv
  <2>4. SleepInv'
    BY <1>3, <2>1, <2>2 DEF Acquire, WaitInv, SleepInv, queueVars
  <2>5. NoLostWakeup'
    BY <1>3, <2>1, <2>2 DEF Acquire, WaitInv, NoLostWakeup, queueVars, Stages, SignallerOf
  <2> QED
    BY <2>3, <2>4, <2>5 DEF WaitInv
<1>4. CASE NotReady(t)
  <2>1. \A u \in Stages \ {t} : pc'[u] = pc[u]
    BY <1>0, <1>4 DEF NotReady, Goto
  <2>2. pc'[t] \in {"lock", "sleep"} /\ pc[t] = "test"
    BY <1>0, <1>4 DEF NotReady, Goto
  <2>3. MutexInv'
    BY <1>0, <1>4, <2>1, <2>2, MutexStep DEF NotReady, WaitInv, Goto
  <2>4. SleepInv'
    BY <1>4, <2>1, <2>2 DEF NotReady, WaitInv, SleepInv, queueVars
  <2>5. NoLostWakeup'
    BY <1>4, <2>1, <2>2 DEF NotReady, WaitInv, NoLostWakeup, queueVars, Stages, SignallerOf
  <2> QED
    BY <2>3, <2>4, <2>5 DEF WaitInv
<1>5. CASE CondWait(t)
  <2>1. \A u \in Stages \ {t} : pc'[u] = pc[u]
    BY <1>0, <1>5 DEF CondWait, Goto
  <2>2. pc'[t] = "wait" /\ pc[t] = "sleep"
    BY <1>0, <1>5 DEF CondWait, Goto
  <2>3. MutexInv'
    BY <1>5, <2>1, <2>2, MutexStep DEF CondWait, WaitInv
  <2>4. SleepInv'
    BY <1>5, <2>1, <2>2 DEF CondWait, WaitInv, SleepInv, queueVars
  <2>5. ledger[head[t]] # Want[t]
    BY <2>2 DEF WaitInv, SleepInv
  <2>6. NoLostWakeup'
    BY <1>5, <2>1, <2>2, <2>5
    DEF CondWait, WaitInv, NoLostWakeup, queueVars, Stages, SignallerOf
  <2> QED
    BY <2>3, <2>4, <2>6 DEF WaitInv
<1>6. CASE Ready(t)
  <2>1. \A u \in Stages \ {t} : pc'[u] = pc[u]
    BY <1>0, <1>6 DEF Ready, Goto
  <2>2. /\ pc'[t] = WorkOf[t] /\ pc[t] = "test"
        /\ WorkOf[t] \in {"fill", "issue", "sync", "relock"}
        /\ t # "pro" => WorkOf[t] # "fill"
    BY <1>0, <1>6 DEF Ready, Goto, WorkOf, Stages
  <2>3. MutexInv'
    <3>1. mut = t
      BY <2>2 DEF WaitInv, MutexInv
    <3>2. CASE t = "pro"
      BY <1>6, <2>1, <2>2, <3>1, <3>2, MutexStep DEF Ready, WaitInv
    <3>3. CASE t # "pro"
      BY <1>6, <2>1, <2>2, <3>3, MutexStep DEF Ready, WaitInv
    <3> QED
      BY <3>2, <3>3
  <2>4. SleepInv'
    BY <1>6, <2>1, <2>2 DEF Ready, WaitInv, SleepInv, queueVars
  <2>5. NoLostWakeup'
    BY <1>6, <2>1, <2>2 DEF Ready, WaitInv, NoLostWakeup, queueVars, Stages, SignallerOf
  <2> QED
    BY <2>3, <2>4, <2>5 DEF WaitInv
<1>7. CASE Signal(t)
  <2>1. \A u \in Stages : pc'[u] =
           IF u = t THEN "top"
           ELSE IF u = WaiterOf[t] /\ pc[u] = "wait" THEN "lock" ELSE pc[u]
    BY <1>0, <1>7 DEF Signal
  <2>2. MutexInv'
    BY <1>7, <2>1 DEF Signal, WaitInv, MutexInv
  <2>3. SleepInv'
    BY <1>7, <2>1 DEF Signal, WaitInv, SleepInv, queueVars
  <2>4. \A u \in {"pro", "gpu", "snd"} : SignallerOf[u] = t => u = WaiterOf[t]
    BY DEF SignallerOf, WaiterOf, Stages
  <2>5. NoLostWakeup'
    BY <1>7, <2>1, <2>4
    DEF Signal, WaitInv, NoLostWakeup, queueVars, Stages, SignallerOf
  <2> QED
    BY <2>2, <2>3, <2>5 DEF WaitInv
<1>8. CASE Publish(t)
  BY <1>8, PassOnWait DEF Publish
<1>9. CASE Finish(t)
  BY <1>0, <1>9, QuietWait DEF Finish, Goto
<1> QED
  BY <1>1, <1>2, <1>3, <1>4, <1>5, <1>6, <1>7, <1>8, <1>9 DEF LoopStep

LEMMA WorkStepWait ==
    ASSUME RingIInv, WaitInv, NEW t \in Stages, WorkStep(t)
    PROVE  WaitInv'
<1> USE DEF At, Held
<1>0. /\ pc \in [Threads -> Labels] /\ Stages \subseteq Threads
      /\ {"pro", "gpu", "cpu", "snd"} \subseteq Stages
  BY DEF RingIInv, TypeOK, Threads, Stages
<1>1. CASE ProducerOpen
  BY <1>0, <1>1, QuietWait DEF ProducerOpen, Goto
<1>2. CASE ProducerFill
  BY <1>0, <1>2, PassOnWait DEF ProducerFill
<1>3. CASE GpuIssue
  BY <1>0, <1>3, QuietWait DEF GpuIssue, Goto
<1>4. CASE CpuSync
  BY <1>0, <1>4, QuietWait DEF CpuSync, Goto
<1>5. CASE CpuBackup
  BY <1>0, <1>5, QuietWait DEF CpuBackup, Goto
<1>6. CASE CpuPackFits
  BY <1>0, <1>6, QuietWait DEF CpuPackFits, Goto
<1>7. CASE CpuPackFails
  BY <1>0, <1>7, QuietWait DEF CpuPackFails, Goto
<1>8. CASE CpuRestore
  BY <1>0, <1>8, QuietWait DEF CpuRestore, Goto
<1>9. CASE SenderOpen
  BY <1>0, <1>9, QuietWait DEF SenderOpen, Goto
<1>10. CASE SenderSend
  BY <1>0, <1>10, PassOnWait DEF SenderSend
<1> QED
  BY <1>1, <1>2, <1>3, <1>4, <1>5, <1>6, <1>7, <1>8, <1>9, <1>10 DEF WorkStep

\* What main does, as far as the stages can see.
LEMMA MainQuiet ==
    ASSUME TypeOK, MainStep
    PROVE  /\ \A u \in Stages : pc'[u] = pc[u]
           /\ UNCHANGED <<mut, queueVars, dataVars, stream, fileVars>>
<1>1. pc \in [Threads -> Labels] /\ Stages \subseteq Threads /\ "main" \notin Stages
  BY DEF TypeOK, Threads, Stages
<1>2. \A u \in Stages : pc'[u] = pc[u]
  BY <1>1 DEF MainStep, JoinConsumers, JoinProducer, SignalExit, QueueDelete,
              MainReturn, Goto
<1> QED
  BY <1>2 DEF MainStep, JoinConsumers, JoinProducer, SignalExit, QueueDelete,
              MainReturn

LEMMA OtherStepWait ==
    ASSUME RingIInv, WaitInv,
           \/ \E t \in Stages : SpuriousWakeup(t) \/ Fail(t)
           \/ \E s \in Slots : DeviceRun(s) \/ DeviceError(s)
           \/ MainStep
    PROVE  WaitInv'
<1> USE DEF At, Held
<1>0. /\ pc \in [Threads -> Labels] /\ Stages \subseteq Threads /\ TypeOK
  BY DEF RingIInv, TypeOK, Threads, Stages
<1>1. ASSUME NEW t \in Stages, SpuriousWakeup(t)
      PROVE  WaitInv'
  BY <1>0, <1>1, QuietWait DEF SpuriousWakeup, Goto
<1>2. ASSUME NEW t \in Stages, Fail(t)
      PROVE  WaitInv'
  BY <1>2, QuietWait DEF Fail
<1>3. ASSUME NEW s \in Slots, DeviceRun(s) \/ DeviceError(s)
      PROVE  WaitInv'
  BY <1>3, QuietWait DEF DeviceRun, DeviceError
<1>4. CASE MainStep
  BY <1>0, <1>4, MainQuiet, QuietWait
<1> QED
  BY <1>1, <1>2, <1>3, <1>4

LEMMA WaitInit == Init => WaitInv
BY DEF Init, WaitInv, MutexInv, Held, SleepInv, NoLostWakeup, Stages, Threads

LEMMA WaitStep == RingIInv /\ WaitInv /\ [Next]_vars => WaitInv'
<1> SUFFICES ASSUME RingIInv, WaitInv, [Next]_vars PROVE WaitInv'
  OBVIOUS
<1>1. ASSUME NEW t \in Stages, StageStep(t)
      PROVE  WaitInv'
  BY <1>1, LoopStepWait, WorkStepWait DEF StageStep
<1>2. ASSUME \/ \E t \in Stages : SpuriousWakeup(t) \/ Fail(t)
             \/ \E s \in Slots : DeviceRun(s) \/ DeviceError(s)
             \/ MainStep
      PROVE  WaitInv'
  BY <1>2, OtherStepWait
<1>3. CASE UNCHANGED vars
  BY <1>3, QuietWait DEF vars
<1> QED
  BY <1>1, <1>2, <1>3 DEF Next

\* No thread sleeps on while its slot is ready: whoever made it ready is
\* about to signal it.  This needs the mutex to cover both the test of the
\* ledger with the going to sleep, and the update of the ledger.
THEOREM WakeupsNotLost == Spec => []NoLostWakeup
<1>1. Init => RingIInv /\ WaitInv
  BY RingInit, WaitInit
<1>2. RingIInv /\ WaitInv /\ [Next]_vars => (RingIInv /\ WaitInv)'
  BY RingStep, WaitStep
<1>3. WaitInv => NoLostWakeup
  BY DEF WaitInv
<1> QED
  BY <1>1, <1>2, <1>3, PTL DEF Spec

-----------------------------------------------------------------------------
(* Start and end of the threads.                                           *)

\* A step of stage t, seen from the other threads: a stage moves itself, or
\* wakes a sleeping one; it never leaves "done", and reaches it only from
\* "finish".
LEMMA StageMoves ==
    ASSUME TypeOK, NEW t \in Stages, StageStep(t)
    PROVE  /\ pc'["main"] = pc["main"] /\ pc[t] # "done"
           /\ \A u \in Stages \ {t} :
                 pc'[u] = pc[u] \/ (pc[u] = "wait" /\ pc'[u] = "lock")
<1>1. pc \in [Threads -> Labels] /\ Stages \subseteq Threads
      /\ "main" \in Threads /\ "main" \notin Stages
  BY DEF TypeOK, Threads, Stages
<1>2. CASE LoopStep(t)
  <2>1. CASE Signal(t)
    BY <1>1, <2>1 DEF Signal, At, WaiterOf, Stages
  <2>2. CASE ~ Signal(t)
    <3>1. pc[t] # "done"
      BY <1>2, <2>2 DEF LoopStep, Enter, LoopEnd, Acquire, NotReady,
         CondWait, Ready, Publish, Finish, At
    <3>2. \A u \in Threads \ {t} : pc'[u] = pc[u]
      BY <1>1, <1>2, <2>2 DEF LoopStep, Enter, LoopEnd, Acquire, NotReady,
         CondWait, Ready, Publish, Finish, PassOn, Goto
    <3> QED
      BY <1>1, <3>1, <3>2
  <2> QED
    BY <2>1, <2>2
<1>3. CASE WorkStep(t)
  BY <1>1, <1>3 DEF WorkStep, ProducerOpen, ProducerFill, GpuIssue, CpuSync,
     CpuBackup, CpuPackFits, CpuPackFails, CpuRestore, SenderOpen, SenderSend,
     PassOn, At, Goto
<1> QED
  BY <1>2, <1>3 DEF StageStep

\* A stage other than the producer that still runs sees no exit request, so
\* it never breaks out of its loop.
LEMMA EnterGoesOn ==
    ASSUME EndInv, NEW t \in Stages, Enter(t)
    PROVE  Goto(t, "lock") /\ UNCHANGED <<exit_signal, freed>>
BY DEF EndInv, Enter, At

LEMMA StageStepEnd ==
    ASSUME RingIInv, EndInv, NEW t \in Stages, StageStep(t)
    PROVE  EndInv'
<1> USE DEF At
<1>0. /\ pc \in [Threads -> Labels] /\ Stages \subseteq Threads
      /\ {"pro", "gpu", "cpu", "snd"} = Stages
      /\ iter \in [Stages -> 0 .. NumBlocks]
  BY DEF RingIInv, TypeOK, Threads, Stages
<1>1. /\ pc'["main"] = pc["main"] /\ pc[t] # "done"
      /\ \A u \in Stages \ {t} :
            pc'[u] = pc[u] \/ (pc[u] = "wait" /\ pc'[u] = "lock")
  BY StageMoves DEF RingIInv
<1>2. UNCHANGED <<exit_signal, freed>>
  <2>1. CASE LoopStep(t)
    BY <2>1, EnterGoesOn DEF LoopStep, LoopEnd, Acquire, NotReady,
       CondWait, Ready, Signal, Publish, Finish, endVars
  <2>2. CASE WorkStep(t)
    BY <2>2 DEF WorkStep, ProducerOpen, ProducerFill, GpuIssue, CpuSync,
       CpuBackup, CpuPackFits, CpuPackFails, CpuRestore, SenderOpen, SenderSend,
       endVars
  <2> QED
    BY <2>1, <2>2 DEF StageStep
<1>3. /\ exit_signal' # 0 => \A u \in Stages \ {"pro"} : pc'[u] = "done"
      /\ pc'["main"] # "join" => \A u \in Stages \ {"pro"} : pc'[u] = "done"
      /\ pc'["main"] \in {"delete", "spin", "return", "done"} => pc'["pro"] = "done"
      /\ freed' => pc'["main"] \in {"return", "done"}
  BY <1>0, <1>1, <1>2 DEF EndInv
<1>4. \A u \in Stages : pc'[u] \in {"finish", "done"} => iter'[u] = NumBlocks
  <2>1. CASE LoopEnd(t)
    BY <1>0, <1>1, <2>1 DEF EndInv, LoopEnd, Goto, queueVars
  <2>2. CASE Finish(t)
    BY <1>0, <1>1, <2>2 DEF EndInv, Finish, Goto, queueVars
  <2>3. CASE pc'[t] \notin {"finish", "done"}
    <3>1. \A u \in Stages \ {t} : iter'[u] = iter[u]
      <4>1. CASE LoopStep(t)
        BY <1>0, <4>1 DEF LoopStep, Enter, LoopEnd, Acquire, NotReady,
           CondWait, Ready, Signal, Publish, Finish, PassOn, queueVars
      <4>2. CASE WorkStep(t)
        BY <1>0, <4>2 DEF WorkStep, ProducerOpen, ProducerFill, GpuIssue, CpuSync,
           CpuBackup, CpuPackFits, CpuPackFails, CpuRestore, SenderOpen,
           SenderSend, PassOn, queueVars
      <4> QED
        BY <4>1, <4>2 DEF StageStep
    <3> QED
      BY <1>1, <2>3, <3>1 DEF EndInv
  <2>4. LoopEnd(t) \/ Finish(t) \/ pc'[t] \notin {"finish", "done"}
    <3>1. WorkOf[t] \notin {"finish", "done"}
      BY DEF WorkOf, Stages
    <3>2. CASE LoopStep(t)
      BY <1>0, <3>1, <3>2, EnterGoesOn DEF LoopStep, Acquire, NotReady, CondWait,
         Ready, Signal, Publish, PassOn, Goto
    <3>3. CASE WorkStep(t)
      BY <1>0, <3>3 DEF WorkStep, ProducerOpen, ProducerFill, GpuIssue, CpuSync,
         CpuBackup, CpuPackFits, CpuPackFails, CpuRestore, SenderOpen, SenderSend,
         PassOn, Goto
    <3> QED
      BY <3>2, <3>3 DEF StageStep
  <2> QED
    BY <2>1, <2>2, <2>3, <2>4
<1>5. /\ pc'["gpu"] = "done" => \A s \in Slots : stream'[s] # "busy"
      /\ fileHeader' = "final" => pc'["snd"] = "done"
  <2>1. CASE LoopStep(t)
    <3>1. CASE Finish(t)
      BY <1>0, <1>1, <3>1 DEF EndInv, Finish, Goto
    <3>2. CASE ~ Finish(t)
      <4>1. UNCHANGED <<stream, fileHeader>>
        BY <2>1, <3>2 DEF LoopStep, Enter, LoopEnd, Acquire, NotReady,
           CondWait, Ready, Signal, Publish, fileVars
      <4>2. pc'[t] # "done"
        <5>1. WorkOf[t] # "done"
          BY DEF WorkOf, Stages
        <5> QED
          BY <1>0, <2>1, <3>2, <5>1 DEF LoopStep, Enter, LoopEnd, Acquire,
             NotReady, CondWait, Ready, Signal, Publish, PassOn, Goto
      <4> QED
        BY <1>0, <1>1, <4>1, <4>2 DEF EndInv
    <3> QED
      BY <3>1, <3>2
  <2>2. CASE WorkStep(t)
    <3>1. pc'[t] # "done"
      BY <1>0, <2>2 DEF WorkStep, ProducerOpen, ProducerFill, GpuIssue, CpuSync,
         CpuBackup, CpuPackFits, CpuPackFails, CpuRestore, SenderOpen, SenderSend,
         PassOn, Goto
    <3>2. (stream' = stream \/ t = "gpu") /\ (fileHeader' # "final" \/ fileHeader' = fileHeader)
      BY <2>2 DEF WorkStep, ProducerOpen, ProducerFill, GpuIssue, CpuSync,
         CpuBackup, CpuPackFits, CpuPackFails, CpuRestore, SenderOpen, SenderSend,
         fileVars
    <3> QED
      BY <1>0, <1>1, <3>1, <3>2 DEF EndInv
  <2> QED
    BY <2>1, <2>2 DEF StageStep
<1> QED
  BY <1>3, <1>4, <1>5 DEF EndInv

LEMMA OtherStepEnd ==
    ASSUME RingIInv, EndInv,
           \/ \E t \in Stages : SpuriousWakeup(t) \/ Fail(t)
           \/ \E s \in Slots : DeviceRun(s) \/ DeviceError(s)
           \/ MainStep
    PROVE  EndInv'
<1> USE DEF At
<1>0. /\ pc \in [Threads -> Labels] /\ TypeOK /\ "main" \in Threads
      /\ {"pro", "gpu", "cpu", "snd"} = Stages /\ Stages \subseteq Threads
      /\ "main" \notin Stages
  BY DEF RingIInv, TypeOK, Threads, Stages
<1>1. ASSUME NEW t \in Stages, SpuriousWakeup(t)
      PROVE  EndInv'
  <2>1. \A u \in Threads : pc'[u] = IF u = t THEN "lock" ELSE pc[u]
    BY <1>0, <1>1 DEF SpuriousWakeup, Goto
  <2>2. pc[t] = "wait" /\ t # "main"
    BY <1>0, <1>1 DEF SpuriousWakeup
  <2>3. UNCHANGED <<queueVars, stream, fileVars, endVars>>
    BY <1>1 DEF SpuriousWakeup
  <2>4. /\ iter' = iter /\ stream' = stream /\ fileHeader' = fileHeader
        /\ exit_signal' = exit_signal /\ freed' = freed
    BY <2>3 DEF queueVars, fileVars, endVars
  <2> QED
    BY <1>0, <2>1, <2>2, <2>4 DEF EndInv
<1>2. ASSUME NEW t \in Stages, Fail(t)
      PROVE  EndInv'
  BY <1>2 DEF Fail, EndInv, queueVars, fileVars
<1>3. ASSUME NEW s \in Slots, DeviceRun(s) \/ DeviceError(s)
      PROVE  EndInv'
  BY <1>3 DEF DeviceRun, DeviceError, EndInv, queueVars, fileVars, endVars, RingIInv, TypeOK
<1>4. CASE MainStep
  <2>1. /\ \A u \in Stages : pc'[u] = pc[u]
        /\ UNCHANGED <<mut, queueVars, dataVars, stream, fileVars>>
    BY <1>0, <1>4, MainQuiet
  <2>2. /\ iter' = iter /\ stream' = stream /\ fileHeader' = fileHeader
    BY <2>1 DEF queueVars, fileVars
  <2>3. CASE JoinConsumers
    BY <1>0, <2>1, <2>2, <2>3 DEF JoinConsumers, Goto, EndInv
  <2>4. CASE JoinProducer
    BY <1>0, <2>1, <2>2, <2>4 DEF JoinProducer, Goto, EndInv, endVars
  <2>5. CASE SignalExit
    BY <1>0, <2>1, <2>2, <2>5 DEF SignalExit, Goto, EndInv
  <2>6. CASE QueueDelete
    BY <1>0, <2>1, <2>2, <2>6 DEF QueueDelete, Goto, EndInv
  <2>7. CASE MainReturn
    BY <1>0, <2>1, <2>2, <2>7 DEF MainReturn, Goto, EndInv
  <2> QED
    BY <1>4, <2>3, <2>4, <2>5, <2>6, <2>7 DEF MainStep
<1> QED
  BY <1>1, <1>2, <1>3, <1>4

LEMMA EndInit == Init => EndInv
BY DEF Init, EndInv, Stages, Threads

LEMMA EndStep == RingIInv /\ EndInv /\ [Next]_vars => EndInv'
<1> SUFFICES ASSUME RingIInv, EndInv, [Next]_vars PROVE EndInv'
  OBVIOUS
<1>1. ASSUME NEW t \in Stages, StageStep(t)
      PROVE  EndInv'
  BY <1>1, StageStepEnd
<1>2. ASSUME \/ \E t \in Stages : SpuriousWakeup(t) \/ Fail(t)
             \/ \E s \in Slots : DeviceRun(s) \/ DeviceError(s)
             \/ MainStep
      PROVE  EndInv'
  BY <1>2, OtherStepEnd
<1>3. CASE UNCHANGED vars
  BY <1>3 DEF vars, queueVars, fileVars, endVars, EndInv
<1> QED
  BY <1>1, <1>2, <1>3 DEF Next

\* queueDelete frees the queue after the last use of it by any thread and by
\* the device.
THEOREM FreedLast == Spec => []NoUseAfterFree
<1>1. Init => RingIInv /\ EndInv
  BY RingInit, EndInit
<1>2. RingIInv /\ EndInv /\ [Next]_vars => (RingIInv /\ EndInv)'
  BY RingStep, EndStep
<1>3. EndInv => NoUseAfterFree
  BY DEF EndInv, NoUseAfterFree, Stages
<1> QED
  BY <1>1, <1>2, <1>3, PTL DEF Spec

-----------------------------------------------------------------------------
(* Who uses the buffers of a slot.                                         *)

\* A step that leaves ring and streams alone, keeps the GPU stage between
\* issue and update, and lets the CPU stage no further than it was.
LEMMA QuietStream ==
    ASSUME StreamInv, UNCHANGED <<queueVars, stream>>,
           pc["gpu"] \in {"relock", "publish"} => pc'["gpu"] \in {"relock", "publish"},
           pc'["cpu"] \in CpuPast => pc["cpu"] \in CpuPast
    PROVE  StreamInv'
BY DEF StreamInv, queueVars

LEMMA PassOnStream ==
    ASSUME RingIInv, StreamInv, NEW t \in Stages,
           pc[t] = "publish" \/ (t = "pro" /\ pc[t] = "fill"),
           PassOn(t, IF t = "snd" THEN 0 ELSE ledger[head[t]] + 1), stream' = stream
    PROVE  StreamInv'
<1>1. ledger[head[t]] = Want[t] /\ Want[t] \in 0 .. 3
  BY DEF RingIInv, ReadyInv, Working, Want, Stages
<1>2. pc["cpu"] \in CpuPast => ledger[head["cpu"]] = 2
  BY DEF RingIInv, ReadyInv, Working, CpuPast, Want, Stages
<1>3. /\ \A u \in Stages : pc'[u] = IF u = t THEN "signal" ELSE pc[u]
      /\ \A u \in Stages \ {t} : head'[u] = head[u]
      /\ \A s \in Slots : ledger'[s] =
            IF s = head[t] THEN (IF t = "snd" THEN 0 ELSE Want[t] + 1) ELSE ledger[s]
      /\ "gpu" \in Stages /\ "cpu" \in Stages
  BY <1>1 DEF RingIInv, PassOn, Goto, TypeOK, Threads, Stages
<1> SUFFICES ASSUME NEW s \in Slots, stream[s] # "idle"
             PROVE  \/ /\ ledger'[s] = 1 /\ head'["gpu"] = s
                       /\ pc'["gpu"] \in {"relock", "publish"}
                    \/ ledger'[s] = 2 /\ ~ (head'["cpu"] = s /\ pc'["cpu"] \in CpuPast)
  BY DEF StreamInv
<1>4. \/ ledger[s] = 1 /\ head["gpu"] = s /\ pc["gpu"] \in {"relock", "publish"}
      \/ ledger[s] = 2 /\ ~ (head["cpu"] = s /\ pc["cpu"] \in CpuPast)
  BY DEF StreamInv
<1>5. "signal" \notin CpuPast
  BY DEF CpuPast
<1>6. CASE s # head[t]
  BY <1>3, <1>4, <1>5, <1>6
<1>7. CASE s = head[t]
  <2>1. t = "gpu"
    BY <1>1, <1>4, <1>7 DEF Want, Stages, CpuPast
  <2>2. ledger[s] = 1 /\ ledger'[s] = 2
    BY <1>1, <1>3, <1>7, <2>1 DEF Want
  <2> QED
    BY <1>2, <1>3, <2>1, <2>2
<1> QED
  BY <1>6, <1>7

LEMMA StageStepStream ==
    ASSUME RingIInv, StreamInv, NEW t \in Stages, StageStep(t)
    PROVE  StreamInv'
<1> USE DEF At
<1>0. /\ pc \in [Threads -> Labels] /\ Stages \subseteq Threads
      /\ {"pro", "gpu", "cpu", "snd"} = Stages
  BY DEF RingIInv, TypeOK, Threads, Stages
<1>1. CASE Enter(t)
  BY <1>0, <1>1, QuietStream DEF Enter, Goto, CpuPast
<1>2. CASE LoopEnd(t)
  BY <1>0, <1>2, QuietStream DEF LoopEnd, Goto, CpuPast
<1>3. CASE Acquire(t)
  BY <1>0, <1>3, QuietStream DEF Acquire, Goto, CpuPast
<1>4. CASE NotReady(t)
  BY <1>0, <1>4, QuietStream DEF NotReady, Goto, CpuPast
<1>5. CASE CondWait(t)
  BY <1>0, <1>5, QuietStream DEF CondWait, Goto, CpuPast
<1>6. CASE Ready(t)
  BY <1>0, <1>6, QuietStream DEF Ready, Goto, CpuPast, WorkOf
<1>7. CASE Signal(t)
  BY <1>0, <1>7, QuietStream DEF Signal, CpuPast
<1>8. CASE Publish(t)
  BY <1>8, PassOnStream DEF Publish
<1>9. CASE Finish(t)
  BY <1>0, <1>9, QuietStream DEF Finish, Goto, CpuPast
<1>10. CASE t = "pro" /\ ProducerOpen
  BY <1>0, <1>10, QuietStream DEF ProducerOpen, Goto, CpuPast
<1>11. CASE t = "pro" /\ ProducerFill
  BY <1>11, PassOnStream DEF ProducerFill
<1>12. CASE t = "gpu" /\ GpuIssue
  <2>1. ledger[head["gpu"]] = 1
    BY <1>0, <1>12 DEF GpuIssue, RingIInv, ReadyInv, Working, Want
  <2>2. pc'["gpu"] = "relock" /\ pc'["cpu"] = pc["cpu"] /\ pc["gpu"] = "issue"
    BY <1>0, <1>12 DEF GpuIssue, Goto
  <2>3. \A s \in Slots : stream'[s] # "idle" => s = head["gpu"] \/ stream[s] # "idle"
    BY <1>12 DEF GpuIssue, RingIInv, TypeOK
  <2> QED
    BY <1>12, <2>1, <2>2, <2>3 DEF GpuIssue, StreamInv, queueVars
<1>13. CASE t = "cpu" /\ CpuSync
  <2>1. stream[head["cpu"]] = "idle"
    BY <1>13 DEF CpuSync
  <2>2. pc'["gpu"] = pc["gpu"]
    BY <1>0, <1>13 DEF CpuSync, Goto
  <2> QED
    BY <1>13, <2>1, <2>2 DEF CpuSync, StreamInv, queueVars
<1>14. CASE t = "cpu" /\ (CpuBackup \/ CpuPackFits \/ CpuPackFails \/ CpuRestore)
  BY <1>0, <1>14, QuietStream
  DEF CpuBackup, CpuPackFits, CpuPackFails, CpuRestore, Goto, CpuPast
<1>15. CASE t = "snd" /\ SenderOpen
  BY <1>0, <1>15, QuietStream DEF SenderOpen, Goto, CpuPast
<1>16. CASE t = "snd" /\ SenderSend
  BY <1>16, PassOnStream DEF SenderSend
<1> QED
  BY <1>1, <1>2, <1>3, <1>4, <1>5, <1>6, <1>7, <1>8, <1>9, <1>10, <1>11,
     <1>12, <1>13, <1>14, <1>15, <1>16
  DEF StageStep, LoopStep, WorkStep

LEMMA StreamStep == RingIInv /\ StreamInv /\ [Next]_vars => StreamInv'
<1> SUFFICES ASSUME RingIInv, StreamInv, [Next]_vars PROVE StreamInv'
  OBVIOUS
<1>0. /\ pc \in [Threads -> Labels] /\ Stages \subseteq Threads /\ TypeOK
      /\ "gpu" \in Stages /\ "cpu" \in Stages
  BY DEF RingIInv, TypeOK, Threads, Stages
<1>1. ASSUME NEW t \in Stages, StageStep(t)
      PROVE  StreamInv'
  BY <1>1, StageStepStream
<1>2. ASSUME NEW t \in Stages, SpuriousWakeup(t)
      PROVE  StreamInv'
  BY <1>0, <1>2, QuietStream DEF SpuriousWakeup, At, Goto, CpuPast
<1>3. ASSUME NEW t \in Stages, Fail(t)
      PROVE  StreamInv'
  BY <1>3, QuietStream DEF Fail
<1>4. ASSUME NEW s \in Slots, DeviceRun(s) \/ DeviceError(s)
      PROVE  StreamInv'
  BY <1>4 DEF DeviceRun, DeviceError, StreamInv, queueVars, RingIInv, TypeOK
<1>5. CASE MainStep
  BY <1>0, <1>5, MainQuiet, QuietStream
<1>6. CASE UNCHANGED vars
  BY <1>6, QuietStream DEF vars
<1> QED
  BY <1>1, <1>2, <1>3, <1>4, <1>5, <1>6 DEF Next

\* Two users of one slot would find different values in its ledger.
LEMMA UserStage ==
    ASSUME RingIInv, StreamInv
    PROVE  OneUser
<1> SUFFICES ASSUME NEW s \in Slots, NEW a \in Stages \cup {"device"},
                    NEW b \in Stages \cup {"device"}, Uses(a, s), Uses(b, s)
             PROVE  a = b
  BY DEF OneUser
<1>1. ASSUME NEW t \in Stages, Uses(t, s)
      PROVE  ledger[s] = Want[t] /\ stream[s] # "busy"
  <2>1. head[t] = s /\ pc[t] \in Working
    BY <1>1 DEF Uses, Stages, Working
  <2>2. ledger[s] = Want[t]
    BY <2>1 DEF RingIInv, ReadyInv
  <2>3. t = "cpu" => pc["cpu"] \in CpuPast
    BY <1>1 DEF Uses, CpuPast
  <2>4. t = "gpu" => pc["gpu"] = "issue"
    BY <1>1 DEF Uses
  <2>5. /\ t = "pro" => ledger[s] = 0
        /\ t = "gpu" => ledger[s] = 1
        /\ t = "cpu" => ledger[s] = 2
        /\ t = "snd" => ledger[s] = 3
    BY <2>2 DEF Want
  <2>6. stream[s] # "busy"
    BY <2>1, <2>3, <2>4, <2>5 DEF StreamInv, Stages
  <2> QED
    BY <2>2, <2>6
<1>2. Uses("device", s) => stream[s] = "busy"
  BY DEF Uses, Stages
<1>3. \A t, u \in Stages : Want[t] = Want[u] => t = u
  BY DEF Want, Stages
<1> QED
  BY <1>1, <1>2, <1>3

\* No two stages, and no stage and the device, are ever at work on the
\* buffers of the same slot, though they take no lock for it.
THEOREM BuffersExclusive == Spec => []OneUser
<1>1. Init => RingIInv /\ StreamInv
  <2>1. Init => StreamInv
    BY DEF Init, StreamInv
  <2> QED
    BY <2>1, RingInit
<1>2. RingIInv /\ StreamInv /\ [Next]_vars => (RingIInv /\ StreamInv)'
  BY RingStep, StreamStep
<1>3. RingIInv /\ StreamInv => OneUser
  BY UserStage
<1> QED
  BY <1>1, <1>2, <1>3, PTL DEF Spec

-----------------------------------------------------------------------------
(* Slots and blocks.                                                       *)

\* A stage at work on its slot works on its next block.
LEMMA WorkBlock ==
    ASSUME RingIInv, NEW t \in Stages, pc[t] \in Working
    PROVE  /\ head[t] \in Slots /\ ledger[head[t]] = Want[t]
           /\ BlockAt(head[t]) = iter[t]
           /\ iter[t] \in 0 .. NumBlocks - 1
<1>1. head[t] \in Slots /\ iter[t] \in 0 .. NumBlocks /\ iter["snd"] \in 0 .. NumBlocks
  BY DEF RingIInv, TypeOK, Stages
<1>2. ledger[head[t]] = Want[t]
  BY DEF RingIInv, ReadyInv
<1>3. iter[t] < NumBlocks
  BY DEF RingIInv, LoopInv, InLoop
<1>4. Dist(head[t]) = Lead(t)
  BY <1>2, ReadyPlace DEF RingIInv
<1>5. BlockAt(head[t]) = iter[t]
  BY <1>1, <1>4 DEF BlockAt, Lead
<1> QED
  BY <1>1, <1>2, <1>3, <1>5, SizesAssumption

\* A slot keeps its block until the sender is through with it.
LEMMA BlockStays ==
    ASSUME TypeOK, NEW t \in Stages, NEW val, PassOn(t, val),
           NEW s \in Slots, t # "snd" \/ s # head["snd"]
    PROVE  BlockAt(s)' = BlockAt(s)
<1>0. head["snd"] \in Slots /\ iter["snd"] \in Int /\ "snd" \in Stages
  BY SizesAssumption DEF TypeOK, Stages
<1>1. CASE t # "snd"
  BY <1>0, <1>1 DEF PassOn, TypeOK, BlockAt, Dist
<1>2. CASE t = "snd"
  <2>1. head'["snd"] = NextSlot(head["snd"]) /\ iter'["snd"] = iter["snd"] + 1
    BY <1>0, <1>2 DEF PassOn, TypeOK
  <2>2. Gap(NextSlot(head["snd"]), s) = Gap(head["snd"], s) - 1
    BY <1>0, <1>2, NextOrigin
  <2>3. Gap(head["snd"], s) \in Int
    BY <1>0, GapType
  <2> QED
    BY <1>0, <2>1, <2>2, <2>3 DEF BlockAt, Dist
<1> QED
  BY <1>1, <1>2

\* A step that does nothing to slot s, and leaves the CPU stage where it is
\* or moves it from "relock" to "publish".
LEMMA SlotKept ==
    ASSUME NEW s \in Slots, SlotData(s),
           /\ ledger'[s] = ledger[s] /\ BlockAt(s)' = BlockAt(s)
           /\ outsize'[s] = outsize[s] /\ stream'[s] = stream[s],
           /\ spills > 0 => spills' > 0
           /\ buf'[s] = buf[s] \/ (spills' > 0 /\ buf'[s].block = buf[s].block)
           /\ bufout'[s] = bufout[s] \/ (spills' > 0 /\ bufout'[s].block = bufout[s].block),
           CpuPastAt(s)' <=> CpuPastAt(s),
           GpuPastAt(s)' => GpuPastAt(s),
           CpuPastAt(s) => /\ bckpbuf' = bckpbuf
                           /\ \/ pc'["cpu"] = pc["cpu"]
                              \/ {pc["cpu"], pc'["cpu"]} \subseteq {"relock", "publish"}
    PROVE  SlotData(s)'
<1>1. /\ RawOf(s)' = RawOf(s)
      /\ \A c : Holds(c, RawOf(s)) => Holds(c, RawOf(s))'
      /\ Holds(buf[s], RawOf(s)) => Holds(buf[s], RawOf(s))'
      /\ Holds(bufout[s], RawOf(s)) => Holds(bufout[s], RawOf(s))'
  BY DEF RawOf, Holds
<1>2. Sendable(s, BlockAt(s)) => Sendable(s, BlockAt(s))'
  BY DEF Sendable, SendSize
<1>3. InputHeld(s)'
  BY <1>1 DEF SlotData, InputHeld
<1>4. TokensHeld(s)'
  BY <1>1 DEF SlotData, TokensHeld
<1>5. PackHeld(s)'
  <2> SUFFICES ASSUME ledger'[s] = 2, CpuPastAt(s)'
               PROVE  PackHeld(s)'
    BY DEF PackHeld
  <2>1. /\ ledger[s] = 2 /\ CpuPastAt(s) /\ bckpbuf' = bckpbuf
        /\ \/ pc'["cpu"] = pc["cpu"]
           \/ {pc["cpu"], pc'["cpu"]} \subseteq {"relock", "publish"}
    OBVIOUS
  <2>2. Holds(bckpbuf, RawOf(s)) => Holds(bckpbuf, RawOf(s))'
    BY <1>1, <2>1 DEF Holds
  <2> QED
    BY <1>1, <1>2, <2>1, <2>2 DEF SlotData, PackHeld
<1>6. OutputHeld(s)'
  BY <1>2 DEF SlotData, OutputHeld
<1> QED
  BY <1>3, <1>4, <1>5, <1>6 DEF SlotData

\* A step that touches neither ring nor data.
LEMMA QuietData ==
    ASSUME DataInv, UNCHANGED <<queueVars, dataVars, stream>>,
           pc'["gpu"] \in {"relock", "publish"} => pc["gpu"] \in {"relock", "publish"},
           \/ pc'["cpu"] = pc["cpu"]
           \/ pc["cpu"] \notin CpuPast /\ pc'["cpu"] \notin CpuPast
           \/ {pc["cpu"], pc'["cpu"]} \subseteq {"relock", "publish"}
    PROVE  DataInv'
<1> SUFFICES ASSUME NEW s \in Slots PROVE SlotData(s)'
  BY DEF DataInv
<1>1. /\ ledger' = ledger /\ head' = head /\ iter' = iter
      /\ buf' = buf /\ bufout' = bufout /\ outsize' = outsize /\ bckpbuf' = bckpbuf
      /\ stream' = stream /\ spills' = spills
  BY DEF queueVars, dataVars
<1>2. BlockAt(s)' = BlockAt(s)
  BY <1>1 DEF BlockAt, Dist
<1>3. (CpuPastAt(s)' <=> CpuPastAt(s)) /\ (GpuPastAt(s)' => GpuPastAt(s))
  BY <1>1 DEF CpuPastAt, GpuPastAt, CpuPast
<1>4. CpuPastAt(s) => \/ pc'["cpu"] = pc["cpu"]
                      \/ {pc["cpu"], pc'["cpu"]} \subseteq {"relock", "publish"}
  BY DEF CpuPastAt
<1> QED
  BY <1>1, <1>2, <1>3, <1>4, SlotKept DEF DataInv

-----------------------------------------------------------------------------
(* The data, step by step.                                                 *)

\* What a stage that passes its slot on does to the slots.
LEMMA PassOnSlots ==
    ASSUME RingIInv, NEW t \in Stages, pc[t] \in {"fill", "publish"},
           PassOn(t, IF t = "snd" THEN 0 ELSE ledger[head[t]] + 1)
    PROVE  /\ \A s \in Slots : ledger'[s] =
                 IF s = head[t] THEN (IF t = "snd" THEN 0 ELSE Want[t] + 1) ELSE ledger[s]
           /\ \A s \in Slots : s # head[t] \/ t # "snd" => BlockAt(s)' = BlockAt(s)
           /\ \A s \in Slots \ {head[t]} : /\ CpuPastAt(s)' <=> CpuPastAt(s)
                                           /\ GpuPastAt(s)' => GpuPastAt(s)
                                           /\ CpuPastAt(s) => pc'["cpu"] = pc["cpu"]
           /\ \A s \in Slots : s = head[t] =>
                 /\ CpuPastAt(s)' => t # "cpu" /\ ledger[s] = 2
                 /\ GpuPastAt(s)' => t # "gpu" /\ ledger[s] = 1
<1>1. head[t] \in Slots /\ ledger[head[t]] = Want[t] /\ TypeOK
  BY WorkBlock DEF Working, RingIInv
<1>2. /\ \A u \in Stages : pc'[u] = IF u = t THEN "signal" ELSE pc[u]
      /\ \A u \in Stages \ {t} : head'[u] = head[u]
      /\ "cpu" \in Stages /\ "gpu" \in Stages
  BY <1>1 DEF PassOn, Goto, TypeOK, Threads, Stages
<1>3. \A s \in Slots : ledger'[s] =
         IF s = head[t] THEN (IF t = "snd" THEN 0 ELSE Want[t] + 1) ELSE ledger[s]
  BY <1>1 DEF PassOn, TypeOK
<1>4. \A s \in Slots : s # head[t] \/ t # "snd" => BlockAt(s)' = BlockAt(s)
  BY <1>1, BlockStays
<1>5. \A s \in Slots \ {head[t]} : /\ CpuPastAt(s)' <=> CpuPastAt(s)
                                   /\ GpuPastAt(s)' => GpuPastAt(s)
                                   /\ CpuPastAt(s) => pc'["cpu"] = pc["cpu"]
  BY <1>2 DEF CpuPastAt, GpuPastAt, CpuPast
<1>6. ASSUME NEW s \in Slots, s = head[t], CpuPastAt(s)'
      PROVE  t # "cpu" /\ ledger[s] = 2
  <2>1. t # "cpu" /\ pc["cpu"] \in CpuPast /\ head["cpu"] = s
    BY <1>2, <1>6 DEF CpuPastAt, CpuPast
  <2>2. ledger[head["cpu"]] = Want["cpu"]
    BY <1>2, <2>1, WorkBlock DEF CpuPast, Working
  <2> QED
    BY <2>1, <2>2 DEF Want
<1>7. ASSUME NEW s \in Slots, s = head[t], GpuPastAt(s)'
      PROVE  t # "gpu" /\ ledger[s] = 1
  <2>1. t # "gpu" /\ pc["gpu"] \in {"relock", "publish"} /\ head["gpu"] = s
    BY <1>2, <1>7 DEF GpuPastAt
  <2>2. ledger[head["gpu"]] = Want["gpu"]
    BY <1>2, <2>1, WorkBlock DEF Working
  <2> QED
    BY <2>1, <2>2 DEF Want
<1> QED
  BY <1>3, <1>4, <1>5, <1>6, <1>7

\* The producer fills its slot.
LEMMA FillData ==
    ASSUME RingIInv, DataInv, ProducerFill
    PROVE  DataInv'
<1>1. /\ pc["pro"] = "fill" /\ pc["pro"] \in Working
      /\ PassOn("pro", ledger[head["pro"]] + 1)
      /\ UNCHANGED <<bufout, outsize, bckpbuf, spills, stream>>
  BY DEF ProducerFill, At, Working
<1>2. /\ head["pro"] \in Slots /\ ledger[head["pro"]] = 0
      /\ BlockAt(head["pro"]) = iter["pro"]
  BY <1>1, WorkBlock DEF Stages, Want
<1>3. \A s \in Slots : buf'[s] =
         IF s = head["pro"] THEN Content(iter["pro"], "raw") ELSE buf[s]
  BY DEF ProducerFill, RingIInv, TypeOK
<1>4. /\ \A s \in Slots : ledger'[s] = IF s = head["pro"] THEN 1 ELSE ledger[s]
      /\ \A s \in Slots : BlockAt(s)' = BlockAt(s)
      /\ \A s \in Slots \ {head["pro"]} : /\ CpuPastAt(s)' <=> CpuPastAt(s)
                                          /\ GpuPastAt(s)' => GpuPastAt(s)
                                          /\ CpuPastAt(s) => pc'["cpu"] = pc["cpu"]
      /\ \A s \in Slots : s = head["pro"] => ~ GpuPastAt(s)'
  BY <1>1, <1>2, PassOnSlots DEF Stages, Want
<1> SUFFICES ASSUME NEW s \in Slots PROVE SlotData(s)'
  BY DEF DataInv
<1>5. CASE s # head["pro"]
  <2>1. SlotData(s)
    BY DEF DataInv
  <2> QED
    BY <1>1, <1>3, <1>4, <1>5, <2>1, SlotKept
<1>6. CASE s = head["pro"]
  <2>1. ledger'[s] = 1 /\ ~ GpuPastAt(s)' /\ BlockAt(s)' = iter["pro"]
    BY <1>2, <1>4, <1>6
  <2>2. Holds(buf[s], RawOf(s))'
    BY <1>3, <1>6, <2>1 DEF RawOf, Holds
  <2> QED
    BY <2>1, <2>2 DEF SlotData, InputHeld, TokensHeld, PackHeld, OutputHeld
<1> QED
  BY <1>5, <1>6

\* The GPU or the CPU stage passes its slot on.
LEMMA PublishData ==
    ASSUME RingIInv, DataInv, NEW t \in Stages, Publish(t)
    PROVE  DataInv'
<1>1. /\ pc[t] = "publish" /\ pc[t] \in Working /\ t \in {"gpu", "cpu"}
      /\ PassOn(t, ledger[head[t]] + 1)
      /\ UNCHANGED <<buf, bufout, outsize, bckpbuf, spills, stream>>
  BY DEF Publish, At, Working, dataVars
<1>2. head[t] \in Slots /\ ledger[head[t]] = Want[t]
  BY <1>1, WorkBlock
<1>3. /\ \A s \in Slots : ledger'[s] = IF s = head[t] THEN Want[t] + 1 ELSE ledger[s]
      /\ \A s \in Slots : BlockAt(s)' = BlockAt(s)
      /\ \A s \in Slots \ {head[t]} : /\ CpuPastAt(s)' <=> CpuPastAt(s)
                                      /\ GpuPastAt(s)' => GpuPastAt(s)
                                      /\ CpuPastAt(s) => pc'["cpu"] = pc["cpu"]
      /\ \A s \in Slots : s = head[t] => (CpuPastAt(s)' => ledger[s] = 2 /\ t # "cpu")
  BY <1>1, PassOnSlots DEF Stages
<1> SUFFICES ASSUME NEW s \in Slots PROVE SlotData(s)'
  BY DEF DataInv
<1>4. SlotData(s)
  BY DEF DataInv
<1>5. CASE s # head[t]
  BY <1>1, <1>3, <1>4, <1>5, SlotKept
<1>6. CASE s = head[t] /\ t = "gpu"
  <2>1. ledger[s] = 1 /\ ledger'[s] = 2 /\ GpuPastAt(s) /\ ~ CpuPastAt(s)'
    BY <1>1, <1>2, <1>3, <1>6 DEF Want, GpuPastAt
  <2>2. /\ RawOf(s)' = RawOf(s)
        /\ \A c : Holds(c, RawOf(s)) => Holds(c, RawOf(s))'
        /\ Holds(buf[s], RawOf(s)) => Holds(buf[s], RawOf(s))'
        /\ Holds(bufout[s], RawOf(s)) => Holds(bufout[s], RawOf(s))'
    BY <1>1, <1>3 DEF RawOf, Holds
  <2> QED
    BY <1>1, <1>4, <2>1, <2>2 DEF SlotData, InputHeld, TokensHeld, PackHeld, OutputHeld
<1>7. CASE s = head[t] /\ t = "cpu"
  <2>1. ledger[s] = 2 /\ ledger'[s] = 3 /\ CpuPastAt(s)
    BY <1>1, <1>2, <1>3, <1>7 DEF Want, CpuPastAt, CpuPast
  <2>2. Sendable(s, BlockAt(s))
    BY <1>1, <1>4, <1>7, <2>1 DEF SlotData, PackHeld
  <2>3. Sendable(s, BlockAt(s))'
    BY <1>1, <1>3, <2>2 DEF Sendable, SendSize
  <2> QED
    BY <2>1, <2>3 DEF SlotData, InputHeld, TokensHeld, PackHeld, OutputHeld
<1> QED
  BY <1>1, <1>5, <1>6, <1>7

\* The sender gives its slot back.
LEMMA SendData ==
    ASSUME RingIInv, DataInv, SenderSend
    PROVE  DataInv'
<1>1. /\ pc["snd"] = "publish" /\ pc["snd"] \in Working /\ PassOn("snd", 0)
      /\ UNCHANGED <<buf, bufout, outsize, bckpbuf, spills, stream>>
  BY DEF SenderSend, At, Working, dataVars
<1>2. /\ \A s \in Slots : ledger'[s] = IF s = head["snd"] THEN 0 ELSE ledger[s]
      /\ \A s \in Slots \ {head["snd"]} : /\ BlockAt(s)' = BlockAt(s)
                                          /\ CpuPastAt(s)' <=> CpuPastAt(s)
                                          /\ GpuPastAt(s)' => GpuPastAt(s)
                                          /\ CpuPastAt(s) => pc'["cpu"] = pc["cpu"]
  BY <1>1, PassOnSlots DEF Stages
<1> SUFFICES ASSUME NEW s \in Slots PROVE SlotData(s)'
  BY DEF DataInv
<1>3. CASE s # head["snd"]
  <2>1. SlotData(s)
    BY DEF DataInv
  <2> QED
    BY <1>1, <1>2, <1>3, <2>1, SlotKept
<1>4. CASE s = head["snd"]
  BY <1>2, <1>4 DEF SlotData, InputHeld, TokensHeld, PackHeld, OutputHeld
<1> QED
  BY <1>3, <1>4

\* The GPU stage issues the device work of its slot: until that is done, the
\* slot promises no tokens.
LEMMA IssueData ==
    ASSUME RingIInv, DataInv, GpuIssue
    PROVE  DataInv'
<1>1. /\ pc["gpu"] = "issue" /\ pc["gpu"] \in Working
      /\ UNCHANGED <<ledger, head, iter, buf, bufout, outsize, bckpbuf, spills>>
      /\ \A s \in Slots : stream'[s] = IF s = head["gpu"] THEN "busy" ELSE stream[s]
      /\ pc'["cpu"] = pc["cpu"] /\ pc'["gpu"] = "relock"
  BY DEF GpuIssue, At, Goto, Working, queueVars, dataVars, RingIInv, TypeOK, Threads, Stages
<1>2. ledger[head["gpu"]] = 1
  BY <1>1, WorkBlock DEF Stages, Want
<1>3. \A s \in Slots : BlockAt(s)' = BlockAt(s) /\ (CpuPastAt(s)' <=> CpuPastAt(s))
  BY <1>1 DEF BlockAt, Dist, CpuPastAt
<1> SUFFICES ASSUME NEW s \in Slots PROVE SlotData(s)'
  BY DEF DataInv
<1>4. SlotData(s)
  BY DEF DataInv
<1>5. CASE s # head["gpu"]
  <2>1. ~ GpuPastAt(s)'
    BY <1>1, <1>5 DEF GpuPastAt
  <2> QED
    BY <1>1, <1>3, <1>4, <1>5, <2>1, SlotKept
<1>6. CASE s = head["gpu"]
  <2>1. ledger'[s] = 1 /\ stream'[s] = "busy" /\ RawOf(s)' = RawOf(s)
    BY <1>1, <1>2, <1>3, <1>6 DEF RawOf
  <2>2. Holds(buf[s], RawOf(s))'
    BY <1>1, <1>2, <1>4, <1>6, <2>1 DEF SlotData, InputHeld, Holds
  <2> QED
    BY <2>1, <2>2 DEF SlotData, InputHeld, TokensHeld, PackHeld, OutputHeld
<1> QED
  BY <1>5, <1>6

\* The device computes the tokens of the block that is in buf: nobody has
\* packed or replaced it meanwhile.
LEMMA DeviceData ==
    ASSUME RingIInv, StreamInv, DataInv, NEW d \in Slots, DeviceRun(d)
    PROVE  DataInv'
<1>1. /\ UNCHANGED <<pc, ledger, head, iter, buf, outsize, bckpbuf, spills>>
      /\ stream[d] = "busy"
      /\ \A s \in Slots : stream'[s] = IF s = d THEN "idle" ELSE stream[s]
      /\ \A s \in Slots : bufout'[s] = IF s = d THEN buf[d] ELSE bufout[s]
  BY DEF DeviceRun, queueVars, RingIInv, TypeOK
<1>2. \A s \in Slots : /\ BlockAt(s)' = BlockAt(s)
                       /\ CpuPastAt(s)' <=> CpuPastAt(s)
                       /\ GpuPastAt(s)' <=> GpuPastAt(s)
  BY <1>1 DEF BlockAt, Dist, CpuPastAt, GpuPastAt
<1>3. ledger[d] = 1 \/ (ledger[d] = 2 /\ ~ CpuPastAt(d))
  BY <1>1 DEF StreamInv, CpuPastAt
<1> SUFFICES ASSUME NEW s \in Slots PROVE SlotData(s)'
  BY DEF DataInv
<1>4. SlotData(s)
  BY DEF DataInv
<1>5. CASE s # d
  BY <1>1, <1>2, <1>4, <1>5, SlotKept
<1>6. CASE s = d
  <2>1. Holds(buf[s], RawOf(s)) /\ RawOf(s)' = RawOf(s)
    BY <1>2, <1>3, <1>4, <1>6 DEF SlotData, InputHeld, RawOf
  <2>2. ledger'[s] \in {1, 2} /\ ~ (ledger'[s] = 2 /\ CpuPastAt(s)')
    BY <1>1, <1>2, <1>3, <1>6
  <2>3. Holds(buf[s], RawOf(s))' /\ Holds(bufout[s], RawOf(s))'
    BY <1>1, <1>6, <2>1 DEF Holds
  <2> QED
    BY <2>2, <2>3 DEF SlotData, InputHeld, TokensHeld, PackHeld, OutputHeld
<1> QED
  BY <1>5, <1>6

\* Device work that has failed promises no tokens, and is not waited out.
LEMMA DeviceErrorData ==
    ASSUME RingIInv, DataInv, NEW d \in Slots, DeviceError(d)
    PROVE  DataInv'
<1>1. /\ UNCHANGED <<pc, ledger, head, iter, buf, bufout, outsize, bckpbuf, spills>>
      /\ \A s \in Slots : stream'[s] = IF s = d THEN "error" ELSE stream[s]
  BY DEF DeviceError, queueVars, dataVars, RingIInv, TypeOK
<1>2. \A s \in Slots : /\ BlockAt(s)' = BlockAt(s)
                       /\ CpuPastAt(s)' <=> CpuPastAt(s)
                       /\ GpuPastAt(s)' <=> GpuPastAt(s)
  BY <1>1 DEF BlockAt, Dist, CpuPastAt, GpuPastAt
<1> SUFFICES ASSUME NEW s \in Slots PROVE SlotData(s)'
  BY DEF DataInv
<1>3. SlotData(s)
  BY DEF DataInv
<1>4. CASE s # d
  BY <1>1, <1>2, <1>3, <1>4, SlotKept
<1>5. CASE s = d
  <2>1. TokensHeld(s)'
    BY <1>1, <1>5 DEF TokensHeld
  <2>2. InputHeld(s)' /\ PackHeld(s)' /\ OutputHeld(s)'
    BY <1>1, <1>2, <1>3 DEF SlotData, InputHeld, PackHeld, OutputHeld, Holds, RawOf,
       Sendable, SendSize
  <2> QED
    BY <2>1, <2>2 DEF SlotData
<1> QED
  BY <1>4, <1>5

\* The five steps of the CPU stage on its slot leave the others alone.
LEMMA CpuOtherSlots ==
    ASSUME RingIInv, DataInv, NEW s \in Slots, s # head["cpu"],
           UNCHANGED <<queueVars, stream>>, pc'["gpu"] = pc["gpu"],
           outsize'[s] = outsize[s], spills > 0 => spills' > 0,
           buf'[s] = buf[s] \/ (spills' > 0 /\ buf'[s].block = buf[s].block),
           bufout'[s] = bufout[s] \/ (spills' > 0 /\ bufout'[s].block = bufout[s].block)
    PROVE  SlotData(s)'
<1>1. head' = head /\ ledger' = ledger /\ iter' = iter /\ stream' = stream
  BY DEF queueVars
<1>2. BlockAt(s)' = BlockAt(s) /\ ~ CpuPastAt(s) /\ ~ CpuPastAt(s)'
  BY <1>1 DEF BlockAt, Dist, CpuPastAt
<1>3. GpuPastAt(s)' <=> GpuPastAt(s)
  BY <1>1 DEF GpuPastAt
<1>4. SlotData(s)
  BY DEF DataInv
<1> QED
  BY <1>1, <1>2, <1>3, <1>4, SlotKept

\* What the CPU stage finds in its slot, before and after it has waited for
\* the device.
LEMMA CpuSlot ==
    ASSUME RingIInv, StreamInv, DataInv,
           pc["cpu"] \in {"sync", "backup", "pack", "restore"}
    PROVE  /\ head["cpu"] \in Slots /\ ledger[head["cpu"]] = 2
           /\ SlotData(head["cpu"])
           /\ pc["cpu"] # "sync" =>
                 /\ CpuPastAt(head["cpu"])
                 /\ stream[head["cpu"]] = "idle"
                 /\ Holds(bufout[head["cpu"]], RawOf(head["cpu"]))
           /\ pc["cpu"] = "sync" => Holds(buf[head["cpu"]], RawOf(head["cpu"]))
           /\ \A s \in Slots : UNCHANGED <<queueVars>> => RawOf(s)' = RawOf(s)
<1>1. head["cpu"] \in Slots /\ ledger[head["cpu"]] = 2
  BY WorkBlock DEF Working, Stages, Want
<1>2. SlotData(head["cpu"])
  BY <1>1 DEF DataInv
<1>3. ASSUME pc["cpu"] # "sync"
      PROVE  /\ CpuPastAt(head["cpu"])
             /\ stream[head["cpu"]] = "idle"
             /\ Holds(bufout[head["cpu"]], RawOf(head["cpu"]))
  <2>1. pc["cpu"] \in CpuPast /\ CpuPastAt(head["cpu"])
    BY <1>3 DEF CpuPast, CpuPastAt
  <2>2. stream[head["cpu"]] = "idle"
    BY <1>1, <2>1 DEF StreamInv, RingIInv, TypeOK
  <2> QED
    BY <1>1, <1>2, <2>1, <2>2 DEF SlotData, TokensHeld
<1>4. pc["cpu"] = "sync" => Holds(buf[head["cpu"]], RawOf(head["cpu"]))
  BY <1>1, <1>2 DEF SlotData, InputHeld, CpuPastAt, CpuPast
<1>5. \A s \in Slots : UNCHANGED <<queueVars>> => RawOf(s)' = RawOf(s)
  BY DEF queueVars, RawOf, BlockAt, Dist
<1> QED
  BY <1>1, <1>2, <1>3, <1>4, <1>5

LEMMA CpuSyncData ==
    ASSUME RingIInv, StreamInv, DataInv, CpuSync
    PROVE  DataInv'
<1> DEFINE h == head["cpu"]
<1>1. /\ pc["cpu"] = "sync" /\ UNCHANGED <<queueVars, dataVars, stream>>
      /\ pc'["cpu"] = "backup" /\ pc'["gpu"] = pc["gpu"]
  BY DEF CpuSync, At, Goto, RingIInv, TypeOK, Threads, Stages
<1>2. head' = head /\ ledger' = ledger /\ stream' = stream /\ buf' = buf /\ bufout' = bufout
      /\ outsize' = outsize /\ spills' = spills
  BY <1>1 DEF queueVars, dataVars
<1> SUFFICES ASSUME NEW s \in Slots PROVE SlotData(s)'
  BY DEF DataInv
<1>3. CASE s # h
  BY <1>1, <1>2, <1>3, CpuOtherSlots
<1>4. CASE s = h
  <2>1. /\ ledger[s] = 2 /\ SlotData(s) /\ Holds(buf[s], RawOf(s))
        /\ RawOf(s)' = RawOf(s)
    BY <1>1, <1>4, CpuSlot
  <2>2. ledger'[s] = 2 /\ CpuPastAt(s)' /\ Holds(buf[s], RawOf(s))'
    BY <1>1, <1>2, <1>4, <2>1 DEF CpuPastAt, CpuPast, Holds
  <2>3. TokensHeld(s)'
    BY <1>2, <2>1 DEF SlotData, TokensHeld, Holds
  <2> QED
    BY <1>1, <2>2, <2>3 DEF SlotData, InputHeld, PackHeld, OutputHeld
<1> QED
  BY <1>3, <1>4

LEMMA CpuBackupData ==
    ASSUME RingIInv, StreamInv, DataInv, CpuBackup
    PROVE  DataInv'
<1> DEFINE h == head["cpu"]
<1>1. /\ pc["cpu"] = "backup" /\ UNCHANGED <<queueVars, buf, bufout, outsize, spills, stream>>
      /\ pc'["cpu"] = "pack" /\ pc'["gpu"] = pc["gpu"] /\ bckpbuf' = buf[h]
  BY DEF CpuBackup, At, Goto, RingIInv, TypeOK, Threads, Stages
<1>2. head' = head /\ ledger' = ledger
  BY <1>1 DEF queueVars
<1> SUFFICES ASSUME NEW s \in Slots PROVE SlotData(s)'
  BY DEF DataInv
<1>3. CASE s # h
  BY <1>1, <1>3, CpuOtherSlots
<1>4. CASE s = h
  <2>1. /\ ledger[s] = 2 /\ SlotData(s) /\ CpuPastAt(s) /\ Holds(bufout[s], RawOf(s))
        /\ RawOf(s)' = RawOf(s)
    BY <1>1, <1>4, CpuSlot
  <2>2. ledger'[s] = 2 /\ CpuPastAt(s)' /\ Holds(bufout[s], RawOf(s))'
    BY <1>1, <1>2, <1>4, <2>1 DEF CpuPastAt, CpuPast, Holds
  <2>3. Holds(bckpbuf, RawOf(s))'
    BY <1>1, <1>4, <2>1 DEF SlotData, PackHeld, Holds
  <2> QED
    BY <1>1, <2>2, <2>3 DEF SlotData, InputHeld, TokensHeld, PackHeld, OutputHeld
<1> QED
  BY <1>3, <1>4

\* The packed block takes the place of the raw one, with its length.
LEMMA CpuPackFitsData ==
    ASSUME RingIInv, StreamInv, DataInv, CpuPackFits
    PROVE  DataInv'
<1> DEFINE h == head["cpu"]
<1>1. /\ pc["cpu"] = "pack" /\ UNCHANGED <<queueVars, stream>>
      /\ pc'["cpu"] = "relock" /\ pc'["gpu"] = pc["gpu"] /\ h \in Slots
  BY DEF CpuPackFits, At, Goto, RingIInv, TypeOK, Threads, Stages
<1>2. head' = head /\ ledger' = ledger /\ iter' = iter
  BY <1>1 DEF queueVars
<1>3. PICK len \in CompLens : outsize' = [outsize EXCEPT ![h] = len]
  BY DEF CpuPackFits
<1>4. \A s \in Slots : outsize'[s] = IF s = h THEN len ELSE outsize[s]
  BY <1>3 DEF RingIInv, TypeOK
<1>5. /\ spills > 0 => spills' > 0
      /\ buf'[h] = Packed(bufout[h]) /\ bufout'[h] = bufout[h]
      /\ \A s \in Slots \ {h} :
            /\ buf'[s] = buf[s] \/ (spills' > 0 /\ buf'[s].block = buf[s].block)
            /\ bufout'[s] = bufout[s] \/ (spills' > 0 /\ bufout'[s].block = bufout[s].block)
  <2> DEFINE new == [buf EXCEPT ![h] = Packed(bufout[h])]
  <2>1. PackInto(h, new) /\ TypeOK
    BY DEF CpuPackFits, RingIInv
  <2>2. \A s \in Slots : new[s] = IF s = h THEN Packed(bufout[h]) ELSE buf[s]
    BY <1>1, <2>1 DEF TypeOK
  <2>3. new \in [Slots -> Contents]
    BY <1>1, <2>1, ContentTypes DEF TypeOK
  <2> HIDE DEF new
  <2> QED
    BY <1>1, <2>1, <2>2, <2>3, PackEffect
<1> SUFFICES ASSUME NEW s \in Slots PROVE SlotData(s)'
  BY DEF DataInv
<1>6. CASE s # h
  BY <1>1, <1>4, <1>5, <1>6, CpuOtherSlots
<1>7. CASE s = h
  <2>1. /\ ledger[s] = 2 /\ Holds(bufout[s], RawOf(s)) /\ RawOf(s)' = RawOf(s)
    BY <1>1, <1>7, CpuSlot
  <2>2. ledger'[s] = 2 /\ CpuPastAt(s)' /\ Holds(bufout[s], RawOf(s))'
    BY <1>1, <1>2, <1>5, <1>7, <2>1 DEF CpuPastAt, CpuPast, Holds
  <2>3. buf'[s] = Packed(bufout[s]) /\ BlockAt(s)' = BlockAt(s)
    BY <1>2, <1>5, <1>7 DEF BlockAt, Dist
  <2>4. buf'[s].block = BlockAt(s)
    BY <2>1, <2>3 DEF Holds, RawOf, Packed, Content
  <2>5. spills' > 0 \/ buf'[s] = Content(BlockAt(s), "packed")
    BY <1>5, <2>1, <2>3 DEF Holds, RawOf, Packed, Content
  <2>6. SendSize(s)' = len
    BY <1>4, <1>7, FormatAssumption DEF SendSize
  <2>7. Sendable(s, BlockAt(s))'
    BY <2>3, <2>4, <2>5, <2>6 DEF Sendable, IsChunkOf, ChunksOf, PackedChunk
  <2> QED
    BY <1>1, <2>2, <2>7 DEF SlotData, InputHeld, TokensHeld, PackHeld, OutputHeld
<1> QED
  BY <1>6, <1>7

\* A packing that is given up spoils buf; the copy is still there.
LEMMA CpuPackFailsData ==
    ASSUME RingIInv, StreamInv, DataInv, CpuPackFails
    PROVE  DataInv'
<1> DEFINE h == head["cpu"]
<1>1. /\ pc["cpu"] = "pack" /\ UNCHANGED <<queueVars, bckpbuf, stream>>
      /\ pc'["cpu"] = "restore" /\ pc'["gpu"] = pc["gpu"] /\ h \in Slots
  BY DEF CpuPackFails, At, Goto, RingIInv, TypeOK, Threads, Stages
<1>2. head' = head /\ ledger' = ledger
  BY <1>1 DEF queueVars
<1>3. \A s \in Slots : outsize'[s] = IF s = h THEN 0 ELSE outsize[s]
  BY DEF CpuPackFails, RingIInv, TypeOK
<1>4. /\ spills > 0 => spills' > 0
      /\ bufout'[h] = bufout[h]
      /\ \A s \in Slots \ {h} :
            /\ buf'[s] = buf[s] \/ (spills' > 0 /\ buf'[s].block = buf[s].block)
            /\ bufout'[s] = bufout[s] \/ (spills' > 0 /\ bufout'[s].block = bufout[s].block)
  <2> DEFINE new == [buf EXCEPT ![h] = Spoilt(@)]
  <2>1. PackInto(h, new) /\ TypeOK
    BY DEF CpuPackFails, RingIInv
  <2>2. \A s \in Slots \ {h} : new[s] = buf[s]
    BY <1>1, <2>1 DEF TypeOK
  <2>3. new \in [Slots -> Contents]
    BY <1>1, <2>1, ContentTypes DEF TypeOK, Spoilt
  <2> HIDE DEF new
  <2> QED
    BY <1>1, <2>1, <2>2, <2>3, PackEffect
<1> SUFFICES ASSUME NEW s \in Slots PROVE SlotData(s)'
  BY DEF DataInv
<1>5. CASE s # h
  BY <1>1, <1>3, <1>4, <1>5, CpuOtherSlots
<1>6. CASE s = h
  <2>1. /\ ledger[s] = 2 /\ SlotData(s) /\ CpuPastAt(s) /\ Holds(bufout[s], RawOf(s))
        /\ RawOf(s)' = RawOf(s)
    BY <1>1, <1>6, CpuSlot
  <2>2. ledger'[s] = 2 /\ CpuPastAt(s)' /\ Holds(bufout[s], RawOf(s))'
    BY <1>1, <1>2, <1>4, <1>6, <2>1 DEF CpuPastAt, CpuPast, Holds
  <2>3. Holds(bckpbuf, RawOf(s))' /\ outsize'[s] = 0
    BY <1>1, <1>3, <1>4, <1>6, <2>1 DEF SlotData, PackHeld, Holds
  <2> QED
    BY <1>1, <2>2, <2>3 DEF SlotData, InputHeld, TokensHeld, PackHeld, OutputHeld
<1> QED
  BY <1>5, <1>6

\* The copy goes back: the block will be sent raw, as outsize already says.
LEMMA CpuRestoreData ==
    ASSUME RingIInv, StreamInv, DataInv, CpuRestore
    PROVE  DataInv'
<1> DEFINE h == head["cpu"]
<1>1. /\ pc["cpu"] = "restore" /\ UNCHANGED <<queueVars, bufout, outsize, bckpbuf, spills, stream>>
      /\ pc'["cpu"] = "relock" /\ pc'["gpu"] = pc["gpu"]
  BY DEF CpuRestore, At, Goto, RingIInv, TypeOK, Threads, Stages
<1>2. head' = head /\ ledger' = ledger /\ iter' = iter
  BY <1>1 DEF queueVars
<1>3. \A s \in Slots : buf'[s] = IF s = h THEN bckpbuf ELSE buf[s]
  BY DEF CpuRestore, RingIInv, TypeOK
<1> SUFFICES ASSUME NEW s \in Slots PROVE SlotData(s)'
  BY DEF DataInv
<1>4. CASE s # h
  BY <1>1, <1>3, <1>4, CpuOtherSlots
<1>5. CASE s = h
  <2>1. /\ ledger[s] = 2 /\ SlotData(s) /\ CpuPastAt(s) /\ Holds(bufout[s], RawOf(s))
        /\ RawOf(s)' = RawOf(s)
    BY <1>1, <1>5, CpuSlot
  <2>2. ledger'[s] = 2 /\ CpuPastAt(s)' /\ Holds(bufout[s], RawOf(s))'
    BY <1>1, <1>2, <1>5, <2>1 DEF CpuPastAt, CpuPast, Holds
  <2>3. Holds(bckpbuf, RawOf(s)) /\ outsize[s] = 0
    BY <1>1, <2>1 DEF SlotData, PackHeld
  <2>4. /\ buf'[s].block = BlockAt(s) /\ BlockAt(s)' = BlockAt(s)
        /\ spills' > 0 \/ buf'[s] = Content(BlockAt(s), "raw")
    BY <1>1, <1>2, <1>3, <1>5, <2>3 DEF RawOf, BlockAt, Dist, Holds, Content
  <2>5. SendSize(s)' = BlockSize
    BY <1>1, <2>3 DEF SendSize
  <2>6. Sendable(s, BlockAt(s))'
    BY <2>4, <2>5 DEF Sendable, IsChunkOf, ChunksOf, RawChunk
  <2> QED
    BY <1>1, <2>2, <2>6 DEF SlotData, InputHeld, TokensHeld, PackHeld, OutputHeld
<1> QED
  BY <1>4, <1>5

LEMMA DataStep == RingIInv /\ StreamInv /\ DataInv /\ [Next]_vars => DataInv'
<1> SUFFICES ASSUME RingIInv, StreamInv, DataInv, [Next]_vars PROVE DataInv'
  OBVIOUS
<1> USE DEF At
<1>0. /\ pc \in [Threads -> Labels] /\ Stages \subseteq Threads /\ TypeOK
      /\ {"pro", "gpu", "cpu", "snd"} = Stages
  BY DEF RingIInv, TypeOK, Threads, Stages
<1>1. ASSUME NEW t \in Stages, LoopStep(t)
      PROVE  DataInv'
  <2>1. CASE Enter(t)
    BY <1>0, <2>1, QuietData DEF Enter, Goto, CpuPast
  <2>2. CASE LoopEnd(t)
    BY <1>0, <2>2, QuietData DEF LoopEnd, Goto, CpuPast
  <2>3. CASE Acquire(t)
    BY <1>0, <2>3, QuietData DEF Acquire, Goto, CpuPast
  <2>4. CASE NotReady(t)
    BY <1>0, <2>4, QuietData DEF NotReady, Goto, CpuPast
  <2>5. CASE CondWait(t)
    BY <1>0, <2>5, QuietData DEF CondWait, Goto, CpuPast
  <2>6. CASE Ready(t)
    BY <1>0, <2>6, QuietData DEF Ready, Goto, CpuPast, WorkOf
  <2>7. CASE Signal(t)
    BY <1>0, <2>7, QuietData DEF Signal, CpuPast
  <2>8. CASE Publish(t)
    BY <2>8, PublishData
  <2>9. CASE Finish(t)
    BY <1>0, <2>9, QuietData DEF Finish, Goto, CpuPast
  <2> QED
    BY <1>1, <2>1, <2>2, <2>3, <2>4, <2>5, <2>6, <2>7, <2>8, <2>9 DEF LoopStep
<1>2. ASSUME NEW t \in Stages, WorkStep(t)
      PROVE  DataInv'
  <2>1. CASE ProducerOpen
    BY <1>0, <2>1, QuietData DEF ProducerOpen, Goto
  <2>2. CASE SenderOpen
    BY <1>0, <2>2, QuietData DEF SenderOpen, Goto
  <2> QED
    BY <1>2, <2>1, <2>2, FillData, IssueData, CpuSyncData, CpuBackupData,
       CpuPackFitsData, CpuPackFailsData, CpuRestoreData, SendData DEF WorkStep
<1>3. ASSUME NEW t \in Stages, SpuriousWakeup(t)
      PROVE  DataInv'
  BY <1>0, <1>3, QuietData DEF SpuriousWakeup, Goto, CpuPast
<1>4. ASSUME NEW t \in Stages, Fail(t)
      PROVE  DataInv'
  BY <1>4, QuietData DEF Fail
<1>5. ASSUME NEW s \in Slots, DeviceRun(s) \/ DeviceError(s)
      PROVE  DataInv'
  BY <1>5, DeviceData, DeviceErrorData
<1>6. CASE MainStep
  BY <1>0, <1>6, MainQuiet, QuietData
<1>7. CASE UNCHANGED vars
  BY <1>7, QuietData DEF vars
<1> QED
  BY <1>1, <1>2, <1>3, <1>4, <1>5, <1>6, <1>7 DEF Next, StageStep

-----------------------------------------------------------------------------
(* The file.                                                               *)

LEMMA FileTypes ==
    ASSUME TypeOK
    PROVE  /\ \A b \in 0 .. NumBlocks - 1 : bookkeeping[b] \in Int
           /\ \A k \in 1 .. Len(outFile) : outFile[k].size \in Int
<1>1. Nat \cup {Unset} \subseteq Int
  BY DEF Unset
<1>2. \A b \in 0 .. NumBlocks - 1 : bookkeeping[b] \in Nat \cup {Unset}
  BY DEF TypeOK
<1>3. ASSUME NEW k \in 1 .. Len(outFile)
      PROVE  outFile[k] \in [block : {NoBlock} \cup 0 .. NumBlocks - 1,
                            form : Forms, size : Nat]
  <2>1. outFile \in Seq([block : {NoBlock} \cup 0 .. NumBlocks - 1,
                        form : Forms, size : Nat])
    BY DEF TypeOK
  <2> QED
    BY <2>1, ElementOfSeq
<1>4. \A k \in 1 .. Len(outFile) : outFile[k].size \in Int
  BY <1>3
<1> QED
  BY <1>1, <1>2, <1>4

\* The next chunk is one the sender's next block can be restored from, and
\* its end offset continues the running sum.
LEMMA SendFile ==
    ASSUME RingIInv, DataInv, OutputInOrder, OffsetsInv, SenderSend
    PROVE  OutputInOrder' /\ OffsetsInv'
<1> DEFINE s == head["snd"]
           i == iter["snd"]
           chunk == Chunk(buf[s], SendSize(s))
<1>1. /\ pc["snd"] \in Working /\ "snd" \in Stages
      /\ bookkeeping' = [bookkeeping EXCEPT ![i] = SendSize(s) + OffsetBefore(i)]
      /\ outFile' = Append(outFile, chunk)
      /\ iter' = [iter EXCEPT !["snd"] = @ + 1]
  BY DEF SenderSend, At, Working, PassOn, Stages
<1>2. s \in Slots /\ ledger[s] = 3 /\ BlockAt(s) = i /\ i \in 0 .. NumBlocks - 1
  BY <1>1, WorkBlock DEF Want
<1>3. /\ chunk.block = i /\ (spills > 0 \/ IsChunkOf(chunk, i))
      /\ spills' = spills
  BY <1>2 DEF DataInv, SlotData, OutputHeld, Sendable, Chunk, SenderSend, dataVars
<1>4. iter'["snd"] = i + 1 /\ Len(outFile) = i
  BY <1>1 DEF OutputInOrder, RingIInv, TypeOK
<1>5. /\ Len(outFile') = i + 1
      /\ \A k \in 1 .. i : outFile'[k] = outFile[k]
      /\ outFile'[i + 1] = chunk
  BY <1>1, <1>2, <1>4 DEF RingIInv, TypeOK
<1>6. OutputInOrder'
  <2>1. \A k \in 1 .. i : /\ outFile[k].block = k - 1
                          /\ spills > 0 \/ IsChunkOf(outFile[k], k - 1)
    BY <1>4 DEF OutputInOrder
  <2>2. \A k \in 1 .. i + 1 : /\ outFile'[k].block = k - 1
                              /\ spills' > 0 \/ IsChunkOf(outFile'[k], k - 1)
    <3> SUFFICES ASSUME NEW k \in 1 .. i + 1
                 PROVE  /\ outFile'[k].block = k - 1
                        /\ spills' > 0 \/ IsChunkOf(outFile'[k], k - 1)
      OBVIOUS
    <3>1. CASE k \in 1 .. i
      BY <1>3, <1>5, <2>1, <3>1
    <3>2. CASE k = i + 1
      <4>1. k - 1 = i /\ outFile'[k] = chunk
        BY <1>2, <1>5, <3>2
      <4> QED
        BY <1>3, <4>1
    <3> QED
      BY <1>2, <3>1, <3>2
  <2> QED
    BY <1>4, <1>5, <2>2 DEF OutputInOrder
<1>7. OffsetsInv'
  <2>1. /\ \A b \in 0 .. NumBlocks - 1 : bookkeeping'[b] =
              IF b = i THEN SendSize(s) + OffsetBefore(i) ELSE bookkeeping[b]
        /\ \A b \in 0 .. NumBlocks - 1 : bookkeeping[b] \in Int
    BY <1>1, FileTypes DEF RingIInv, TypeOK
  <2>2. ASSUME NEW b \in 0 .. i
        PROVE  OffsetBefore(b)' = OffsetBefore(b) /\ OffsetBefore(b) \in Int
    <3>1. b # 0 => b - 1 \in 0 .. NumBlocks - 1 /\ b - 1 # i
      BY <1>2, SizesAssumption
    <3> QED
      BY <3>1, <2>1 DEF OffsetBefore
  <2>3. chunk.size = SendSize(s) /\ SendSize(s) \in Int
    <3>1. outsize[s] \in {0} \cup CompLens
      BY <1>2 DEF RingIInv, TypeOK
    <3>2. SendSize(s) \in Nat \ {0}
      BY <3>1, FormatAssumption DEF SendSize
    <3> QED
      BY <3>2 DEF Chunk
  <2>4. ASSUME NEW b \in 0 .. i
        PROVE  bookkeeping'[b] = OffsetBefore(b)' + outFile'[b + 1].size
    <3>1. CASE b = i
      <4>1. outFile'[b + 1].size = SendSize(s)
        BY <1>5, <2>3, <3>1
      <4>2. bookkeeping'[b] = SendSize(s) + OffsetBefore(b)
        BY <1>2, <2>1, <3>1
      <4> QED
        BY <4>1, <4>2, <2>2, <2>3
    <3>2. CASE b # i
      <4>1. b \in 0 .. i - 1 /\ b \in 0 .. NumBlocks - 1 /\ b + 1 \in 1 .. i
        BY <1>2, <3>2, SizesAssumption
      <4>2. bookkeeping[b] = OffsetBefore(b) + outFile[b + 1].size
        BY <4>1 DEF OffsetsInv
      <4> QED
        BY <4>1, <4>2, <3>2, <1>5, <2>1, <2>2
    <3> QED
      BY <3>1, <3>2
  <2>5. iter'["snd"] - 1 = i
    BY <1>2, <1>4
  <2> QED
    BY <1>4, <1>5, <2>4, <2>5 DEF OffsetsInv
<1> QED
  BY <1>6, <1>7

\* A spill is never taken off the record.
LEMMA SpillsStay ==
    ASSUME TypeOK, [Next]_vars, spills > 0
    PROVE  spills' > 0
<1>0. head["cpu"] \in Slots /\ buf \in [Slots -> Contents] /\ bufout \in [Slots -> Contents]
  BY DEF TypeOK, Stages
<1>1. ASSUME NEW t \in Stages, LoopStep(t)
      PROVE  spills' = spills
  BY <1>1 DEF LoopStep, Enter, LoopEnd, Acquire, NotReady, CondWait, Ready, Signal,
     Publish, Finish, dataVars
<1>2. CASE CpuPackFits \/ CpuPackFails
  BY <1>0, <1>2 DEF CpuPackFits, CpuPackFails, PackInto, TypeOK
<1>3. ASSUME NEW t \in Stages, WorkStep(t), ~ CpuPackFits, ~ CpuPackFails
      PROVE  spills' = spills
  BY <1>3 DEF WorkStep, ProducerOpen, ProducerFill, GpuIssue, CpuSync, CpuBackup,
     CpuRestore, SenderOpen, SenderSend, dataVars
<1>4. CASE \/ \E t \in Stages : SpuriousWakeup(t) \/ Fail(t)
           \/ \E s \in Slots : DeviceRun(s) \/ DeviceError(s)
           \/ UNCHANGED vars
  BY <1>4 DEF SpuriousWakeup, Fail, DeviceRun, DeviceError, vars, dataVars
<1>5. CASE MainStep
  BY <1>5 DEF MainStep, JoinConsumers, JoinProducer, SignalExit, QueueDelete,
     MainReturn, dataVars
<1> QED
  BY <1>1, <1>2, <1>3, <1>4, <1>5 DEF Next, StageStep

\* Only the sender writes the file and moves its counter.
LEMMA FileMoves ==
    ASSUME TypeOK, [Next]_vars, ~ SenderSend
    PROVE  UNCHANGED <<bookkeeping, outFile>> /\ iter'["snd"] = iter["snd"]
<1>0. iter \in [Stages -> 0 .. NumBlocks] /\ "snd" \in Stages
  BY DEF TypeOK, Stages
<1>1. ASSUME NEW t \in Stages, LoopStep(t)
      PROVE  UNCHANGED <<bookkeeping, outFile>> /\ iter'["snd"] = iter["snd"]
  <2>1. CASE Publish(t)
    BY <1>0, <2>1 DEF Publish, PassOn, fileVars
  <2>2. CASE Finish(t)
    BY <2>2 DEF Finish, queueVars
  <2>3. CASE ~ Publish(t) /\ ~ Finish(t)
    BY <1>1, <2>3 DEF LoopStep, Enter, LoopEnd, Acquire, NotReady, CondWait, Ready,
       Signal, queueVars, fileVars
  <2> QED
    BY <2>1, <2>2, <2>3
<1>2. ASSUME NEW t \in Stages, WorkStep(t)
      PROVE  UNCHANGED <<bookkeeping, outFile>> /\ iter'["snd"] = iter["snd"]
  <2>1. CASE ProducerFill
    BY <1>0, <2>1 DEF ProducerFill, PassOn, fileVars
  <2>2. CASE ~ ProducerFill
    BY <1>2, <2>2 DEF WorkStep, ProducerOpen, GpuIssue, CpuSync, CpuBackup,
       CpuPackFits, CpuPackFails, CpuRestore, SenderOpen, queueVars, fileVars
  <2> QED
    BY <2>1, <2>2
<1>3. CASE \/ \E t \in Stages : SpuriousWakeup(t) \/ Fail(t)
           \/ \E s \in Slots : DeviceRun(s) \/ DeviceError(s)
           \/ UNCHANGED vars
  BY <1>3 DEF SpuriousWakeup, Fail, DeviceRun, DeviceError, vars, queueVars, fileVars
<1>4. CASE MainStep
  BY <1>4, MainQuiet DEF queueVars, fileVars
<1> QED
  BY <1>1, <1>2, <1>3, <1>4 DEF Next, StageStep

LEMMA FileStep ==
    RingIInv /\ DataInv /\ OutputInOrder /\ OffsetsInv /\ [Next]_vars
        => OutputInOrder' /\ OffsetsInv'
<1> SUFFICES ASSUME RingIInv, DataInv, OutputInOrder, OffsetsInv, [Next]_vars
             PROVE  OutputInOrder' /\ OffsetsInv'
  OBVIOUS
<1>1. CASE SenderSend
  BY <1>1, SendFile
<1>2. CASE ~ SenderSend
  <2>1. outFile' = outFile /\ bookkeeping' = bookkeeping /\ iter'["snd"] = iter["snd"]
    BY <1>2, FileMoves DEF RingIInv
  <2>2. OutputInOrder'
    BY <2>1, SpillsStay DEF OutputInOrder, RingIInv
  <2>3. OffsetsInv'
    BY <2>1 DEF OffsetsInv, OffsetBefore
  <2> QED
    BY <2>2, <2>3
<1> QED
  BY <1>1, <1>2

-----------------------------------------------------------------------------
(* The invariant as a whole.                                               *)

LEMMA IInvInit == Init => IInv
<1> SUFFICES ASSUME Init PROVE IInv
  OBVIOUS
<1>1. RingIInv /\ WaitInv /\ EndInv
  BY RingInit, WaitInit, EndInit
<1>2. StreamInv
  BY DEF Init, StreamInv
<1>3. DataInv
  <2>1. \A s \in Slots : ledger[s] = 0
    BY DEF Init
  <2> QED
    BY <2>1 DEF DataInv, SlotData, InputHeld, TokensHeld, PackHeld, OutputHeld
<1>4. OutputInOrder /\ OffsetsInv
  BY DEF Init, OutputInOrder, OffsetsInv, Stages
<1> QED
  BY <1>1, <1>2, <1>3, <1>4 DEF IInv

LEMMA IInvStep == IInv /\ [Next]_vars => IInv'
BY RingStep, WaitStep, EndStep, StreamStep, DataStep, FileStep DEF IInv

\* The inductive invariant of the pipeline holds in every run of it.
THEOREM InvariantHolds == Spec => []IInv
BY IInvInit, IInvStep, PTL DEF Spec

\* The file holds the blocks in order, each in a form it can be restored
\* from: the slot's size and buffer always belong to one block, packed or put
\* back, and no slot is sent before its time or refilled before it is sent.
THEOREM FileInOrder == Spec => []OutputInOrder
<1>1. IInv => OutputInOrder
  BY DEF IInv
<1> QED
  BY <1>1, InvariantHolds, PTL

\* A final header is written only when all chunks are in the file, and the
\* differences of its offsets are their sizes.
THEOREM HeaderRight == Spec => []HeaderDescribesFile
<1>1. IInv => HeaderDescribesFile
  <2> SUFFICES ASSUME IInv, fileHeader = "final"
               PROVE  /\ Len(outFile) = NumBlocks
                      /\ bookkeeping[0] = outFile[1].size
                      /\ \A b \in 1 .. NumBlocks - 1 :
                            bookkeeping[b] - bookkeeping[b - 1] = outFile[b + 1].size
    BY DEF HeaderDescribesFile
  <2>1. iter["snd"] = NumBlocks
    BY DEF IInv, EndInv, Stages
  <2>2. /\ Len(outFile) = NumBlocks
        /\ \A b \in 0 .. NumBlocks - 1 :
              bookkeeping[b] = OffsetBefore(b) + outFile[b + 1].size
    BY <2>1 DEF IInv, OffsetsInv
  <2>3. ASSUME NEW b \in 0 .. NumBlocks - 1
        PROVE  bookkeeping[b] \in Int /\ outFile[b + 1].size \in Int
    <3>1. b + 1 \in 1 .. Len(outFile)
      BY <2>2, SizesAssumption
    <3> QED
      BY <3>1, FileTypes DEF IInv, RingIInv
  <2>4. bookkeeping[0] = outFile[1].size
    <3>1. 0 \in 0 .. NumBlocks - 1
      BY SizesAssumption
    <3>2. outFile[0 + 1].size \in Int /\ bookkeeping[0] = 0 + outFile[0 + 1].size
      BY <3>1, <2>2, <2>3 DEF OffsetBefore
    <3> QED
      BY <3>2
  <2>5. ASSUME NEW b \in 1 .. NumBlocks - 1
        PROVE  bookkeeping[b] - bookkeeping[b - 1] = outFile[b + 1].size
    <3>1. b \in 0 .. NumBlocks - 1 /\ b - 1 \in 0 .. NumBlocks - 1 /\ b # 0
      BY SizesAssumption
    <3>2. bookkeeping[b] = bookkeeping[b - 1] + outFile[b + 1].size
      BY <3>1, <2>2 DEF OffsetBefore
    <3> QED
      BY <3>1, <3>2, <2>3
  <2> QED
    BY <2>2, <2>4, <2>5
<1> QED
  BY <1>1, InvariantHolds, PTL

-----------------------------------------------------------------------------
(* The pipeline implements the abstract stream.                            *)

OutBlocks == [k \in 1 .. Len(outFile) |-> outFile[k].block]

\* The blocks in the file are the first ones, in order.
LEMMA OutFirstBlocks ==
    ASSUME NEW file, NEW n, Len(file) = n,
           \A k \in 1 .. Len(file) : file[k].block = k - 1
    PROVE  [k \in 1 .. Len(file) |-> file[k].block] = FirstBlocks(n)
BY DEF FirstBlocks

\* Who moves what of the abstract stream.
LEMMA StreamMoves ==
    ASSUME TypeOK, [Next]_vars
    PROVE  /\ ~ ProducerFill => iter'["pro"] = iter["pro"]
           /\ ~ MainReturn /\ ~ (\E t \in Stages : Fail(t)) => proc' = proc
<1>0. iter \in [Stages -> 0 .. NumBlocks] /\ {"pro", "snd"} \subseteq Stages
  BY DEF TypeOK, Stages
<1>1. ASSUME NEW t \in Stages, LoopStep(t)
      PROVE  iter'["pro"] = iter["pro"] /\ proc' = proc
  <2>1. CASE Publish(t)
    BY <1>0, <2>1 DEF Publish, PassOn, endVars
  <2>2. CASE ~ Publish(t)
    BY <1>1, <2>2 DEF LoopStep, Enter, LoopEnd, Acquire, NotReady, CondWait, Ready,
       Signal, Finish, queueVars, endVars
  <2> QED
    BY <2>1, <2>2
<1>2. ASSUME NEW t \in Stages, WorkStep(t)
      PROVE  (~ ProducerFill => iter'["pro"] = iter["pro"]) /\ proc' = proc
  <2>1. CASE SenderSend
    BY <1>0, <2>1 DEF SenderSend, PassOn, endVars
  <2>2. CASE ProducerFill
    BY <2>2 DEF ProducerFill, endVars
  <2>3. CASE ~ SenderSend /\ ~ ProducerFill
    BY <1>2, <2>3 DEF WorkStep, ProducerOpen, GpuIssue, CpuSync, CpuBackup,
       CpuPackFits, CpuPackFails, CpuRestore, SenderOpen, queueVars, endVars
  <2> QED
    BY <2>1, <2>2, <2>3
<1>3. CASE \/ \E t \in Stages : SpuriousWakeup(t)
           \/ \E s \in Slots : DeviceRun(s) \/ DeviceError(s)
           \/ UNCHANGED vars
  BY <1>3 DEF SpuriousWakeup, DeviceRun, DeviceError, vars, queueVars, endVars
<1>4. ASSUME NEW t \in Stages, Fail(t)
      PROVE  iter'["pro"] = iter["pro"]
  BY <1>4 DEF Fail, queueVars
<1>5. CASE MainStep
  BY <1>5 DEF MainStep, JoinConsumers, JoinProducer, SignalExit, QueueDelete,
     MainReturn, queueVars, endVars
<1> QED
  BY <1>1, <1>2, <1>3, <1>4, <1>5 DEF Next, StageStep

\* The producer is never a whole turn of the ring ahead when it reads; what
\* the sender writes is the next block; main returns only when all is written.
LEMMA StreamNext ==
    ASSUME IInv, IInv', [Next]_vars
    PROVE  [Stream!BSNext]_(Stream!bsVars)
<1>0. /\ TypeOK /\ RingInv /\ Len(outFile) = iter["snd"]
      /\ iter["snd"] \in Nat /\ iter["pro"] \in Nat /\ {"pro", "snd"} \subseteq Stages
      /\ iter["pro"] <= NumBlocks
  BY SMTT(30) DEF IInv, RingIInv, TypeOK, Stages, OutputInOrder
<1>1. /\ OutBlocks = FirstBlocks(iter["snd"]) /\ OutBlocks' = FirstBlocks(iter'["snd"])
      /\ Len(OutBlocks) = iter["snd"]
  <2>1. OutBlocks = FirstBlocks(iter["snd"])
    BY OutFirstBlocks DEF IInv, OutputInOrder, OutBlocks
  <2>2. OutBlocks' = FirstBlocks(iter'["snd"])
    BY OutFirstBlocks DEF IInv, OutputInOrder, OutBlocks
  <2> QED
    BY <1>0, <2>1, <2>2, FirstBlocksLen
<1>2. ~ SenderSend => OutBlocks' = OutBlocks
  BY <1>0, <1>1, FileMoves
<1>3. CASE ProducerFill
  <2>1. pc["pro"] \in Working /\ proc = "running" /\ proc' = proc
    BY <1>3 DEF ProducerFill, At, Working, endVars
  <2>2. iter["pro"] < NumBlocks /\ iter["pro"] - iter["snd"] < NumSlots
    BY <1>0, <2>1, WorkBlock, ReadyPlace, SizesAssumption DEF IInv, Lead
  <2>3. iter'["pro"] = iter["pro"] + 1
    BY <1>0, <1>3 DEF ProducerFill, PassOn, TypeOK
  <2>4. ~ SenderSend
    BY <1>0, <2>3 DEF SenderSend, PassOn, TypeOK
  <2>5. Stream!Accept
    BY <1>1, <1>2, <2>1, <2>2, <2>3, <2>4 DEF Stream!Accept, OutBlocks
  <2> QED
    BY <2>5 DEF Stream!BSNext
<1>4. CASE SenderSend
  <2>1. pc["snd"] \in Working /\ proc = "running" /\ proc' = proc
    BY <1>4 DEF SenderSend, At, Working, endVars
  <2>2. iter["snd"] < iter["pro"]
    BY <1>0, <2>1, WorkBlock, ReadyPlace DEF IInv, Want
  <2>3. iter'["snd"] = iter["snd"] + 1 /\ iter'["pro"] = iter["pro"]
    BY <1>0, <1>4 DEF SenderSend, PassOn, TypeOK
  <2>4. OutBlocks' = Append(OutBlocks, Len(OutBlocks))
    BY <1>0, <1>1, <2>3, FirstBlocksNext
  <2>5. Stream!Deliver
    BY <1>1, <2>1, <2>2, <2>3, <2>4 DEF Stream!Deliver, OutBlocks
  <2> QED
    BY <2>5 DEF Stream!BSNext
<1>5. CASE MainReturn
  <2>1. /\ proc = "running" /\ proc' = "exited" /\ pc["main"] = "return"
        /\ iter' = iter
    BY <1>5 DEF MainReturn, At, queueVars
  <2>2. iter["snd"] = NumBlocks
    BY <2>1 DEF IInv, EndInv, Stages
  <2>3. OutBlocks' = OutBlocks
    BY <1>1, <2>1
  <2>4. Stream!Complete
    BY <1>1, <2>1, <2>2, <2>3 DEF Stream!Complete, OutBlocks
  <2> QED
    BY <2>4 DEF Stream!BSNext
<1>6. ASSUME NEW t \in Stages, Fail(t)
      PROVE  Stream!BSNext
  <2>1. proc = "running" /\ proc' = "failed" /\ iter' = iter
    BY <1>6 DEF Fail, queueVars
  <2>2. OutBlocks' = OutBlocks
    BY <1>1, <2>1
  <2>3. Stream!GiveUp
    BY <2>1, <2>2 DEF Stream!GiveUp, OutBlocks
  <2> QED
    BY <2>3 DEF Stream!BSNext
<1>7. CASE /\ ~ ProducerFill /\ ~ SenderSend /\ ~ MainReturn
           /\ ~ \E t \in Stages : Fail(t)
  <2>1. iter'["pro"] = iter["pro"] /\ proc' = proc /\ OutBlocks' = OutBlocks
    BY <1>0, <1>2, <1>7, StreamMoves
  <2> QED
    BY <2>1 DEF Stream!bsVars, OutBlocks
<1> QED
  BY <1>3, <1>4, <1>5, <1>6, <1>7

LEMMA StreamInit == Init => Stream!BSInit
<1> SUFFICES ASSUME Init PROVE Stream!BSInit
  OBVIOUS
<1>1. OutputInOrder /\ iter["snd"] = 0 /\ iter["pro"] = 0 /\ proc = "running"
  BY DEF Init, OutputInOrder, Stages
<1>2. OutBlocks = <<>>
  BY <1>1, OutFirstBlocks, FirstBlocksEmpty DEF OutputInOrder, OutBlocks
<1> QED
  BY <1>1, <1>2 DEF Stream!BSInit, OutBlocks

\* Whatever fails, and however the threads interleave, the pipeline behaves
\* as a first-in first-out stream that holds at most a ring of blocks, and it
\* ends normally only when the whole file is written.
THEOREM PipelineIsStream == Spec => ImplementsStream
<1>1. Init => Stream!BSInit
  BY StreamInit
<1>2. IInv /\ IInv' /\ [Next]_vars => [Stream!BSNext]_(Stream!bsVars)
  BY StreamNext
<1> QED
  BY <1>1, <1>2, InvariantHolds, PTL DEF Spec, ImplementsStream, Stream!BSSpec

-----------------------------------------------------------------------------
(* The pipeline under SIGINT (CulzssInterrupt): what of its invariant      *)
(* survives an interrupt, and that the count in exit_signal is one nobody  *)
(* can reach too early.                                                    *)

Consumers == {"gpu", "cpu", "snd"}

\* All of the invariant but what it says about the end of the threads.
PipeInv == RingIInv /\ WaitInv /\ StreamInv /\ DataInv /\ OutputInOrder /\ OffsetsInv

-----------------------------------------------------------------------------
(* The count of those who have left.                                       *)

OutOfLoop(t) == pc[t] \in {"finish", "done"}
Left(t) == IF OutOfLoop(t) THEN 1 ELSE 0
Asked == IF hpc \in {"spin", "exit", "done"} THEN 1 ELSE 0

\* As long as main has not joined the consumers, exit_signal counts the
\* handler and at most those consumers that have left; main joins only
\* consumers that have ended, and the queue is freed when all have left.
ExitInv ==
    /\ pc["main"] = "join" => exit_signal <= Asked + Left("gpu") + Left("cpu") + Left("snd")
    /\ pc["main"] # "join" => \A t \in Consumers : OutOfLoop(t)
    /\ FreedAfterConsumersLeft

\* A stage that has left its loop does not enter it again, and one that
\* counts itself leaves in the same step.
LEMMA StageLeaves ==
    ASSUME TypeOK, NEW t \in Stages, StageStep(t) \/ SpuriousWakeup(t) \/ Fail(t)
    PROVE  /\ pc'["main"] = pc["main"] /\ freed' = freed
           /\ \A u \in Stages : OutOfLoop(u) => OutOfLoop(u)'
           /\ \/ exit_signal' = exit_signal
              \/ /\ t \in Consumers /\ ~ OutOfLoop(t) /\ OutOfLoop(t)'
                 /\ exit_signal' = exit_signal + 1
<1> USE DEF At, OutOfLoop, endVars
<1>0. /\ pc \in [Threads -> Labels] /\ t \in Threads /\ Stages \subseteq Threads
      /\ "main" \in Threads /\ "main" \notin Stages
  BY DEF TypeOK, Threads, Stages
<1>1. CASE Enter(t)
  <2>1. t # "pro" => t \in Consumers
    BY DEF Stages, Consumers
  <2> QED
    BY <1>0, <1>1, <2>1 DEF Enter, Goto
<1>2. CASE LoopEnd(t) \/ Finish(t)
  BY <1>0, <1>2 DEF LoopEnd, Finish, Goto
<1>3. CASE Acquire(t) \/ NotReady(t) \/ CondWait(t) \/ Ready(t)
  BY <1>0, <1>3 DEF Acquire, NotReady, CondWait, Ready, Goto
<1>4. CASE Signal(t)
  <2>1. WaiterOf[t] # "main"
    BY DEF WaiterOf, Stages
  <2> QED
    BY <1>0, <1>4, <2>1 DEF Signal
<1>5. CASE Publish(t)
  BY <1>0, <1>5 DEF Publish, PassOn, Goto
<1>6. CASE WorkStep(t)
  BY <1>0, <1>6 DEF WorkStep, ProducerOpen, ProducerFill, GpuIssue, CpuSync,
     CpuBackup, CpuPackFits, CpuPackFails, CpuRestore, SenderOpen, SenderSend,
     PassOn, Goto
<1>7. CASE SpuriousWakeup(t) \/ Fail(t)
  BY <1>0, <1>7 DEF SpuriousWakeup, Fail, Goto
<1> QED
  BY <1>1, <1>2, <1>3, <1>4, <1>5, <1>6, <1>7 DEF StageStep, LoopStep

LEMMA ThreadExit ==
    ASSUME TypeOK, ExitInv, NEW t \in Threads, ThreadStep(t)
    PROVE  ExitInv'
<1>0. /\ exit_signal \in Nat /\ Asked' = Asked /\ Asked \in {0, 1}
      /\ Consumers \subseteq Stages /\ Consumers = {"gpu", "cpu", "snd"}
      /\ pc \in [Threads -> Labels] /\ "main" \in Threads
      /\ \A u \in Consumers : u \in Threads /\ u # "main"
  BY DEF TypeOK, ThreadStep, handlerVars, Asked, Consumers, Stages, Threads
<1>1. CASE t \in Stages /\ (StageStep(t) \/ SpuriousWakeup(t) \/ Fail(t))
  <2>1. /\ pc'["main"] = pc["main"] /\ freed' = freed
        /\ \A u \in Consumers : OutOfLoop(u) => OutOfLoop(u)'
        /\ \/ exit_signal' = exit_signal
           \/ /\ t \in Consumers /\ ~ OutOfLoop(t) /\ OutOfLoop(t)'
              /\ exit_signal' = exit_signal + 1
    BY <1>0, <1>1, StageLeaves
  <2>2. pc'["main"] = "join" =>
           exit_signal' <= Asked' + Left("gpu")' + Left("cpu")' + Left("snd")'
    BY <1>0, <2>1 DEF ExitInv, Left
  <2> QED
    BY <1>0, <2>1, <2>2 DEF ExitInv, FreedAfterConsumersLeft, OutOfLoop
<1>2. CASE t = "main" /\ MainStep
  <2>1. \A u \in Consumers : pc'[u] = pc[u]
    BY <1>0, <1>2, MainQuiet
  <2>2. /\ pc'["main"] # "join"
        /\ \A u \in Consumers : OutOfLoop(u)
    BY <1>0, <1>2 DEF MainStep, JoinConsumers, JoinProducer, SignalExit, QueueDelete,
       MainReturn, Goto, At, ExitInv, OutOfLoop
  <2> QED
    BY <1>0, <2>1, <2>2 DEF ExitInv, FreedAfterConsumersLeft, OutOfLoop
<1> QED
  BY <1>1, <1>2 DEF ThreadStep

\* The handler waits until exit_signal is over 3: itself and three others.
LEMMA HandlerExits ==
    ASSUME TypeOK, ExitInv, HandlerStep
    PROVE  ExitInv'
<1>0. exit_signal \in Nat /\ Consumers = {"gpu", "cpu", "snd"}
  BY DEF TypeOK, Consumers
<1>1. pc' = pc
  BY DEF HandlerStep, HandlerSignalExit, HandlerDelete, HandlerExit
<1>2. Left("gpu")' = Left("gpu") /\ Left("cpu")' = Left("cpu") /\ Left("snd")' = Left("snd")
  BY <1>1 DEF Left, OutOfLoop
<1>3. /\ Left("gpu") \in {0, 1} /\ Left("cpu") \in {0, 1} /\ Left("snd") \in {0, 1}
      /\ Asked \in {0, 1}
  BY DEF Left, Asked
<1>4. CASE HandlerSignalExit
  <2>1. Asked = 0 /\ Asked' = 1 /\ exit_signal' = exit_signal + 1 /\ freed' = freed
    BY <1>4 DEF HandlerSignalExit, HandlerAt, Asked
  <2> QED
    BY <1>0, <1>1, <1>2, <1>3, <2>1 DEF ExitInv, FreedAfterConsumersLeft, OutOfLoop
<1>5. CASE HandlerDelete
  <2>1. Asked' = Asked /\ exit_signal' = exit_signal /\ exit_signal > 3
    BY <1>5 DEF HandlerDelete, HandlerAt, Asked
  <2>2. \A u \in Consumers : OutOfLoop(u)
    <3>1. CASE pc["main"] = "join"
      <4>1. Left("gpu") = 1 /\ Left("cpu") = 1 /\ Left("snd") = 1
        BY <1>0, <1>3, <2>1, <3>1 DEF ExitInv
      <4> QED
        BY <1>0, <4>1 DEF Left
    <3>2. CASE pc["main"] # "join"
      BY <3>2 DEF ExitInv
    <3> QED
      BY <3>1, <3>2
  <2> QED
    BY <1>0, <1>1, <1>2, <2>1, <2>2 DEF ExitInv, FreedAfterConsumersLeft, OutOfLoop
<1>6. CASE HandlerExit
  <2>1. Asked' = Asked /\ exit_signal' = exit_signal /\ freed' = freed
    BY <1>6 DEF HandlerExit, HandlerAt, Asked
  <2> QED
    BY <1>1, <1>2, <2>1 DEF ExitInv, FreedAfterConsumersLeft, OutOfLoop
<1> QED
  BY <1>4, <1>5, <1>6 DEF HandlerStep

LEMMA ExitStep == TypeOK /\ ExitInv /\ [IntNext]_intVars => ExitInv'
<1> SUFFICES ASSUME TypeOK, ExitInv, [IntNext]_intVars PROVE ExitInv'
  OBVIOUS
<1> USE DEF ExitInv, FreedAfterConsumersLeft, OutOfLoop, Left, Asked
<1>1. ASSUME NEW t \in Threads, Interrupt(t)
      PROVE  ExitInv'
  BY <1>1 DEF Interrupt, HandlerAt, vars, endVars
<1>2. ASSUME NEW s \in Slots, IntDeviceRun(s)
      PROVE  ExitInv'
  BY <1>2 DEF IntDeviceRun, DeviceRun, DeviceError, handlerVars, endVars
<1>3. CASE UNCHANGED intVars
  BY <1>3 DEF intVars, vars, handlerVars, endVars
<1> QED
  BY <1>1, <1>2, <1>3, ThreadExit, HandlerExits DEF IntNext

LEMMA ExitInit == IntInit => ExitInv
BY DEF IntInit, Init, ExitInv, FreedAfterConsumersLeft, OutOfLoop, Left, Asked, Threads

-----------------------------------------------------------------------------
(* The interrupted pipeline.                                               *)

LEMMA PipeInit == IntInit => PipeInv
BY IInvInit DEF IntInit, IInv, PipeInv

\* The handler touches nothing the pipeline works with.
LEMMA PipeStep == PipeInv /\ [IntNext]_intVars => PipeInv'
<1> SUFFICES ASSUME PipeInv, [IntNext]_intVars PROVE PipeInv'
  OBVIOUS
<1>1. CASE [Next]_vars
  BY <1>1, RingStep, WaitStep, StreamStep, DataStep, FileStep DEF PipeInv
<1>2. CASE HandlerStep
  <2>1. /\ UNCHANGED <<pc, mut, queueVars, dataVars, stream, fileVars>>
        /\ exit_signal' \in Nat /\ freed' \in BOOLEAN /\ proc' \in {"running", "exited", "failed"}
    <3>1. exit_signal \in Nat /\ freed \in BOOLEAN /\ proc \in {"running", "exited", "failed"}
      BY DEF PipeInv, RingIInv, TypeOK
    <3>2. CASE HandlerSignalExit
      BY <3>1, <3>2 DEF HandlerSignalExit
    <3>3. CASE HandlerDelete
      BY <3>1, <3>3 DEF HandlerDelete
    <3>4. CASE HandlerExit
      BY <3>1, <3>4 DEF HandlerExit
    <3> QED
      BY <1>2, <3>2, <3>3, <3>4 DEF HandlerStep
  <2>2. RingIInv'
    <3>1. TypeOK'
      BY <2>1 DEF PipeInv, RingIInv, TypeOK, queueVars, dataVars, fileVars
    <3>2. LoopInv' /\ ReadyInv' /\ RingInv'
      BY <2>1, QuietRing DEF PipeInv
    <3> QED
      BY <3>1, <3>2 DEF RingIInv
  <2>3. WaitInv'
    BY <2>1, QuietWait DEF PipeInv
  <2>4. StreamInv'
    BY <2>1, QuietStream DEF PipeInv
  <2>5. DataInv'
    BY <2>1 DEF PipeInv, DataInv, SlotData, InputHeld, TokensHeld, PackHeld,
       OutputHeld, RawOf, BlockAt, Dist, CpuPastAt, GpuPastAt, Sendable, SendSize,
       Holds, queueVars, dataVars
  <2>6. OutputInOrder' /\ OffsetsInv'
    BY <2>1 DEF PipeInv, OutputInOrder, OffsetsInv, OffsetBefore, fileVars, queueVars,
       dataVars
  <2> QED
    BY <2>2, <2>3, <2>4, <2>5, <2>6 DEF PipeInv
<1>3. HandlerStep \/ [Next]_vars
  BY DEF IntNext, Interrupt, ThreadStep, IntDeviceRun, Next, intVars, vars
<1> QED
  BY <1>1, <1>2, <1>3

LEMMA IntInvariant == IntSpec => [](PipeInv /\ ExitInv)
<1>1. PipeInv => TypeOK
  BY DEF PipeInv, RingIInv
<1> QED
  BY <1>1, PipeInit, PipeStep, ExitInit, ExitStep, PTL DEF IntSpec

\* Whenever the interrupt comes and whatever thread it hits, neither the
\* handler nor main frees the queue while a consumer is in its loop: the
\* increments of exit_signal are never counted twice.
THEOREM FreedBehindConsumers == IntSpec => []FreedAfterConsumersLeft
<1>1. ExitInv => FreedAfterConsumersLeft
  BY DEF ExitInv
<1> QED
  BY <1>1, IntInvariant, PTL

\* The other threads go on working behind the interrupt, and what they write
\* is still the blocks in their order.
THEOREM InterruptedInOrder == IntSpec => []OutputInOrder
<1>1. PipeInv => OutputInOrder
  BY DEF PipeInv
<1> QED
  BY <1>1, IntInvariant, PTL

\* And no two of them, nor one and the device, share the buffers of a slot.
THEOREM InterruptedExclusive == IntSpec => []OneUser
<1>1. PipeInv => OneUser
  BY UserStage DEF PipeInv
<1> QED
  BY <1>1, IntInvariant, PTL
=============================================================================
