--------------------------- MODULE DeculzssProofs ---------------------------
(***************************************************************************)
(* Proofs about Deculzss for every number of blocks and slots, every block *)
(* size and every set of packed lengths, with and without faults.  Four    *)
(* actions change the ring or the data; the lemma QuietMoves says what the *)
(* others may do.                                                          *)
(***************************************************************************)
EXTENDS DeculzssInv, PipelineLemmas

LEMMA StagesInOrder == StageOrder(Stages, Want, "wr")
BY DEF StageOrder, Stages, Want

LEMMA RingTypes ==
    ASSUME TypeOK
    PROVE  /\ iter \in [Stages -> Int] /\ head \in [Stages -> Slots]
           /\ ledger \in [Slots -> Nat]
<1>1. iter \in [Stages -> Int]
  BY DecSizesAssumption DEF TypeOK
<1>2. head \in [Stages -> Slots]
  BY DEF TypeOK
<1>3. ledger \in [Slots -> Nat]
  <2>1. ledger \in [Slots -> 0 .. 2]
    BY DEF TypeOK
  <2> QED
    BY <2>1
<1> QED
  BY <1>1, <1>2, <1>3

\* A stage between the test of its slot and the update of the ledger.
LEMMA WorkPlace ==
    ASSUME RingIInv, NEW t \in Stages, pc[t] \in Working
    PROVE  /\ iter[t] \in Blocks /\ head[t] \in Slots
           /\ ledger[head[t]] = Want[t]
           /\ iter[t] - iter["wr"] < NumSlots
           /\ BlockAt(head[t]) = iter[t]
           /\ \A u \in Stages : Want[u] < Want[t] => iter[t] < iter[u]
<1>1. ledger[head[t]] = Want[t] /\ iter[t] < NumBlocks
  BY DEF RingIInv, ReadyInv, LoopInv, InLoop
<1>2. iter[t] \in Blocks /\ head[t] \in Slots /\ iter["wr"] \in Int
  BY <1>1, DecSizesAssumption DEF RingIInv, TypeOK, Blocks, Stages
<1>3. /\ iter[t] - iter["wr"] \in 0 .. NumSlots - 1
      /\ Gap(head["wr"], head[t]) = iter[t] - iter["wr"]
      /\ \A u \in Stages : Want[u] < Want[t] => iter[t] < iter[u]
  BY <1>1, RingTypes, StagesInOrder, ReadySlot DEF RingIInv, RingInv
<1> QED
  BY <1>1, <1>2, <1>3, SlotsAssumption DEF BlockAt, Blocks

\* What PassOn does, and that heads, counters and ledger go on agreeing.
LEMMA PassOnRing ==
    ASSUME RingIInv, NEW t \in Stages, pc[t] \in Working,
           PassOn(t, IF t = "wr" THEN 0 ELSE ledger[head[t]] + 1)
    PROVE  /\ \A u \in Stages : pc'[u] = IF u = t THEN "signal" ELSE pc[u]
           /\ \A u \in Stages : iter'[u] = IF u = t THEN iter[u] + 1 ELSE iter[u]
           /\ \A u \in Stages \ {t} : head'[u] = head[u]
           /\ \A s \in Slots : ledger'[s] =
                 IF s = head[t] THEN (IF t = "wr" THEN 0 ELSE Want[t] + 1) ELSE ledger[s]
           /\ pc'["main"] = pc["main"]
           /\ pc' \in [Threads -> Labels] /\ iter' \in [Stages -> 0 .. NumBlocks]
           /\ head' \in [Stages -> Slots] /\ ledger' \in [Slots -> 0 .. 2]
           /\ mut' \in Stages \cup {"free"}
           /\ LoopInv' /\ ReadyInv' /\ RingInv'
<1>1. ledger[head[t]] = Want[t] /\ iter[t] \in Blocks /\ head[t] \in Slots
  BY WorkPlace
<1>2. /\ iter' = [iter EXCEPT ![t] = iter[t] + 1]
      /\ head' = [head EXCEPT ![t] = NextSlot(head[t])]
      /\ ledger' = [ledger EXCEPT ![head[t]] = IF t = "wr" THEN 0 ELSE Want[t] + 1]
      /\ pc' = [pc EXCEPT ![t] = "signal"] /\ mut' = "free"
  BY <1>1 DEF PassOn, Goto
<1>3. /\ pc \in [Threads -> Labels] /\ Stages \subseteq Threads /\ "main" \in Threads
      /\ "main" \notin Stages /\ iter \in [Stages -> 0 .. NumBlocks]
      /\ head \in [Stages -> Slots] /\ ledger \in [Slots -> 0 .. 2]
      /\ t # "wr" => Want[t] + 1 \in 0 .. 2
  BY DEF RingIInv, TypeOK, Threads, Stages, Want
<1>4. /\ \A u \in Stages : pc'[u] = IF u = t THEN "signal" ELSE pc[u]
      /\ \A u \in Stages : iter'[u] = IF u = t THEN iter[u] + 1 ELSE iter[u]
      /\ \A u \in Stages \ {t} : head'[u] = head[u]
      /\ \A s \in Slots : ledger'[s] =
            IF s = head[t] THEN (IF t = "wr" THEN 0 ELSE Want[t] + 1) ELSE ledger[s]
      /\ pc'["main"] = pc["main"]
  BY <1>1, <1>2, <1>3
<1>5. pc' \in [Threads -> Labels]
  BY <1>2, <1>3 DEF Labels
<1>6. iter' \in [Stages -> 0 .. NumBlocks]
  <2>1. iter[t] + 1 \in 0 .. NumBlocks
    BY <1>1, DecSizesAssumption DEF Blocks
  <2> QED
    BY <1>2, <1>3, <2>1
<1>7. head' \in [Stages -> Slots]
  BY <1>1, <1>2, <1>3, NextSlotType
<1>8. ledger' \in [Slots -> 0 .. 2]
  BY <1>2, <1>3
<1>9. RingInv'
  <2>1. CASE t = "wr"
    BY <1>1, <1>2, <2>1, RingTypes, StagesInOrder, ResetAgree DEF RingInv, RingIInv
  <2>2. CASE t # "wr"
    BY <1>1, <1>2, <2>2, RingTypes, StagesInOrder, IncrementAgree DEF RingInv, RingIInv
  <2> QED
    BY <2>1, <2>2
<1>10. LoopInv'
  BY <1>4 DEF RingIInv, LoopInv, InLoop, Working
<1>11. ReadyInv'
  <2> SUFFICES ASSUME NEW u \in Stages, pc'[u] \in Working
               PROVE  ledger'[head'[u]] = Want[u]
    BY DEF ReadyInv
  <2>1. u # t /\ pc[u] \in Working
    BY <1>4 DEF Working
  <2>2. ledger[head[u]] = Want[u] /\ head'[u] = head[u] /\ head[u] \in Slots
    BY <2>1, <1>4, WorkPlace
  <2>3. head[u] # head[t]
    BY <2>1, <2>2, <1>1 DEF Want, Stages
  <2> QED
    BY <1>4, <2>2, <2>3
<1> QED
  BY <1>2, <1>4, <1>5, <1>6, <1>7, <1>8, <1>9, <1>10, <1>11

-----------------------------------------------------------------------------
(* What a step may do to threads, ring and data.                           *)

\* The label of a stage moves on within its loop, or with its loop.
Follows(l, m, lastRound, ready) ==
    /\ m \in InLoop => l \in InLoop \/ ~ lastRound
    /\ m \in Working => l \in Working \/ ready
    /\ m \in {"relock", "publish"} <=> l \in {"relock", "publish"}
    /\ m = "done" => l = "done" \/ lastRound
    /\ l = "done" => m = "done"

LEMMA QuietMoves ==
    ASSUME TypeOK, [Next]_vars, ~ Receive, ~ Decompress, ~ Write,
           \A t \in Stages : ~ Publish(t)
    PROVE  /\ UNCHANGED <<inputs, queueVars, dataVars>>
           /\ pc' \in [Threads -> Labels] /\ mut' \in Stages \cup {"free"}
           /\ \A u \in Stages : Follows(pc[u], pc'[u], iter[u] = NumBlocks,
                                        ledger[head[u]] = Want[u])
<1> USE DEF At
<1>0. /\ pc \in [Threads -> Labels] /\ Stages \subseteq Threads /\ "main" \in Threads
      /\ "main" \notin Stages /\ mut \in Stages \cup {"free"}
      /\ \A u \in Stages : iter[u] \in 0 .. NumBlocks
  BY DEF TypeOK, Threads, Stages
<1>1. ASSUME NEW t \in Stages, StageStep(t)
      PROVE  /\ UNCHANGED <<inputs, queueVars, dataVars>>
             /\ pc' \in [Threads -> Labels] /\ mut' \in Stages \cup {"free"}
             /\ \A u \in Stages : Follows(pc[u], pc'[u], iter[u] = NumBlocks,
                                          ledger[head[u]] = Want[u])
  <2> USE DEF Follows, InLoop, Working, Labels
  <2>1. CASE Open(t)
    BY <1>0, <2>1 DEF Open, Goto
  <2>2. CASE Enter(t)
    BY <1>0, <2>2, DecSizesAssumption DEF Enter, Goto
  <2>3. CASE Acquire(t)
    BY <1>0, <2>3 DEF Acquire, Goto
  <2>4. CASE NotReady(t)
    BY <1>0, <2>4 DEF NotReady, Goto
  <2>5. CASE CondWait(t)
    BY <1>0, <2>5 DEF CondWait, Goto
  <2>6. CASE Ready(t)
    BY <1>0, <2>6 DEF Ready, Goto
  <2>7. CASE Signal(t)
    <3>1. \A u \in Threads : pc'[u] = pc[u] \/ (pc[u] = "wait" /\ pc'[u] = "lock")
                             \/ (pc[u] = "signal" /\ pc'[u] = "top")
      BY <1>0, <2>7 DEF Signal
    <3>2. pc' \in [Threads -> Labels]
      BY <1>0, <2>7 DEF Signal
    <3> QED
      BY <1>0, <2>7, <3>1, <3>2 DEF Signal
  <2>8. CASE ReceiveOverrun
    BY <1>0, <2>8 DEF ReceiveOverrun
  <2> QED
    BY <1>1, <2>1, <2>2, <2>3, <2>4, <2>5, <2>6, <2>7, <2>8 DEF StageStep
<1>2. ASSUME NEW t \in Stages, SpuriousWakeup(t)
      PROVE  /\ UNCHANGED <<inputs, queueVars, dataVars>>
             /\ pc' \in [Threads -> Labels] /\ mut' \in Stages \cup {"free"}
             /\ \A u \in Stages : Follows(pc[u], pc'[u], iter[u] = NumBlocks,
                                          ledger[head[u]] = Want[u])
  BY <1>0, <1>2 DEF SpuriousWakeup, Goto, Follows, InLoop, Working, Labels
<1>3. CASE \/ \E t \in Stages : Fail(t)
           \/ UNCHANGED vars
  BY <1>0, <1>3 DEF Fail, vars, Follows
<1>4. CASE MainStep
  <2>1. pc' \in [Threads -> Labels] /\ \A u \in Stages : pc'[u] = pc[u]
    BY <1>0, <1>4 DEF MainStep, JoinAll, DequeueDelete, MainReturn, Goto, Labels
  <2>2. UNCHANGED <<inputs, queueVars, dataVars, mut>>
    BY <1>4 DEF MainStep, JoinAll, DequeueDelete, MainReturn
  <2> QED
    BY <1>0, <2>1, <2>2 DEF Follows
<1> QED
  BY <1>1, <1>2, <1>3, <1>4 DEF Next

-----------------------------------------------------------------------------
(* The four actions that do something.                                     *)

\* What a chunk of block b can be.
LEMMA ChunkFields ==
    ASSUME NEW c, NEW b \in Blocks, IsChunkOf(c, b)
    PROVE  /\ c.block = b /\ c.size \in Nat
           /\ \/ c = RawChunk(b) /\ c.form = "raw" /\ c.size = BlockSize
              \/ c = PackedChunk(b, c.size) /\ c.form = "packed"
<1>1. c = RawChunk(b) \/ \E len \in CompLens : c = PackedChunk(b, len)
  BY DEF IsChunkOf, ChunksOf
<1>2. CASE c = RawChunk(b)
  BY <1>2, FormatAssumption DEF RawChunk, Chunk, Content
<1>3. ASSUME NEW len \in CompLens, c = PackedChunk(b, len)
      PROVE  c.block = b /\ c.size = len /\ c.form = "packed" /\ len \in Nat
  BY <1>3, FormatAssumption DEF PackedChunk, Chunk, Content
<1> QED
  BY <1>1, <1>2, <1>3

LEMMA ContentTypes ==
    /\ \A b \in Blocks, f \in Forms : Content(b, f) \in Contents
    /\ \A c \in Contents : Unpacked(c) \in Contents
<1>1. \A b \in {NoBlock} \cup Blocks, f \in Forms : Content(b, f) \in Contents
  BY DEF Content, Contents
<1>2. \A c \in Contents : c.block \in {NoBlock} \cup Blocks
  BY DEF Contents
<1> QED
  BY <1>1, <1>2 DEF Unpacked, Forms

LEMMA ReceiveMoves ==
    ASSUME RingIInv, Receive
    PROVE  /\ PassOn("rec", ledger[head["rec"]] + 1) /\ pc["rec"] \in Working
           /\ LET chunk == inFile[iter["rec"]]
              IN  /\ buf' = [buf EXCEPT ![head["rec"]] = Content(chunk.block, chunk.form)]
                  /\ compsize' = [compsize EXCEPT ![head["rec"]] = chunk.size]
                  /\ Content(chunk.block, chunk.form) \in Contents /\ chunk.size \in Nat
           /\ UNCHANGED <<inputs, outFile, endVars>> /\ proc = "running"
<1>1. pc["rec"] \in Working /\ "rec" \in Stages
  BY DEF Receive, At, Working, Stages
<1>2. iter["rec"] \in Blocks
  BY <1>1, WorkPlace
<1>3. IsChunkOf(inFile[iter["rec"]], iter["rec"])
  BY <1>2 DEF RingIInv, TypeOK
<1>4. /\ Content(inFile[iter["rec"]].block, inFile[iter["rec"]].form) \in Contents
      /\ inFile[iter["rec"]].size \in Nat
  BY <1>2, <1>3, ChunkFields, ContentTypes DEF Forms
<1> QED
  BY <1>1, <1>4 DEF Receive, At

LEMMA PublishMoves ==
    ASSUME RingIInv, NEW t \in Stages, Publish(t)
    PROVE  /\ PassOn(t, IF t = "wr" THEN 0 ELSE ledger[head[t]] + 1)
           /\ pc[t] = "publish" /\ pc[t] \in Working /\ t \in {"gpu", "wr"}
           /\ UNCHANGED <<inputs, dataVars, endVars>>
BY DEF Publish, At, Working, RingIInv, TypeOK, Stages

\* Decompress and Write: a step inside the loop.
Works(t) == (t = "gpu" /\ Decompress) \/ (t = "wr" /\ Write)

LEMMA WorkMoves ==
    ASSUME RingIInv, NEW t \in {"gpu", "wr"}, Works(t)
    PROVE  /\ pc[t] = "work" /\ pc[t] \in Working
           /\ \A u \in Threads : pc'[u] = IF u = t THEN "relock" ELSE pc[u]
           /\ pc' \in [Threads -> Labels]
           /\ UNCHANGED <<inputs, mut, queueVars, compsize, endVars>>
           /\ LoopInv' /\ ReadyInv' /\ RingInv'
<1>1. /\ pc[t] = "work" /\ pc[t] \in Working /\ pc' = [pc EXCEPT ![t] = "relock"]
      /\ UNCHANGED <<inputs, mut, queueVars, compsize, endVars>>
  BY DEF Works, Decompress, Write, At, Goto, Working
<1>2. pc \in [Threads -> Labels] /\ t \in Threads /\ Stages \subseteq Threads
  BY DEF RingIInv, TypeOK, Threads, Stages
<1>3. \A u \in Threads : pc'[u] = IF u = t THEN "relock" ELSE pc[u]
  BY <1>1, <1>2
<1>4. pc' \in [Threads -> Labels]
  BY <1>1, <1>2 DEF Labels
<1>5. LoopInv' /\ ReadyInv'
  BY <1>1, <1>2, <1>3 DEF RingIInv, LoopInv, ReadyInv, InLoop, Working, queueVars
<1>6. RingInv'
  BY <1>1 DEF RingIInv, RingInv, queueVars
<1> QED
  BY <1>1, <1>3, <1>4, <1>5, <1>6

\* A step is one of these four or a quiet one.
LEMMA StepKinds ==
    ASSUME [Next]_vars
    PROVE  \/ Receive \/ Decompress \/ Write \/ \E t \in Stages : Publish(t)
           \/ ~ Receive /\ ~ Decompress /\ ~ Write /\ \A t \in Stages : ~ Publish(t)
OBVIOUS

\* What the rest of the state has to do with a step.
LEMMA OtherTypes ==
    ASSUME TypeOK, [Next]_vars
    PROVE  /\ freed' \in BOOLEAN /\ proc' \in {"running", "exited", "failed"}
           /\ pc'["main"] # "join" =>
                 pc["main"] # "join" \/ \A t \in Stages : pc[t] = "done"
           /\ pc["main"] # "join" => pc'["main"] # "join"
           /\ freed' => freed \/ pc["main"] # "join"
<1> USE DEF At, endVars
<1>0. /\ pc \in [Threads -> Labels] /\ Stages \subseteq Threads /\ "main" \in Threads
      /\ "main" \notin Stages /\ freed \in BOOLEAN
      /\ proc \in {"running", "exited", "failed"}
  BY DEF TypeOK, Threads, Stages
<1>1. ASSUME NEW t \in Stages, StageStep(t) \/ SpuriousWakeup(t) \/ Fail(t)
      PROVE  /\ freed' = freed /\ proc' \in {"running", "exited", "failed"}
             /\ pc'["main"] = pc["main"]
  <2>1. CASE Signal(t)
    <3>1. WaiterOf[t] # "main"
      BY DEF WaiterOf, Stages
    <3> QED
      BY <1>0, <2>1, <3>1 DEF Signal
  <2>2. CASE Receive \/ Publish(t) \/ ReceiveOverrun
    BY <1>0, <1>1, <2>2 DEF Receive, Publish, ReceiveOverrun, PassOn, Goto, Stages
  <2>3. CASE SpuriousWakeup(t) \/ Fail(t)
    BY <1>0, <2>3 DEF SpuriousWakeup, Fail, Goto
  <2>4. CASE Open(t) \/ Enter(t) \/ Acquire(t) \/ NotReady(t) \/ CondWait(t) \/ Ready(t)
    BY <1>0, <2>4 DEF Open, Enter, Acquire, NotReady, CondWait, Ready, Goto
  <2>5. CASE Decompress \/ Write
    BY <1>0, <2>5 DEF Decompress, Write, Goto, Stages
  <2> QED
    BY <1>1, <2>1, <2>2, <2>3, <2>4, <2>5 DEF StageStep
<1>2. CASE JoinAll
  BY <1>0, <1>2 DEF JoinAll, Goto
<1>3. CASE DequeueDelete
  BY <1>0, <1>3 DEF DequeueDelete, Goto
<1>4. CASE MainReturn
  BY <1>0, <1>4 DEF MainReturn, Goto
<1>5. CASE UNCHANGED vars
  BY <1>0, <1>5 DEF vars
<1> QED
  BY <1>0, <1>1, <1>2, <1>3, <1>4, <1>5 DEF Next, MainStep

-----------------------------------------------------------------------------
(* Ring, start and end.                                                    *)

LEMMA RingInit == Init => RingIInv
<1> SUFFICES ASSUME Init PROVE RingIInv
  OBVIOUS
<1>1. /\ pc \in [Threads -> Labels] /\ pc["rec"] = "open"
      /\ \A t \in Stages : pc[t] \in {"open", "top"}
  BY DEF Init, Threads, Stages, Labels
<1>2. /\ iter \in [Stages -> 0 .. NumBlocks] /\ head \in [Stages -> Slots]
      /\ ledger \in [Slots -> 0 .. 2] /\ compsize \in [Slots -> Nat]
  BY DecSizesAssumption, SlotsAssumption DEF Init, Slots
<1>3. buf \in [Slots -> Contents]
  BY DEF Init, Empty, Content, Contents, Forms
<1>4. outFile \in Seq([content : Contents, size : Int])
  BY DEF Init
<1>5. TypeOK
  BY <1>1, <1>2, <1>3, <1>4 DEF Init, TypeOK, Blocks
<1>6. LoopInv /\ ReadyInv
  BY <1>1 DEF LoopInv, ReadyInv, InLoop, Working
<1>7. RingInv
  BY StagesInOrder, InitAgree DEF Init, RingInv
<1> QED
  BY <1>5, <1>6, <1>7 DEF RingIInv

\* What the writer appends.
WriteSize == IF iter["wr"] = NumBlocks - 1 /\ padding > 0 THEN BlockSize - padding
             ELSE BlockSize

LEMMA WriteMoves ==
    ASSUME RingIInv, Write
    PROVE  /\ outFile' = Append(outFile, [content |-> buf[head["wr"]], size |-> WriteSize])
           /\ WriteSize \in Int /\ buf' = buf /\ buf[head["wr"]] \in Contents
<1>1. totalsize \in Int /\ BlockSize \in Nat \ {0} /\ padding = PaddingOf(totalsize)
  <2>1. (NumBlocks - 1) * BlockSize + 1 \in Int /\ NumBlocks * BlockSize \in Int
    BY FormatAssumption, DecSizesAssumption
  <2> QED
    BY <2>1, FormatAssumption DEF RingIInv, TypeOK
<1>2. padding \in Int
  BY <1>1 DEF PaddingOf
<1>3. head["wr"] \in Slots /\ buf[head["wr"]] \in Contents
  BY DEF RingIInv, TypeOK, Stages
<1> QED
  BY <1>1, <1>2, <1>3 DEF Write, WriteSize

LEMMA RingStep == RingIInv /\ [Next]_vars => RingIInv'
<1> SUFFICES ASSUME RingIInv, [Next]_vars PROVE RingIInv'
  OBVIOUS
<1>0. /\ TypeOK /\ Stages \subseteq Threads /\ {"rec", "gpu", "wr"} = Stages
      /\ freed' \in BOOLEAN /\ proc' \in {"running", "exited", "failed"}
  BY OtherTypes DEF RingIInv, Threads, Stages
<1>1. CASE Receive
  <2>1. /\ pc' \in [Threads -> Labels] /\ iter' \in [Stages -> 0 .. NumBlocks]
        /\ head' \in [Stages -> Slots] /\ ledger' \in [Slots -> 0 .. 2]
        /\ mut' \in Stages \cup {"free"} /\ pc'["rec"] = "signal"
        /\ LoopInv' /\ ReadyInv' /\ RingInv'
    BY <1>0, <1>1, ReceiveMoves, PassOnRing
  <2>2. buf' \in [Slots -> Contents]
    BY <1>0, <1>1, ReceiveMoves DEF TypeOK
  <2>4. compsize' \in [Slots -> Nat]
    BY <1>0, <1>1, ReceiveMoves DEF TypeOK
  <2>3. UNCHANGED <<inputs, outFile>>
    BY <1>1, ReceiveMoves
  <2> QED
    BY <1>0, <2>1, <2>2, <2>3, <2>4 DEF RingIInv, TypeOK, inputs
<1>2. ASSUME NEW t \in Stages, Publish(t)
      PROVE  RingIInv'
  <2>1. /\ pc' \in [Threads -> Labels] /\ iter' \in [Stages -> 0 .. NumBlocks]
        /\ head' \in [Stages -> Slots] /\ ledger' \in [Slots -> 0 .. 2]
        /\ mut' \in Stages \cup {"free"} /\ pc'["rec"] = pc["rec"]
        /\ LoopInv' /\ ReadyInv' /\ RingInv'
    BY <1>0, <1>2, PublishMoves, PassOnRing
  <2>2. UNCHANGED <<inputs, dataVars>>
    BY <1>2, PublishMoves
  <2> QED
    BY <1>0, <2>1, <2>2 DEF RingIInv, TypeOK, inputs, dataVars
<1>3. CASE Decompress
  <2>1. /\ pc' \in [Threads -> Labels] /\ pc'["rec"] = pc["rec"]
        /\ UNCHANGED <<inputs, mut, queueVars, compsize, outFile>>
        /\ LoopInv' /\ ReadyInv' /\ RingInv'
    <3>1. Works("gpu")
      BY <1>3 DEF Works
    <3>2. "rec" \in Threads
      BY DEF Threads, Stages
    <3> QED
      BY <1>3, <3>1, <3>2, WorkMoves DEF Decompress
  <2>2. head["gpu"] \in Slots /\ buf[head["gpu"]] \in Contents
    BY <1>0 DEF TypeOK
  <2>3. buf' \in [Slots -> Contents]
    BY <1>0, <1>3, <2>2, ContentTypes DEF Decompress, TypeOK
  <2> QED
    BY <1>0, <2>1, <2>3 DEF RingIInv, TypeOK, inputs, queueVars
<1>4. CASE Write
  <2>1. /\ pc' \in [Threads -> Labels] /\ pc'["rec"] = pc["rec"]
        /\ UNCHANGED <<inputs, mut, queueVars, compsize>>
        /\ LoopInv' /\ ReadyInv' /\ RingInv'
    <3>1. Works("wr")
      BY <1>4 DEF Works
    <3>2. "rec" \in Threads
      BY DEF Threads, Stages
    <3> QED
      BY <3>1, <3>2, WorkMoves
  <2>2. outFile' \in Seq([content : Contents, size : Int]) /\ buf' = buf
    <3>1. [content |-> buf[head["wr"]], size |-> WriteSize]
             \in [content : Contents, size : Int]
      BY <1>4, WriteMoves
    <3>2. outFile \in Seq([content : Contents, size : Int])
      BY <1>0 DEF TypeOK
    <3>3. Append(outFile, [content |-> buf[head["wr"]], size |-> WriteSize])
             \in Seq([content : Contents, size : Int])
      BY <3>1, <3>2
    <3> QED
      BY <1>4, <3>3, WriteMoves
  <2> QED
    BY <1>0, <2>1, <2>2 DEF RingIInv, TypeOK, inputs, queueVars
<1>5. CASE ~ Receive /\ ~ Decompress /\ ~ Write /\ \A t \in Stages : ~ Publish(t)
  <2>1. /\ UNCHANGED <<inputs, queueVars, dataVars>>
        /\ pc' \in [Threads -> Labels] /\ mut' \in Stages \cup {"free"}
        /\ \A u \in Stages : Follows(pc[u], pc'[u], iter[u] = NumBlocks,
                                     ledger[head[u]] = Want[u])
    BY <1>0, <1>5, QuietMoves
  <2>2. TypeOK'
    BY <1>0, <2>1 DEF TypeOK, Follows, inputs, queueVars, dataVars
  <2>3. LoopInv'
    <3>1. \A u \in Stages : iter[u] # NumBlocks => iter[u] < NumBlocks
      BY <1>0, DecSizesAssumption DEF TypeOK
    <3>2. \A u \in Stages : pc'[u] \in InLoop => pc[u] \in InLoop \/ iter[u] # NumBlocks
      BY <2>1 DEF Follows
    <3> QED
      BY <2>1, <3>1, <3>2 DEF RingIInv, LoopInv, queueVars
  <2>4. ReadyInv'
    BY <2>1 DEF RingIInv, ReadyInv, Follows, queueVars
  <2>5. RingInv'
    BY <2>1 DEF RingIInv, RingInv, queueVars
  <2> QED
    BY <2>2, <2>3, <2>4, <2>5 DEF RingIInv
<1> QED
  BY <1>1, <1>2, <1>3, <1>4, <1>5, StepKinds

LEMMA EndStep == RingIInv /\ EndInv /\ [Next]_vars => EndInv'
<1> SUFFICES ASSUME RingIInv, EndInv, [Next]_vars PROVE EndInv'
  OBVIOUS
<1>0. TypeOK /\ Stages \subseteq Threads /\ {"rec", "gpu", "wr"} = Stages
  BY DEF RingIInv, Threads, Stages
<1>1. \A t \in Stages : /\ pc[t] = "done" => pc'[t] = "done"
                        /\ pc'[t] = "done" => iter'[t] = NumBlocks
  <2>1. CASE Receive
    BY <1>0, <2>1, ReceiveMoves, PassOnRing DEF Working, EndInv
  <2>2. ASSUME NEW t \in Stages, Publish(t)
        PROVE  \A u \in Stages : /\ pc[u] = "done" => pc'[u] = "done"
                                 /\ pc'[u] = "done" => iter'[u] = NumBlocks
    BY <1>0, <2>2, PublishMoves, PassOnRing DEF EndInv
  <2>3. CASE Decompress \/ Write
    <3>1. PICK t \in {"gpu", "wr"} : Works(t)
      BY <2>3 DEF Works
    <3>2. /\ pc[t] = "work" /\ iter' = iter
          /\ \A u \in Stages : pc'[u] = IF u = t THEN "relock" ELSE pc[u]
      BY <1>0, <3>1, WorkMoves DEF queueVars
    <3> QED
      BY <3>2 DEF EndInv
  <2>4. CASE ~ Receive /\ ~ Decompress /\ ~ Write /\ \A t \in Stages : ~ Publish(t)
    <3>1. /\ UNCHANGED queueVars
          /\ \A u \in Stages : Follows(pc[u], pc'[u], iter[u] = NumBlocks,
                                       ledger[head[u]] = Want[u])
      BY <1>0, <2>4, QuietMoves
    <3> QED
      BY <3>1 DEF EndInv, Follows, queueVars
  <2> QED
    BY <2>1, <2>2, <2>3, <2>4, StepKinds
<1> QED
  BY <1>0, <1>1, OtherTypes DEF EndInv

LEMMA EndInit == Init => EndInv
BY DEF Init, EndInv, Stages, Threads

\* dequeueDelete frees the queue when all three threads have left their loops.
THEOREM FreedLast == Spec => []NoUseAfterFree
<1>1. Init => RingIInv /\ EndInv
  BY RingInit, EndInit
<1>2. RingIInv /\ EndInv /\ [Next]_vars => (RingIInv /\ EndInv)'
  BY RingStep, EndStep
<1>3. EndInv => NoUseAfterFree
  BY DEF EndInv, NoUseAfterFree
<1> QED
  BY <1>1, <1>2, <1>3, PTL DEF Spec

\* No two stages are ever at work on the same slot, though two of them take
\* no lock for it: they would have found different values in its ledger.
THEOREM SlotsExclusive == Spec => []OneUser
<1>1. RingIInv => OneUser
  BY DEF RingIInv, ReadyInv, OneUser, Working, Want, Stages
<1> QED
  BY <1>1, RingInit, RingStep, PTL DEF Spec

-----------------------------------------------------------------------------
(* What the slots hold.                                                    *)

\* A slot stands for the same block until the writer resets it.
LEMMA BlockStays ==
    ASSUME RingIInv, NEW t \in Stages, pc[t] \in Working,
           PassOn(t, IF t = "wr" THEN 0 ELSE ledger[head[t]] + 1),
           NEW s \in Slots, t = "wr" => s # head["wr"]
    PROVE  BlockAt(s)' = BlockAt(s)
<1>1. /\ "wr" \in Stages /\ head["wr"] \in Slots /\ iter["wr"] \in Int
      /\ head \in [Stages -> Slots]
  BY RingTypes DEF RingIInv, Stages
<1>2. CASE t # "wr"
  BY <1>1, <1>2, PassOnRing DEF BlockAt
<1>3. CASE t = "wr"
  <2>1. iter'["wr"] = iter["wr"] + 1
    BY <1>1, <1>3, PassOnRing
  <2>2. head'["wr"] = NextSlot(head["wr"])
    BY <1>1, <1>3 DEF PassOn
  <2>3. /\ Gap(NextSlot(head["wr"]), s) = Gap(head["wr"], s) - 1
        /\ Gap(head["wr"], s) \in Int
    BY <1>1, <1>3, NextOrigin, GapType, SlotsAssumption
  <2> QED
    BY <1>1, <2>1, <2>2, <2>3 DEF BlockAt
<1> QED
  BY <1>2, <1>3

\* The GPU stage makes the right thing of a chunk as the receiver left it.
LEMMA Unpacks ==
    ASSUME TypeOK, NEW b \in Blocks
    PROVE  LET c == Content(inFile[b].block, inFile[b].form)
           IN  (IF inFile[b].size = BlockSize THEN c ELSE Unpacked(c)) = Restored(b)
<1> DEFINE chunk == inFile[b]
<1>1. IsChunkOf(chunk, b)
  BY DEF TypeOK
<1> HIDE DEF chunk
<1>2. /\ chunk.block = b
      /\ \/ chunk = RawChunk(b) /\ chunk.form = "raw" /\ chunk.size = BlockSize
         \/ chunk = PackedChunk(b, chunk.size) /\ chunk.form = "packed"
  BY <1>1, ChunkFields
<1>3. PackedChunk(b, BlockSize).form = "packed" /\ PackedChunk(b, BlockSize).size = BlockSize
  BY DEF PackedChunk, Chunk, Content
<1>4. CASE chunk.form = "raw"
  <2>1. chunk # PackedChunk(b, BlockSize)
    BY <1>3, <1>4
  <2> QED
    BY <1>2, <1>4, <2>1 DEF Restored, TakenForRaw, chunk
<1>5. CASE chunk.form = "packed"
  <2>1. chunk = PackedChunk(b, BlockSize) <=> chunk.size = BlockSize
    BY <1>2, <1>3, <1>5
  <2>2. Unpacked(Content(b, "packed")) = Content(b, "raw")
    BY DEF Unpacked, Content
  <2> QED
    BY <1>2, <1>5, <2>1, <2>2 DEF Restored, TakenForRaw, chunk
<1> QED
  BY <1>2, <1>4, <1>5

\* A step that changes nothing of what is known of slot s.
LEMMA SlotKept ==
    ASSUME NEW s \in Slots, ChunkHeld(s), BlockHeld(s), inFile' = inFile,
           ledger'[s] = ledger[s], buf'[s] = buf[s], compsize'[s] = compsize[s],
           ledger[s] # 0 => BlockAt(s)' = BlockAt(s),
           ledger[s] = 1 => GpuPastAt(s)' = GpuPastAt(s)
    PROVE  ChunkHeld(s)' /\ BlockHeld(s)'
BY DEF ChunkHeld, BlockHeld, Restored, TakenForRaw

\* The receiver fills its slot with the chunk of the block it is at.
LEMMA ReceiveData ==
    ASSUME RingIInv, DataInv, Receive
    PROVE  DataInv'
<1> SUFFICES ASSUME NEW s \in Slots PROVE ChunkHeld(s)' /\ BlockHeld(s)'
  BY DEF DataInv
<1>0. {"rec", "gpu"} \subseteq Stages /\ TypeOK
  BY DEF Stages, RingIInv
<1>1. /\ PassOn("rec", ledger[head["rec"]] + 1) /\ pc["rec"] \in Working
      /\ inFile' = inFile
  BY ReceiveMoves DEF inputs
<1>2. BlockAt(s)' = BlockAt(s)
  BY <1>0, <1>1, BlockStays
<1>3. /\ pc'["gpu"] = pc["gpu"] /\ head'["gpu"] = head["gpu"]
      /\ ledger'[s] = IF s = head["rec"] THEN 1 ELSE ledger[s]
  BY <1>0, <1>1, PassOnRing DEF Want
<1>4. GpuPastAt(s)' = GpuPastAt(s)
  BY <1>3 DEF GpuPastAt
<1>5. CASE s # head["rec"]
  <2>1. buf'[s] = buf[s]
    BY <1>0, <1>5, ReceiveMoves DEF TypeOK
  <2>2. compsize'[s] = compsize[s]
    BY <1>0, <1>5, ReceiveMoves DEF TypeOK
  <2> QED
    BY <1>1, <1>2, <1>3, <1>4, <1>5, <2>1, <2>2, SlotKept DEF DataInv
<1>6. CASE s = head["rec"]
  <2>1. BlockAt(s) = iter["rec"] /\ ledger[s] = 0
    BY <1>0, <1>1, <1>6, WorkPlace DEF Want
  <2>2. ~ GpuPastAt(s)
    <3>1. pc["gpu"] \in Working => ledger[head["gpu"]] = 1
      BY <1>0, WorkPlace DEF Want
    <3> QED
      BY <2>1, <3>1 DEF GpuPastAt, Working
  <2>3. buf'[s] = Content(inFile[iter["rec"]].block, inFile[iter["rec"]].form)
    BY <1>0, <1>6, ReceiveMoves DEF TypeOK
  <2>4. compsize'[s] = inFile[iter["rec"]].size
    BY <1>0, <1>6, ReceiveMoves DEF TypeOK
  <2> QED
    BY <1>1, <1>2, <1>3, <1>4, <1>6, <2>1, <2>2, <2>3, <2>4 DEF ChunkHeld, BlockHeld
<1> QED
  BY <1>5, <1>6

\* Passing a slot on goes with what it holds.
LEMMA PublishData ==
    ASSUME RingIInv, DataInv, NEW t \in Stages, Publish(t)
    PROVE  DataInv'
<1> SUFFICES ASSUME NEW s \in Slots PROVE ChunkHeld(s)' /\ BlockHeld(s)'
  BY DEF DataInv
<1>0. {"rec", "gpu", "wr"} = Stages /\ ChunkHeld(s) /\ BlockHeld(s)
  BY DEF Stages, DataInv
<1>1. /\ PassOn(t, IF t = "wr" THEN 0 ELSE ledger[head[t]] + 1)
      /\ pc[t] = "publish" /\ pc[t] \in Working /\ t \in {"gpu", "wr"}
      /\ inFile' = inFile /\ buf' = buf /\ compsize' = compsize
  BY PublishMoves DEF inputs, dataVars
<1>2. /\ \A u \in Stages : pc'[u] = IF u = t THEN "signal" ELSE pc[u]
      /\ \A u \in Stages \ {t} : head'[u] = head[u]
      /\ ledger'[s] = IF s = head[t] THEN (IF t = "wr" THEN 0 ELSE Want[t] + 1)
                      ELSE ledger[s]
  BY <1>1, PassOnRing
<1>3. CASE t = "wr" /\ s = head["wr"]
  <2>1. ledger'[s] = 0
    BY <1>2, <1>3
  <2> QED
    BY <2>1 DEF ChunkHeld, BlockHeld
<1>4. CASE t = "gpu" /\ s = head["gpu"]
  <2>1. ledger[s] = 1 /\ GpuPastAt(s) /\ ledger'[s] = 2
    BY <1>0, <1>1, <1>2, <1>4, WorkPlace DEF Want, GpuPastAt
  <2>2. BlockAt(s)' = BlockAt(s)
    BY <1>1, <1>4, BlockStays
  <2> QED
    BY <1>0, <1>1, <2>1, <2>2 DEF ChunkHeld, BlockHeld, Restored, TakenForRaw
<1>5. CASE s # head[t]
  <2>1. GpuPastAt(s)' = GpuPastAt(s)
    BY <1>0, <1>1, <1>2, <1>5 DEF GpuPastAt
  <2>2. BlockAt(s)' = BlockAt(s)
    BY <1>1, <1>5, BlockStays
  <2> QED
    BY <1>0, <1>1, <1>2, <1>5, <2>1, <2>2, SlotKept
<1> QED
  BY <1>1, <1>3, <1>4, <1>5

\* The GPU stage turns the chunk in its slot into the block.
LEMMA DecompressData ==
    ASSUME RingIInv, DataInv, Decompress
    PROVE  DataInv'
<1> SUFFICES ASSUME NEW s \in Slots PROVE ChunkHeld(s)' /\ BlockHeld(s)'
  BY DEF DataInv
<1>0. /\ Stages \subseteq Threads /\ {"rec", "gpu", "wr"} = Stages /\ TypeOK
      /\ ChunkHeld(s) /\ BlockHeld(s) /\ Works("gpu")
  BY DEF Stages, Threads, RingIInv, DataInv, Works
<1>1. /\ pc["gpu"] = "work" /\ pc["gpu"] \in Working /\ pc'["gpu"] = "relock"
      /\ inFile' = inFile /\ ledger' = ledger /\ head' = head /\ iter' = iter
      /\ compsize' = compsize
  BY <1>0, WorkMoves DEF inputs, queueVars
<1>2. BlockAt(s)' = BlockAt(s)
  BY <1>1 DEF BlockAt
<1>3. CASE s # head["gpu"]
  <2>1. buf'[s] = buf[s]
    BY <1>0, <1>3 DEF Decompress, TypeOK
  <2>2. GpuPastAt(s)' = GpuPastAt(s)
    BY <1>1, <1>3 DEF GpuPastAt
  <2> QED
    BY <1>0, <1>1, <1>2, <2>1, <2>2, SlotKept
<1>4. CASE s = head["gpu"]
  <2> DEFINE b == iter["gpu"]
  <2>1. /\ BlockAt(s) = b /\ b \in Blocks /\ ledger[s] = 1
        /\ ~ GpuPastAt(s) /\ GpuPastAt(s)'
    BY <1>0, <1>1, <1>4, WorkPlace DEF Want, GpuPastAt
  <2>2. /\ buf[s] = Content(inFile[b].block, inFile[b].form)
        /\ compsize[s] = inFile[b].size
    BY <1>0, <2>1 DEF ChunkHeld
  <2>3. buf'[s] = IF compsize[s] = BlockSize THEN buf[s] ELSE Unpacked(buf[s])
    BY <1>0, <1>4 DEF Decompress, TypeOK
  <2>4. buf'[s] = Restored(b)
    BY <1>0, <2>1, <2>2, <2>3, Unpacks
  <2>5. Restored(b)' = Restored(b)
    BY <1>1 DEF Restored, TakenForRaw
  <2> QED
    BY <1>1, <1>2, <2>1, <2>4, <2>5 DEF ChunkHeld, BlockHeld, Restored, TakenForRaw
<1> QED
  BY <1>3, <1>4

LEMMA DataStep == RingIInv /\ DataInv /\ [Next]_vars => DataInv'
<1> SUFFICES ASSUME RingIInv, DataInv, [Next]_vars PROVE DataInv'
  OBVIOUS
<1>0. TypeOK /\ {"rec", "gpu", "wr"} = Stages /\ Stages \subseteq Threads
  BY DEF RingIInv, Stages, Threads
<1>1. ASSUME UNCHANGED <<inputs, queueVars, buf, compsize>>,
             pc["gpu"] \in {"relock", "publish"} <=> pc'["gpu"] \in {"relock", "publish"}
      PROVE  DataInv'
  BY <1>1, SlotKept DEF DataInv, inputs, queueVars, GpuPastAt, BlockAt
<1>2. CASE Write
  <2>1. Works("wr")
    BY <1>2 DEF Works
  <2>2. UNCHANGED <<inputs, queueVars, compsize>> /\ pc'["gpu"] = pc["gpu"]
    BY <1>0, <2>1, WorkMoves
  <2> QED
    BY <1>1, <1>2, <2>2 DEF Write
<1>3. CASE ~ Receive /\ ~ Decompress /\ ~ Write /\ \A t \in Stages : ~ Publish(t)
  <2>1. /\ UNCHANGED <<inputs, queueVars, dataVars>>
        /\ pc["gpu"] \in {"relock", "publish"} <=> pc'["gpu"] \in {"relock", "publish"}
    BY <1>0, <1>3, QuietMoves DEF Follows
  <2> QED
    BY <1>1, <2>1 DEF dataVars
<1> QED
  BY <1>2, <1>3, ReceiveData, PublishData, DecompressData, StepKinds

-----------------------------------------------------------------------------
(* The restored file.                                                      *)

LEMMA Remainder ==
    ASSUME NEW q \in Nat, NEW r \in Nat, NEW m \in Nat \ {0}, r < m
    PROVE  (q * m + r) % m = r
OBVIOUS

\* Without the padding, the last block takes what the others leave, whether
\* or not the sizes divide.
LEMMA LastSize ==
    ASSUME TypeOK
    PROVE  (IF padding > 0 THEN BlockSize - padding ELSE BlockSize)
              = totalsize - (NumBlocks - 1) * BlockSize
<1> DEFINE q == NumBlocks - 1
           rest == totalsize - q * BlockSize
<1>1. /\ q \in Nat /\ BlockSize \in Nat \ {0} /\ NumBlocks = q + 1
      /\ q * BlockSize \in Nat /\ NumBlocks * BlockSize = q * BlockSize + BlockSize
  BY FormatAssumption, DecSizesAssumption
<1>2. /\ totalsize \in q * BlockSize + 1 .. NumBlocks * BlockSize
      /\ padding = PaddingOf(totalsize)
  BY DEF TypeOK
<1>3. /\ totalsize = q * BlockSize + rest /\ rest \in Nat
      /\ 1 <= rest /\ rest <= BlockSize
  BY <1>1, <1>2
<1>4. (q + 1) * BlockSize = q * BlockSize + BlockSize
  BY <1>1
<1> HIDE DEF q, rest
<1>5. CASE rest < BlockSize
  <2>1. totalsize % BlockSize = rest
    BY <1>1, <1>3, <1>5, Remainder
  <2> QED
    BY <1>1, <1>2, <1>3, <1>5, <2>1 DEF PaddingOf, q, rest
<1>6. CASE rest = BlockSize
  <2>1. totalsize = (q + 1) * BlockSize + 0
    BY <1>1, <1>3, <1>4, <1>6
  <2>2. q + 1 \in Nat /\ 0 \in Nat /\ 0 < BlockSize
    BY <1>1
  <2>3. totalsize % BlockSize = 0
    BY <1>1, <2>1, <2>2, Remainder
  <2> QED
    BY <1>1, <1>2, <1>3, <1>6, <2>3 DEF PaddingOf, q, rest
<1> QED
  BY <1>1, <1>3, <1>5, <1>6

\* Only the writer writes, and only it moves its counter.
LEMMA FileMoves ==
    ASSUME RingIInv, FileInv, [Next]_vars, ~ Write
    PROVE  outFile' = outFile /\ inFile' = inFile /\ totalsize' = totalsize /\ FileInv'
<1>0. TypeOK /\ {"rec", "gpu", "wr"} = Stages /\ Stages \subseteq Threads
  BY DEF RingIInv, Stages, Threads
<1>1. iter["wr"] \in Int
  BY <1>0, RingTypes
<1>2. CASE Receive
  <2>1. UNCHANGED <<inputs, outFile>>
    BY <1>2, ReceiveMoves
  <2>2. iter'["wr"] = iter["wr"] /\ pc'["wr"] = pc["wr"]
    BY <1>0, <1>2, ReceiveMoves, PassOnRing
  <2> QED
    BY <2>1, <2>2 DEF FileInv, inputs
<1>3. ASSUME NEW t \in Stages, Publish(t)
      PROVE  /\ outFile' = outFile /\ inFile' = inFile /\ totalsize' = totalsize
             /\ FileInv'
  <2>1. UNCHANGED <<inputs, dataVars>> /\ pc[t] = "publish"
    BY <1>3, PublishMoves
  <2>2. /\ pc'["wr"] = IF t = "wr" THEN "signal" ELSE pc["wr"]
        /\ iter'["wr"] = IF t = "wr" THEN iter["wr"] + 1 ELSE iter["wr"]
    BY <1>0, <1>3, PublishMoves, PassOnRing
  <2> QED
    BY <1>1, <2>1, <2>2 DEF FileInv, inputs, dataVars
<1>4. CASE Decompress
  <2>1. Works("gpu")
    BY <1>4 DEF Works
  <2>2. UNCHANGED <<inputs, queueVars>> /\ pc'["wr"] = pc["wr"]
    BY <1>0, <2>1, WorkMoves
  <2> QED
    BY <1>4, <2>2 DEF Decompress, FileInv, inputs, queueVars
<1>5. CASE ~ Receive /\ ~ Decompress /\ ~ Write /\ \A t \in Stages : ~ Publish(t)
  <2>1. /\ UNCHANGED <<inputs, queueVars, dataVars>>
        /\ pc["wr"] \in {"relock", "publish"} <=> pc'["wr"] \in {"relock", "publish"}
    BY <1>0, <1>5, QuietMoves DEF Follows
  <2> QED
    BY <2>1 DEF FileInv, inputs, queueVars, dataVars
<1> QED
  BY <1>2, <1>3, <1>4, <1>5, StepKinds

\* The writer appends the next block, at its length.
LEMMA WriteFile ==
    ASSUME RingIInv, DataInv, FileInv, Lossless, RestoredWhole, Write
    PROVE  /\ FileInv' /\ Lossless' /\ RestoredWhole'
           /\ iter' = iter /\ proc' = proc /\ proc = "running"
           /\ iter["wr"] < iter["rec"] /\ Len(outFile) = iter["wr"]
<1> DEFINE i == iter["wr"]
           s == head["wr"]
<1>0. /\ TypeOK /\ {"rec", "gpu", "wr"} = Stages /\ Stages \subseteq Threads
      /\ Works("wr")
  BY DEF RingIInv, Stages, Threads, Works
<1>1. /\ pc["wr"] = "work" /\ pc["wr"] \in Working /\ pc'["wr"] = "relock"
      /\ inFile' = inFile /\ totalsize' = totalsize /\ iter' = iter /\ head' = head
      /\ ledger' = ledger /\ proc' = proc
  BY <1>0, WorkMoves DEF inputs, queueVars, endVars
<1>2. proc = "running"
  BY DEF Write, At
<1>3. /\ i \in Blocks /\ s \in Slots /\ ledger[s] = 2 /\ BlockAt(s) = i
      /\ i < iter["rec"]
  BY <1>0, <1>1, WorkPlace DEF Want
<1>4. buf[s] = Restored(i)
  BY <1>3 DEF DataInv, BlockHeld
<1>5. /\ outFile \in Seq([content : Contents, size : Int]) /\ Len(outFile) = i
      /\ i \in Int
  BY <1>1, <1>3 DEF RingIInv, TypeOK, FileInv, Blocks
<1>6. /\ Len(outFile') = i + 1
      /\ \A k \in 1 .. i : outFile'[k] = outFile[k]
      /\ outFile'[i + 1] = [content |-> buf[s], size |-> WriteSize]
  <2> DEFINE written == [content |-> buf[s], size |-> WriteSize]
  <2>1. outFile' = Append(outFile, written) /\ written \in [content : Contents, size : Int]
    BY WriteMoves
  <2> HIDE DEF written
  <2>2. i \in Nat
    BY <1>3, DecSizesAssumption DEF Blocks
  <2>3. /\ Len(Append(outFile, written)) = i + 1
        /\ \A k \in 1 .. i : Append(outFile, written)[k] = outFile[k]
        /\ Append(outFile, written)[i + 1] = written
    BY <1>5, <2>1, <2>2
  <2> QED
    BY <2>1, <2>3 DEF written
<1>7. FileInv'
  BY <1>1, <1>6 DEF FileInv
<1>8. Lossless'
  <2> SUFFICES ASSUME NEW k \in 1 .. i + 1
               PROVE  outFile'[k].content
                         = Content(k - 1, IF TakenForRaw(k - 1)' THEN "packed" ELSE "raw")
    BY <1>6 DEF Lossless
  <2>1. TakenForRaw(k - 1)' = TakenForRaw(k - 1)
    BY <1>1 DEF TakenForRaw
  <2>2. CASE k \in 1 .. i
    BY <1>5, <1>6, <2>1, <2>2 DEF Lossless
  <2>3. CASE k = i + 1
    <3>1. k - 1 = i /\ outFile'[k].content = buf[s]
      BY <1>5, <1>6, <2>3
    <3> QED
      BY <1>4, <2>1, <3>1 DEF Restored
  <2> QED
    BY <1>5, <2>2, <2>3
<1>9. RestoredWhole'
  <2> SUFFICES ASSUME NEW k \in 1 .. i + 1
               PROVE  outFile'[k].size = IF k < NumBlocks THEN BlockSize
                                         ELSE totalsize - (NumBlocks - 1) * BlockSize
    BY <1>1, <1>6 DEF RestoredWhole
  <2>1. CASE k \in 1 .. i
    BY <1>5, <1>6, <2>1 DEF RestoredWhole
  <2>2. CASE k = i + 1
    <3>1. outFile'[k].size = WriteSize
      BY <1>6, <2>2
    <3>2. k < NumBlocks <=> i # NumBlocks - 1
      BY <1>3, <2>2, DecSizesAssumption DEF Blocks
    <3> QED
      BY <1>0, <3>1, <3>2, LastSize DEF WriteSize
  <2> QED
    BY <1>5, <2>1, <2>2
<1> QED
  BY <1>1, <1>2, <1>3, <1>5, <1>7, <1>8, <1>9

LEMMA FileStep ==
    RingIInv /\ DataInv /\ FileInv /\ Lossless /\ RestoredWhole /\ [Next]_vars
        => FileInv' /\ Lossless' /\ RestoredWhole'
<1> SUFFICES ASSUME RingIInv, DataInv, FileInv, Lossless, RestoredWhole, [Next]_vars
             PROVE  FileInv' /\ Lossless' /\ RestoredWhole'
  OBVIOUS
<1>1. CASE Write
  BY <1>1, WriteFile
<1>2. CASE ~ Write
  <2>1. outFile' = outFile /\ inFile' = inFile /\ totalsize' = totalsize /\ FileInv'
    BY <1>2, FileMoves
  <2> QED
    BY <2>1 DEF Lossless, RestoredWhole, TakenForRaw
<1> QED
  BY <1>1, <1>2

-----------------------------------------------------------------------------
(* The invariant as a whole.                                               *)

LEMMA IInvInit == Init => IInv
<1> SUFFICES ASSUME Init PROVE IInv
  OBVIOUS
<1>1. RingIInv /\ EndInv
  BY RingInit, EndInit
<1>2. DataInv
  <2>1. \A s \in Slots : ledger[s] = 0
    BY DEF Init
  <2> QED
    BY <2>1 DEF DataInv, ChunkHeld, BlockHeld
<1>3. outFile = <<>> /\ iter["wr"] = 0 /\ pc["wr"] = "open"
  BY DEF Init, Stages, Threads
<1>4. FileInv /\ Lossless /\ RestoredWhole
  BY <1>3 DEF FileInv, Lossless, RestoredWhole
<1> QED
  BY <1>1, <1>2, <1>4 DEF IInv

LEMMA IInvStep == IInv /\ [Next]_vars => IInv'
BY RingStep, EndStep, DataStep, FileStep DEF IInv

\* The inductive invariant of the pipeline holds in every run of it.
THEOREM InvariantHolds == Spec => []IInv
BY IInvInit, IInvStep, PTL DEF Spec

\* The blocks of the original are restored in order: the GPU stage judges and
\* unpacks each chunk in the slot it came in, with the size it came with.
THEOREM BlocksRestored == Spec => []Lossless
<1>1. IInv => Lossless
  BY DEF IInv
<1> QED
  BY <1>1, InvariantHolds, PTL

\* The last write leaves out just the padding, for every size of file and
\* block.
THEOREM LengthRestored == Spec => []RestoredWhole
<1>1. IInv => RestoredWhole
  BY DEF IInv
<1> QED
  BY <1>1, InvariantHolds, PTL

-----------------------------------------------------------------------------
(* The pipeline implements the abstract stream.                            *)

OutBlocks == [k \in 1 .. Len(outFile) |-> outFile[k].content.block]

LEMMA ContentBlock == \A b, f : Content(b, f).block = b
BY DEF Content

\* The blocks in the file are the first ones, in order.
LEMMA OutFirstBlocks ==
    ASSUME NEW file, NEW n, Len(file) = n,
           \A k \in 1 .. Len(file) : file[k].content.block = k - 1
    PROVE  [k \in 1 .. Len(file) |-> file[k].content.block] = FirstBlocks(n)
BY DEF FirstBlocks

\* Who moves what of the abstract stream.
LEMMA StreamMoves ==
    ASSUME RingIInv, [Next]_vars
    PROVE  /\ ~ Receive => iter'["rec"] = iter["rec"]
           /\ ~ MainReturn /\ ~ ReceiveOverrun /\ ~ (\E t \in Stages : Fail(t)) => proc' = proc
<1>0. TypeOK /\ {"rec", "gpu", "wr"} = Stages
  BY DEF RingIInv, Stages
<1>1. ASSUME ~ Receive
      PROVE  iter'["rec"] = iter["rec"]
  <2>1. ASSUME NEW t \in Stages, Publish(t)
        PROVE  iter'["rec"] = iter["rec"]
    BY <1>0, <2>1, PublishMoves, PassOnRing
  <2>2. CASE Decompress \/ Write
    BY <2>2 DEF Decompress, Write, queueVars
  <2>3. CASE ~ Decompress /\ ~ Write /\ \A t \in Stages : ~ Publish(t)
    BY <1>0, <1>1, <2>3, QuietMoves DEF queueVars
  <2> QED
    BY <2>1, <2>2, <2>3
<1>2. ASSUME NEW t \in Stages, StageStep(t), ~ ReceiveOverrun
      PROVE  proc' = proc
  BY <1>2 DEF StageStep, Open, Enter, Acquire, NotReady, CondWait, Ready, Signal,
     Publish, Receive, Decompress, Write, endVars
<1>3. ASSUME \/ \E t \in Stages : SpuriousWakeup(t)
             \/ JoinAll \/ DequeueDelete \/ UNCHANGED vars
      PROVE  proc' = proc
  BY <1>3 DEF SpuriousWakeup, JoinAll, DequeueDelete, vars, endVars
<1> QED
  BY <1>1, <1>2, <1>3 DEF Next, MainStep

\* The receiver is never a whole turn of the ring ahead of the file when it
\* reads; what the writer writes is the next block; main returns only when
\* all is written.
LEMMA StreamNext ==
    ASSUME IInv, IInv', [Next]_vars
    PROVE  [Stream!BSNext]_(Stream!bsVars)
<1>0. /\ RingIInv /\ {"rec", "gpu", "wr"} = Stages
      /\ iter["wr"] \in Nat /\ iter["rec"] \in Nat
      /\ Len(outFile) \in {iter["wr"], iter["wr"] + 1} /\ Len(outFile) \in Nat
  <2>1. iter \in [Stages -> 0 .. NumBlocks] /\ {"rec", "gpu", "wr"} = Stages
    BY DEF IInv, RingIInv, TypeOK, Stages
  <2>2. iter["wr"] \in Nat /\ iter["rec"] \in Nat
    BY <2>1, DecSizesAssumption
  <2> QED
    BY <2>1, <2>2 DEF IInv, FileInv
<1>1. /\ OutBlocks = FirstBlocks(Len(outFile)) /\ OutBlocks' = FirstBlocks(Len(outFile'))
      /\ Len(OutBlocks) = Len(outFile)
  <2>1. OutBlocks = FirstBlocks(Len(outFile))
    <3>1. \A k \in 1 .. Len(outFile) : outFile[k].content.block = k - 1
      BY ContentBlock DEF IInv, Lossless
    <3> QED
      BY <3>1, OutFirstBlocks DEF OutBlocks
  <2>2. OutBlocks' = FirstBlocks(Len(outFile'))
    <3>1. \A k \in 1 .. Len(outFile') : outFile'[k].content.block = k - 1
      BY ContentBlock DEF IInv, Lossless
    <3> QED
      BY <3>1, OutFirstBlocks DEF OutBlocks
  <2> QED
    BY <1>0, <2>1, <2>2, FirstBlocksLen
<1>2. ~ Write => OutBlocks' = OutBlocks
  BY <1>0, <1>1, FileMoves DEF IInv
<1>3. CASE Receive
  <2>1. /\ pc["rec"] \in Working /\ pc["rec"] = "fill" /\ proc = "running" /\ proc' = proc
        /\ outFile' = outFile
    BY <1>0, <1>3, ReceiveMoves DEF Receive, At, endVars
  <2>2. iter["rec"] < NumBlocks /\ iter["rec"] - iter["wr"] < NumSlots
    BY <1>0, <2>1, WorkPlace, DecSizesAssumption DEF Blocks
  <2>3. iter'["rec"] = iter["rec"] + 1
    BY <1>0, <1>3, ReceiveMoves, PassOnRing
  <2>4. iter["rec"] - Len(outFile) < NumSlots
    <3>1. iter["wr"] <= Len(outFile)
      BY <1>0
    <3> QED
      BY <1>0, <2>2, <3>1, SlotsAssumption
  <2>5. Stream!Accept
    BY <1>1, <2>1, <2>2, <2>3, <2>4 DEF Stream!Accept, OutBlocks
  <2> QED
    BY <2>5 DEF Stream!BSNext
<1>4. CASE Write
  <2>1. /\ iter' = iter /\ proc' = proc /\ proc = "running"
        /\ iter["wr"] < iter["rec"] /\ Len(outFile) = iter["wr"]
    BY <1>4, WriteFile DEF IInv
  <2>2. Len(outFile') = Len(outFile) + 1
    <3>1. pc'["wr"] = "relock"
      BY <1>0, <1>4, WorkMoves DEF Works, Threads
    <3> QED
      BY <2>1, <3>1 DEF IInv, FileInv
  <2>3. OutBlocks' = Append(OutBlocks, Len(OutBlocks))
    BY <1>0, <1>1, <2>2, FirstBlocksNext
  <2>4. Stream!Deliver
    BY <1>1, <2>1, <2>3 DEF Stream!Deliver, OutBlocks
  <2> QED
    BY <2>4 DEF Stream!BSNext
<1>5. CASE MainReturn
  <2>1. /\ proc = "running" /\ proc' = "exited" /\ pc["main"] = "return"
        /\ iter' = iter /\ outFile' = outFile
    BY <1>5 DEF MainReturn, At, queueVars, dataVars
  <2>2. pc["wr"] = "done" /\ iter["wr"] = NumBlocks
    BY <1>0, <2>1 DEF IInv, EndInv
  <2>3. Len(outFile) = NumBlocks
    BY <1>0, <2>2 DEF IInv, FileInv
  <2>4. Stream!Complete
    BY <1>1, <2>1, <2>3 DEF Stream!Complete, OutBlocks
  <2> QED
    BY <2>4 DEF Stream!BSNext
<1>6. CASE ReceiveOverrun \/ \E t \in Stages : Fail(t)
  <2>1. proc = "running" /\ proc' = "failed" /\ iter' = iter /\ outFile' = outFile
    BY <1>6 DEF ReceiveOverrun, Fail, At, queueVars, dataVars
  <2>2. Stream!GiveUp
    BY <1>1, <2>1 DEF Stream!GiveUp, OutBlocks
  <2> QED
    BY <2>2 DEF Stream!BSNext
<1>7. CASE /\ ~ Receive /\ ~ Write /\ ~ MainReturn /\ ~ ReceiveOverrun
           /\ ~ \E t \in Stages : Fail(t)
  <2>1. iter'["rec"] = iter["rec"] /\ proc' = proc /\ OutBlocks' = OutBlocks
    BY <1>0, <1>2, <1>7, StreamMoves
  <2> QED
    BY <2>1 DEF Stream!bsVars, OutBlocks
<1> QED
  BY <1>3, <1>4, <1>5, <1>6, <1>7

LEMMA StreamInit == Init => Stream!BSInit
<1> SUFFICES ASSUME Init PROVE Stream!BSInit
  OBVIOUS
<1>1. outFile = <<>> /\ iter["rec"] = 0 /\ proc = "running"
  BY DEF Init, Stages
<1>2. OutBlocks = <<>>
  BY <1>1, OutFirstBlocks, FirstBlocksEmpty DEF OutBlocks
<1> QED
  BY <1>1, <1>2 DEF Stream!BSInit, OutBlocks

\* The safety part of DeliversEverything: whatever fails, and however the
\* threads interleave, the pipeline behaves as a first-in first-out stream
\* that holds at most a ring of blocks, and it ends normally only when the
\* whole file is written.
THEOREM PipelineIsStream == Spec => Stream!BSSpec
<1>1. Init => Stream!BSInit
  BY StreamInit
<1>2. IInv /\ IInv' /\ [Next]_vars => [Stream!BSNext]_(Stream!bsVars)
  BY StreamNext
<1> QED
  BY <1>1, <1>2, InvariantHolds, PTL DEF Spec, Stream!BSSpec
=============================================================================
