--------------------------- MODULE PipelineLemmas ---------------------------
(***************************************************************************)
(* Lemmas the proofs about both CULZSS pipelines use, for any number of    *)
(* slots and any set of stages: the geometry of the ring; that heads,      *)
(* counters and ledger go on agreeing when a stage passes its slot on; and *)
(* the sequence of block numbers that the abstract stream delivers.        *)
(***************************************************************************)
EXTENDS Ring, SequenceTheorems, TLAPS

-----------------------------------------------------------------------------
(* The geometry of the ring.                                               *)

\* Heads stay inside the ring.
LEMMA NextSlotType ==
    ASSUME NEW h \in Slots
    PROVE  NextSlot(h) \in Slots
BY SlotsAssumption DEF Slots, NextSlot

LEMMA GapType ==
    ASSUME NEW h \in Slots, NEW s \in Slots
    PROVE  /\ Gap(h, s) \in 0 .. NumSlots - 1
           /\ Gap(h, h) = 0
BY SlotsAssumption DEF Slots, Gap

LEMMA GapInjective ==
    ASSUME NEW h \in Slots, NEW s \in Slots, NEW u \in Slots,
           Gap(h, s) = Gap(h, u)
    PROVE  s = u
BY SlotsAssumption DEF Slots, Gap

\* Going d places forward, then measuring the way.
LEMMA GapOfForward ==
    ASSUME NEW h \in Slots, NEW d \in 0 .. NumSlots
    PROVE  /\ Forward(h, d) \in Slots
           /\ d < NumSlots => Gap(h, Forward(h, d)) = d
           /\ d = NumSlots => Forward(h, d) = h
           /\ d < NumSlots => NextSlot(Forward(h, d)) = Forward(h, d + 1)
BY SlotsAssumption DEF Slots, Gap, Forward, NextSlot

\* Moving the origin by one.
LEMMA NextOrigin ==
    ASSUME NEW h \in Slots
    PROVE  /\ \A s \in Slots : Gap(NextSlot(h), s) =
                  IF s = h THEN NumSlots - 1 ELSE Gap(h, s) - 1
           /\ \A d \in 1 .. NumSlots :
                  Forward(NextSlot(h), d - 1) = Forward(h, d)
<1>1. NextSlot(h) = IF h + 1 = NumSlots THEN 0 ELSE h + 1
  BY DEF NextSlot
<1>2. h \in Int /\ NumSlots \in Int /\ 0 <= h /\ h < NumSlots
  BY SlotsAssumption DEF Slots
<1>3. ASSUME NEW s \in Slots
      PROVE  Gap(NextSlot(h), s) = IF s = h THEN NumSlots - 1 ELSE Gap(h, s) - 1
  <2>1. s \in Int /\ 0 <= s /\ s < NumSlots
    BY <1>2 DEF Slots
  <2> QED
    BY <1>1, <1>2, <2>1 DEF Gap
<1>4. ASSUME NEW d \in 1 .. NumSlots
      PROVE  Forward(NextSlot(h), d - 1) = Forward(h, d)
  <2>1. d \in Int /\ 1 <= d /\ d <= NumSlots
    BY <1>2
  <2> QED
    BY <1>1, <1>2, <2>1 DEF Forward
<1> QED
  BY <1>3, <1>4

-----------------------------------------------------------------------------
(* The stages and the ring.                                                *)

LEMMA InitAgree ==
    ASSUME NEW stages, NEW want, NEW last, StageOrder(stages, want, last)
    PROVE  Agree(stages, want, last, [t \in stages |-> 0], [t \in stages |-> 0],
                 [s \in Slots |-> 0])
<1>1. last \in stages /\ \A t \in stages : want[t] \in Nat
  BY DEF StageOrder
<1>2. Forward(0, 0) = 0 /\ 0 \in Slots
  BY SlotsAssumption DEF Forward, Slots
<1>3. \A s \in Slots : ~ (Gap(0, s) < 0)
  BY <1>2, GapType, SlotsAssumption
<1> QED
  BY <1>1, <1>2, <1>3, SlotsAssumption DEF Agree

\* A stage whose slot is ready is less than a turn ahead of the last stage,
\* its head is where its lead says, and it is behind all earlier stages.
LEMMA ReadySlot ==
    ASSUME NEW stages, NEW want, NEW last, StageOrder(stages, want, last),
           NEW it \in [stages -> Int], NEW hd \in [stages -> Slots],
           NEW lg \in [Slots -> Nat],
           Agree(stages, want, last, it, hd, lg),
           NEW t \in stages, lg[hd[t]] = want[t]
    PROVE  /\ it[t] - it[last] \in 0 .. NumSlots - 1
           /\ Gap(hd[last], hd[t]) = it[t] - it[last]
           /\ \A u \in stages : want[u] < want[t] => it[t] < it[u]
<1> DEFINE lead == it[t] - it[last]
<1>1. /\ last \in stages /\ hd[t] \in Slots /\ hd[last] \in Slots
      /\ it[t] \in Int /\ it[last] \in Int /\ NumSlots \in Nat
      /\ \A u \in stages : want[u] \in Nat /\ want[u] <= want[last]
  BY SlotsAssumption DEF StageOrder
<1>2. lead \in 0 .. NumSlots /\ hd[t] = Forward(hd[last], lead)
  BY <1>1 DEF Agree
<1>3. lead # NumSlots /\ Gap(hd[last], hd[t]) = lead
  <2>1. CASE t = last
    BY <1>1, <2>1, GapType, SlotsAssumption
  <2>2. CASE t # last
    <3>1. ~ (lg[hd[t]] > want[t])
      BY <1>1
    <3>2. ~ (Gap(hd[last], hd[t]) < lead)
      BY <1>1, <2>2, <3>1 DEF Agree
    <3>3. lead # NumSlots
      <4> SUFFICES ASSUME lead = NumSlots PROVE FALSE
        OBVIOUS
      <4>1. hd[t] = hd[last]
        BY <1>1, <1>2, GapOfForward
      <4> QED
        BY <1>1, <3>2, <4>1, GapType, SlotsAssumption
    <3>4. lead < NumSlots
      BY <1>1, <1>2, <3>3
    <3> QED
      BY <1>1, <1>2, <3>3, <3>4, GapOfForward
  <2> QED
    BY <2>1, <2>2
<1>4. ASSUME NEW u \in stages, want[u] < want[t]
      PROVE  it[t] < it[u]
  <2>1. u # last /\ lg[hd[t]] > want[u] /\ it[u] \in Int
    BY <1>1, <1>4
  <2>2. Gap(hd[last], hd[t]) < it[u] - it[last]
    BY <1>1, <2>1 DEF Agree
  <2> QED
    BY <1>1, <1>3, <2>1, <2>2
<1> QED
  BY <1>1, <1>2, <1>3, <1>4

\* Heads, counters and ledger go on agreeing when a stage other than the last
\* passes its slot on.
LEMMA IncrementAgree ==
    ASSUME NEW stages, NEW want, NEW last, StageOrder(stages, want, last),
           NEW it \in [stages -> Int], NEW hd \in [stages -> Slots],
           NEW lg \in [Slots -> Nat],
           Agree(stages, want, last, it, hd, lg),
           NEW t \in stages \ {last}, lg[hd[t]] = want[t]
    PROVE  Agree(stages, want, last, [it EXCEPT ![t] = it[t] + 1],
                 [hd EXCEPT ![t] = NextSlot(hd[t])],
                 [lg EXCEPT ![hd[t]] = want[t] + 1])
<1> DEFINE it2 == [it EXCEPT ![t] = it[t] + 1]
           hd2 == [hd EXCEPT ![t] = NextSlot(hd[t])]
           lg2 == [lg EXCEPT ![hd[t]] = want[t] + 1]
<1>1. /\ last \in stages /\ t \in stages /\ t # last
      /\ hd[t] \in Slots /\ hd[last] \in Slots
      /\ \A u \in stages : want[u] \in Nat /\ it[u] \in Int
      /\ \A u, v \in stages : want[u] = want[v] => u = v
  BY DEF StageOrder
<1>2. /\ it[t] - it[last] \in 0 .. NumSlots - 1
      /\ Gap(hd[last], hd[t]) = it[t] - it[last]
      /\ \A u \in stages : want[u] < want[t] => it[t] < it[u]
  BY <1>1, ReadySlot
<1>3. /\ \A u \in stages : it2[u] = IF u = t THEN it[u] + 1 ELSE it[u]
      /\ \A u \in stages : hd2[u] = IF u = t THEN NextSlot(hd[u]) ELSE hd[u]
      /\ \A s \in Slots : lg2[s] = IF s = hd[t] THEN want[t] + 1 ELSE lg[s]
  OBVIOUS
<1>4. it2[last] = it[last] /\ hd2[last] = hd[last]
  BY <1>1, <1>3
<1> HIDE DEF it2, hd2, lg2
<1>5. \A u \in stages : 0 <= it2[u] - it2[last] /\ it2[u] - it2[last] <= NumSlots
  BY <1>1, <1>2, <1>3, <1>4, SlotsAssumption DEF Agree
<1>6. \A u, v \in stages : want[u] < want[v] => it2[v] <= it2[u]
  <2> SUFFICES ASSUME NEW u \in stages, NEW v \in stages, want[u] < want[v]
               PROVE  it2[v] <= it2[u]
    OBVIOUS
  <2>1. it[v] <= it[u] /\ u # v
    BY <1>1 DEF Agree
  <2>2. v = t => it[v] < it[u]
    BY <1>2
  <2> QED
    BY <1>1, <1>3, <2>1, <2>2
<1>7. \A u \in stages : hd2[u] = Forward(hd2[last], it2[u] - it2[last])
  <2> SUFFICES ASSUME NEW u \in stages
               PROVE  hd2[u] = Forward(hd2[last], it2[u] - it2[last])
    OBVIOUS
  <2>1. hd[u] = Forward(hd[last], it[u] - it[last])
    BY DEF Agree
  <2>2. CASE u = t
    <3>1. NextSlot(hd[t]) = Forward(hd[last], it[t] - it[last] + 1)
      BY <1>1, <1>2, <2>1, <2>2, GapOfForward, SlotsAssumption
    <3>2. it2[u] - it2[last] = it[t] - it[last] + 1
      BY <1>1, <1>3, <1>4, <2>2
    <3> QED
      BY <1>3, <1>4, <2>2, <3>1, <3>2
  <2>3. CASE u # t
    BY <1>3, <1>4, <2>1, <2>3
  <2> QED
    BY <2>2, <2>3
<1>8. \A u \in stages \ {last}, s \in Slots :
         lg2[s] > want[u] <=> Gap(hd2[last], s) < it2[u] - it2[last]
  <2> SUFFICES ASSUME NEW u \in stages \ {last}, NEW s \in Slots
               PROVE  lg2[s] > want[u] <=> Gap(hd[last], s) < it2[u] - it[last]
    BY <1>4
  <2>1. lg[s] > want[u] <=> Gap(hd[last], s) < it[u] - it[last]
    BY DEF Agree
  <2>2. /\ Gap(hd[last], s) \in Int /\ want[u] \in Nat /\ lg[s] \in Nat
        /\ it[u] \in Int /\ it[last] \in Int /\ want[t] \in Nat
    BY <1>1, GapType, SlotsAssumption
  <2>3. CASE s = hd[t] /\ u = t
    BY <1>2, <1>3, <2>2, <2>3
  <2>4. CASE s = hd[t] /\ u # t
    <3>1. want[u] # want[t]
      BY <1>1, <2>4
    <3> QED
      BY <1>3, <2>1, <2>2, <2>4, <3>1
  <2>5. CASE s # hd[t] /\ u = t
    <3>1. Gap(hd[last], s) # Gap(hd[last], hd[t])
      BY <1>1, <2>5, GapInjective
    <3> QED
      BY <1>2, <1>3, <2>1, <2>2, <2>5, <3>1
  <2>6. CASE s # hd[t] /\ u # t
    BY <1>3, <2>1, <2>6
  <2> QED
    BY <2>3, <2>4, <2>5, <2>6
<1>9. Agree(stages, want, last, it2, hd2, lg2)
  BY <1>5, <1>6, <1>7, <1>8 DEF Agree
<1> QED
  BY <1>9 DEF it2, hd2, lg2

\* And when the last stage resets its slot.
LEMMA ResetAgree ==
    ASSUME NEW stages, NEW want, NEW last, StageOrder(stages, want, last),
           NEW it \in [stages -> Int], NEW hd \in [stages -> Slots],
           NEW lg \in [Slots -> Nat],
           Agree(stages, want, last, it, hd, lg),
           lg[hd[last]] = want[last]
    PROVE  Agree(stages, want, last, [it EXCEPT ![last] = it[last] + 1],
                 [hd EXCEPT ![last] = NextSlot(hd[last])],
                 [lg EXCEPT ![hd[last]] = 0])
<1> DEFINE it2 == [it EXCEPT ![last] = it[last] + 1]
           hd2 == [hd EXCEPT ![last] = NextSlot(hd[last])]
           lg2 == [lg EXCEPT ![hd[last]] = 0]
<1>1. /\ last \in stages /\ hd[last] \in Slots
      /\ \A u \in stages : want[u] \in Nat /\ it[u] \in Int
      /\ \A u \in stages \ {last} : want[u] < want[last]
  BY DEF StageOrder
<1>2. \A u \in stages \ {last} : it[last] < it[u]
  BY <1>1, ReadySlot
<1>3. /\ \A u \in stages : it2[u] = IF u = last THEN it[u] + 1 ELSE it[u]
      /\ \A u \in stages : hd2[u] = IF u = last THEN NextSlot(hd[u]) ELSE hd[u]
      /\ \A s \in Slots : lg2[s] = IF s = hd[last] THEN 0 ELSE lg[s]
  OBVIOUS
<1>4. it2[last] = it[last] + 1 /\ hd2[last] = NextSlot(hd[last])
  BY <1>1, <1>3
<1>5. \A s \in Slots : /\ Gap(hd[last], s) \in 0 .. NumSlots - 1
                       /\ Gap(hd2[last], s) =
                            IF s = hd[last] THEN NumSlots - 1 ELSE Gap(hd[last], s) - 1
  BY <1>1, <1>4, GapType, NextOrigin
<1> HIDE DEF it2, hd2, lg2
<1>6. \A u \in stages : it[u] - it[last] <= NumSlots
  BY DEF Agree
<1>7. \A u \in stages : 0 <= it2[u] - it2[last] /\ it2[u] - it2[last] <= NumSlots
  BY <1>1, <1>2, <1>3, <1>4, <1>6, SlotsAssumption
<1>8. \A u, v \in stages : want[u] < want[v] => it2[v] <= it2[u]
  <2> SUFFICES ASSUME NEW u \in stages, NEW v \in stages, want[u] < want[v]
               PROVE  it2[v] <= it2[u]
    OBVIOUS
  <2>1. it[v] <= it[u]
    BY DEF Agree
  <2>2. u # last
    BY <1>1
  <2> QED
    BY <1>1, <1>2, <1>3, <2>1, <2>2
<1>9. \A u \in stages : hd2[u] = Forward(hd2[last], it2[u] - it2[last])
  <2> SUFFICES ASSUME NEW u \in stages
               PROVE  hd2[u] = Forward(hd2[last], it2[u] - it2[last])
    OBVIOUS
  <2>1. CASE u = last
    <3>1. hd2[last] \in Slots
      BY <1>1, <1>4, NextSlotType
    <3>2. it2[u] - it2[last] = 0
      BY <1>1, <1>4, <2>1
    <3> QED
      BY <2>1, <3>1, <3>2, SlotsAssumption DEF Forward, Slots
  <2>2. CASE u # last
    <3>1. it[u] - it[last] \in 1 .. NumSlots
      BY <1>1, <1>2, <1>6, <2>2, SlotsAssumption
    <3>2. Forward(NextSlot(hd[last]), it[u] - it[last] - 1) = Forward(hd[last], it[u] - it[last])
      BY <1>1, <3>1, NextOrigin
    <3>3. it2[u] - it2[last] = it[u] - it[last] - 1
      BY <1>1, <1>3, <1>4, <2>2
    <3>4. hd[u] = Forward(hd[last], it[u] - it[last])
      BY DEF Agree
    <3> QED
      BY <1>3, <1>4, <2>2, <3>2, <3>3, <3>4
  <2> QED
    BY <2>1, <2>2
<1>10. \A u \in stages \ {last}, s \in Slots :
          lg2[s] > want[u] <=> Gap(hd2[last], s) < it2[u] - it2[last]
  <2> SUFFICES ASSUME NEW u \in stages \ {last}, NEW s \in Slots
               PROVE  lg2[s] > want[u] <=> Gap(hd2[last], s) < it2[u] - it2[last]
    OBVIOUS
  <2>1. lg[s] > want[u] <=> Gap(hd[last], s) < it[u] - it[last]
    BY DEF Agree
  <2>2. /\ it2[u] = it[u] /\ it2[last] = it[last] + 1 /\ want[u] \in Nat
        /\ it[u] \in Int /\ it[last] \in Int /\ it[u] - it[last] <= NumSlots
    BY <1>1, <1>3, <1>4, <1>6
  <2>3. CASE s = hd[last]
    BY <1>3, <1>5, <2>2, <2>3, SlotsAssumption
  <2>4. CASE s # hd[last]
    BY <1>3, <1>5, <2>1, <2>2, <2>4, SlotsAssumption
  <2> QED
    BY <2>3, <2>4
<1>11. Agree(stages, want, last, it2, hd2, lg2)
  BY <1>7, <1>8, <1>9, <1>10 DEF Agree
<1> QED
  BY <1>11 DEF it2, hd2, lg2

-----------------------------------------------------------------------------
(* The blocks that have come out of a pipeline.                            *)

\* The numbers of the first n blocks, in order.
FirstBlocks(n) == [k \in 1 .. n |-> k - 1]

LEMMA FirstBlocksEmpty == FirstBlocks(0) = <<>>
<1>1. FirstBlocks(0) \in Seq(Int) /\ Len(FirstBlocks(0)) = 0
  BY DEF FirstBlocks
<1> QED
  BY <1>1

LEMMA FirstBlocksLen ==
    ASSUME NEW n \in Nat
    PROVE  FirstBlocks(n) \in Seq(Int) /\ Len(FirstBlocks(n)) = n
BY DEF FirstBlocks

LEMMA FirstBlocksNext ==
    ASSUME NEW n \in Nat
    PROVE  Append(FirstBlocks(n), n) = FirstBlocks(n + 1)
<1>1. /\ FirstBlocks(n) \in Seq(Int) /\ Len(FirstBlocks(n)) = n
      /\ FirstBlocks(n + 1) \in Seq(Int) /\ Len(FirstBlocks(n + 1)) = n + 1
  BY FirstBlocksLen
<1>2. \A k \in 1 .. n + 1 : Append(FirstBlocks(n), n)[k] = FirstBlocks(n + 1)[k]
  BY <1>1 DEF FirstBlocks
<1>3. Append(FirstBlocks(n), n) \in Seq(Int) /\ Len(Append(FirstBlocks(n), n)) = n + 1
  BY <1>1
<1> QED
  BY <1>1, <1>2, <1>3, SeqEqual
=============================================================================
