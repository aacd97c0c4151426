-------------------------------- MODULE Ring --------------------------------
(***************************************************************************)
(* The ring of slots that the CULZSS pipelines hand their blocks round in  *)
(* (queue of culzss.h, dequeue of deculzss.h).  Each stage has a head of   *)
(* its own into it, and an array, ledger, says of each slot which stage    *)
(* it waits for: want[t] for stage t.  A stage that has done its work      *)
(* increments ledger at its head; the last stage resets it to 0.           *)
(***************************************************************************)
EXTENDS Integers

CONSTANT NumSlots      \* numblocks, NUMBUF: slots of the ring

ASSUME SlotsAssumption == NumSlots \in Nat \ {0}

Slots == 0 .. NumSlots - 1

\* Mistake: the wrap-around of a head is forgotten.
NextSlotNoWrap(h) == h + 1

\* The head after h: heads wrap around at the number of slots.
NextSlot(h) == IF h + 1 = NumSlots THEN 0 ELSE h + 1

-----------------------------------------------------------------------------
(* What heads, counters and ledger have to do with each other.             *)

\* The way around the ring from slot h to slot s, and the slot d places
\* after h (d may be a whole turn).
Gap(h, s) == IF s >= h THEN s - h ELSE s - h + NumSlots
Forward(h, d) == IF h + d < NumSlots THEN h + d ELSE h + d - NumSlots

\* The stages in the order of want; last is the one that resets the ledger.
StageOrder(stages, want, last) ==
    /\ want \in [stages -> Nat] /\ last \in stages
    /\ \A t, u \in stages : want[t] = want[u] => t = u
    /\ \A t \in stages : want[t] <= want[last]

\* The private heads hd, the loop counters it and the ledger lg agree: no
\* stage overtakes the one before it, the first is at most one turn of the
\* ring ahead of the last, each head points at the slot of the stage's next
\* block, and the ledger of every slot tells which stages have passed its
\* block on.
Agree(stages, want, last, it, hd, lg) ==
    /\ \A t \in stages : 0 <= it[t] - it[last] /\ it[t] - it[last] <= NumSlots
    /\ \A t, u \in stages : want[t] < want[u] => it[u] <= it[t]
    /\ \A t \in stages : hd[t] = Forward(hd[last], it[t] - it[last])
    /\ \A t \in stages \ {last}, s \in Slots :
          lg[s] > want[t] <=> Gap(hd[last], s) < it[t] - it[last]
=============================================================================
