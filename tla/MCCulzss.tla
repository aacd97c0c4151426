------------------------------ MODULE MCCulzss ------------------------------
(***************************************************************************)
(* Small instances of Culzss for TLC.  Three bytes stand for a block; a    *)
(* packing that fits takes two, one that goes past the block's end four:   *)
(* what matters is that the sizes differ.                                  *)
(***************************************************************************)
EXTENDS CulzssInv

MCBlockSize == 3
MCCompLens == {2, 4}
MCOverlong == {4}

\* One slot's buf has buffers of other slots behind it: of the slot after it
\* and of the one before.
MCBehind == [s \in Slots |-> IF s = NumSlots - 1
                             THEN {<<"buf", 0>>, <<"bufout", NumSlots - 2>>} ELSE {}]

\* The process is over: nothing happens any more.
Over == proc # "running" /\ UNCHANGED vars

MCNext == Next \/ Over
MCSpec == Init /\ [][MCNext]_vars
MCFairSpec == MCSpec /\ Fairness
=============================================================================
