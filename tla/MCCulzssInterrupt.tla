------------------------- MODULE MCCulzssInterrupt -------------------------
(***************************************************************************)
(* Small instances of CulzssInterrupt for TLC.                             *)
(***************************************************************************)
EXTENDS CulzssInterrupt

MCBlockSize == 3
MCCompLens == {2, 4}
MCBehind == [s \in Slots |-> IF s < NumSlots - 1 THEN {<<"buf", s + 1>>}
                             ELSE {<<"bufout", 0>>}]
=============================================================================
