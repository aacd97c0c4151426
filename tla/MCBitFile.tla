----------------------------- MODULE MCBitFile -----------------------------
(***************************************************************************)
(* A small instance of BitFile for TLC: bytes of three bits.               *)
(***************************************************************************)
EXTENDS BitFile

\* Every bit pattern of three is in the first; the second is its complement.
MCData == {<<0, 0, 0, 1, 0, 1, 1, 1, 0, 0, 1, 0, 1>>,
           <<1, 1, 1, 0, 1, 0, 0, 0, 1, 1, 0, 1, 0>>}

\* The last program is over.
Over == status = "over" /\ fp = "closed" /\ UNCHANGED bfVars

MCSpec == BFInit /\ [][BFNext \/ Over]_bfVars
=============================================================================
