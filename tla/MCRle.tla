------------------------------- MODULE MCRle -------------------------------
(***************************************************************************)
(* Small instances of Rle for TLC.                                         *)
(***************************************************************************)
EXTENDS Rle

\* The program is over.
Over ==
    /\ \/ phase \in {"rejected", "ended", "undefined"}
       \/ phase \in {"done", "verified"} /\ round = Rounds
    /\ UNCHANGED vars

MCSpec == Init /\ [][Next \/ Over]_vars
=============================================================================
