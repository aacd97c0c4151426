------------------------------- MODULE MCLzss -------------------------------
(***************************************************************************)
(* Small instances of Lzss for TLC.                                        *)
(***************************************************************************)
EXTENDS Lzss

\* The program is over.
Over == phase \in {"done", "stopped", "undefined"} /\ UNCHANGED vars

MCSpec == Init /\ [][Next \/ Over]_vars
=============================================================================
