---------------------------- MODULE MCLzssBlocks ----------------------------
(***************************************************************************)
(* A small instance of LzssBlocks for TLC.                                 *)
(***************************************************************************)
EXTENDS LzssBlocks

\* The programs have ended, or behave unpredictably from here on.
Over == phase \in {"done", "refused", "failed", "undefined"} /\ UNCHANGED vars

MCSpec == Init /\ [][Next \/ Over]_vars
=============================================================================
