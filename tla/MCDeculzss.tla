----------------------------- MODULE MCDeculzss -----------------------------
(***************************************************************************)
(* Small instances of Deculzss for TLC: three bytes a block.  A packed     *)
(* chunk may be shorter than a block, longer, or exactly as long.          *)
(***************************************************************************)
EXTENDS Deculzss

MCBlockSize == 3
MCCompLens == {2, 3, 4}

\* The process is over: nothing happens any more.
Over == proc # "running" /\ UNCHANGED vars

MCSpec == Init /\ [][Next \/ Over]_vars
MCFairSpec == MCSpec /\ Fairness
=============================================================================
