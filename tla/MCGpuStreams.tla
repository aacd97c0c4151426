---------------------------- MODULE MCGpuStreams ----------------------------
(***************************************************************************)
(* Small instances of GpuStreams for TLC.                                  *)
(***************************************************************************)
EXTENDS GpuStreams

\* All blocks are packed and the device is idle: nothing happens any more.
AllTaken ==
    /\ taken = NumBlocks
    /\ \A b \in Blocks, g \in Segs : ran[b][g] = 3
    /\ UNCHANGED gsVars

MCSpec == GSInit /\ [][GSNext \/ AllTaken]_gsVars
=============================================================================
