---------------------------- MODULE BlockStream ----------------------------
(***************************************************************************)
(* What a CULZSS pipeline promises, with no thread, lock or buffer in it:  *)
(* a file is a stream of NumBlocks numbered blocks; blocks are taken in    *)
(* one at a time, at most Capacity of them are inside the pipeline, and    *)
(* they come out complete and in the order they went in.  The process ends *)
(* when all have come out; it may fail before, and then nothing more comes *)
(* out.                                                                    *)
(* Culzss (compression) and Deculzss (decompression) both implement it.    *)
(***************************************************************************)
EXTENDS Integers, Sequences

CONSTANTS NumBlocks,   \* blocks of the file
          Capacity     \* blocks the pipeline can hold

VARIABLES accepted,    \* how many blocks went in
          out,         \* the blocks that came out, oldest first
          status       \* of the process: "running", "exited" or "failed"

bsVars == <<accepted, out, status>>

BSInit == accepted = 0 /\ out = <<>> /\ status = "running"

Accept ==
    /\ status = "running"
    /\ accepted < NumBlocks
    /\ accepted - Len(out) < Capacity
    /\ accepted' = accepted + 1
    /\ UNCHANGED <<out, status>>

Deliver ==
    /\ status = "running"
    /\ Len(out) < accepted
    /\ out' = Append(out, Len(out))
    /\ UNCHANGED <<accepted, status>>

\* The process ends normally: the whole stream has come out.
Complete ==
    /\ status = "running"
    /\ Len(out) = NumBlocks
    /\ status' = "exited"
    /\ UNCHANGED <<accepted, out>>

GiveUp ==
    /\ status = "running"
    /\ status' = "failed"
    /\ UNCHANGED <<accepted, out>>

BSNext == Accept \/ Deliver \/ Complete \/ GiveUp

BSSpec == BSInit /\ [][BSNext]_bsVars

\* Unless the process fails, everything comes out and the process ends.
BSFairSpec ==
    BSSpec /\ WF_bsVars(Accept) /\ WF_bsVars(Deliver) /\ WF_bsVars(Complete)
=============================================================================
