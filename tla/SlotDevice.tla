----------------------------- MODULE SlotDevice -----------------------------
(***************************************************************************)
(* What the pipeline of Culzss takes the device for: the work of a slot is *)
(* issued at once, done in one step, and its tokens are taken when it is   *)
(* done.  Blocks go around the ring of slots in order.                     *)
(*                                                                         *)
(* This is promised as long as the device is orderly; a device that ceases *)
(* to be so is never orderly again, and nothing is promised of it.         *)
(***************************************************************************)
EXTENDS Integers

CONSTANTS NumBlocks, NumSlots

VARIABLES
    filled, issued, taken,   \* blocks read, issued and taken so far
    buf,                     \* the block in each slot's input buffer
    bufout,                  \* the block each slot's tokens are of
    stream,                  \* "busy" from the issue of a slot to its end
    orderly

sdVars == <<filled, issued, taken, buf, bufout, stream, orderly>>

NoBlock == -1
SlotOf(b) == b % NumSlots

SDInit ==
    /\ filled = 0 /\ issued = 0 /\ taken = 0
    /\ buf = [s \in 0 .. NumSlots - 1 |-> NoBlock]
    /\ bufout = [s \in 0 .. NumSlots - 1 |-> NoBlock]
    /\ stream = [s \in 0 .. NumSlots - 1 |-> "idle"]
    /\ orderly = TRUE

SDFill ==
    /\ filled < NumBlocks /\ filled < taken + NumSlots
    /\ buf' = [buf EXCEPT ![SlotOf(filled)] = filled]
    /\ filled' = filled + 1
    /\ UNCHANGED <<issued, taken, bufout, stream>>

\* From here on the slot's old tokens are lost.
SDIssue ==
    /\ issued < filled
    /\ stream' = [stream EXCEPT ![SlotOf(issued)] = "busy"]
    /\ bufout' = [bufout EXCEPT ![SlotOf(issued)] = NoBlock]
    /\ issued' = issued + 1
    /\ UNCHANGED <<filled, taken, buf>>

SDRun(s) ==
    /\ stream[s] = "busy"
    /\ stream' = [stream EXCEPT ![s] = "idle"]
    /\ bufout' = [bufout EXCEPT ![s] = buf[s]]
    /\ UNCHANGED <<filled, issued, taken, buf>>

\* The input buffer is overwritten: tokens are packed into it.
SDTake ==
    /\ taken < issued
    /\ stream[SlotOf(taken)] = "idle"
    /\ buf' = [buf EXCEPT ![SlotOf(taken)] = NoBlock]
    /\ taken' = taken + 1
    /\ UNCHANGED <<filled, issued, bufout, stream>>

SDStep == SDFill \/ SDIssue \/ SDTake \/ \E s \in 0 .. NumSlots - 1 : SDRun(s)

SDNext == \/ orderly /\ orderly' /\ SDStep
          \/ ~ orderly'

SDSpec == SDInit /\ [][SDNext]_sdVars
=============================================================================
