---------------------------- MODULE CulzssFormat ----------------------------
(***************************************************************************)
(* The data of the CULZSS tool (src/LZSS/Cuda), abstracted to what its     *)
(* correctness can tell apart: which block of the input a buffer holds and *)
(* in which form, and how many bytes of it go to the file.                 *)
(*                                                                         *)
(* The compressed file is a header followed by one chunk per block.  The   *)
(* header is the array bookkeeping of main.c: the number of blocks, the    *)
(* padding of the last one, and for each block the offset at which its     *)
(* chunk ENDS (a running sum of the sizes).  No flag says whether a chunk  *)
(* is compressed: the reader takes a chunk of exactly one block's length   *)
(* for a raw one (deculzss.c).                                             *)
(***************************************************************************)
EXTENDS Integers, Sequences

CONSTANTS BlockSize,   \* bytes of a block: buffersize of main.c
          CompLens     \* the lengths aftercompression_wrapper may return

ASSUME FormatAssumption ==
    /\ BlockSize \in Nat \ {0}
    /\ CompLens \subseteq Nat \ {0}

NoBlock == -1

\* raw: the bytes of the file; packed: the LZSS form of the block; garbled:
\* bytes that are neither (a packing that was given up, half overwritten).
Forms == {"empty", "raw", "garbled", "packed"}

Content(b, f) == [block |-> b, form |-> f]
Empty == Content(NoBlock, "empty")

\* What packing the token stream computed from content c leaves in a buffer.
Packed(c) == Content(c.block, IF c.form = "raw" THEN "packed" ELSE "garbled")

\* size bytes of content c, as they stand in the file.
Chunk(c, size) == [block |-> c.block, form |-> c.form, size |-> size]

RawChunk(b) == Chunk(Content(b, "raw"), BlockSize)
PackedChunk(b, len) == Chunk(Content(b, "packed"), len)

\* The chunks from which block b can be restored by one who knows their form.
ChunksOf(b) == {RawChunk(b)} \cup {PackedChunk(b, len) : len \in CompLens}
IsChunkOf(chunk, b) == chunk \in ChunksOf(b)
=============================================================================
