-------------------------------- MODULE Rle --------------------------------
(***************************************************************************)
(* Run-length encoding (src/RLE), in its four forms:                       *)
(*                                                                         *)
(*   "cuda"    parleDevice of Serial_VS_CUDA/kernel.cu                     *)
(*   "opencl"  parleDevice of Serial_VS_OpenCL/main.cpp with main.cl       *)
(*   "serial"  rleCpu of kernel.cu                                         *)
(*   "mask"    rleCpu of main.cpp, the kernels written as loops            *)
(*                                                                         *)
(* The first two run three kernels, each to its end before the next: a     *)
(* mask of the positions at which a run begins; after a prefix sum on the  *)
(* host, compaction of the mask into the list of these positions, closed   *)
(* by the length of the input; and scattering, a symbol and a count for    *)
(* each pair of successive positions.  The work-items of a kernel run in   *)
(* any order.  The CUDA program allocates its device buffers once and      *)
(* runs one input after another in them; the OpenCL program allocates new  *)
(* ones for each.  Both then verify what the device has computed, and go   *)
(* on with the next input only if it decompresses to the input.            *)
(***************************************************************************)
EXTENDS Integers, Sequences, SequencesExt

CONSTANTS MaxN,       \* MAX_N: the longest input
          Symbols,
          LocalSize,  \* work-items of a group (OpenCL)
          Threads,    \* work-items of a CUDA launch
          Rounds,     \* bound: inputs one run of the program encodes
          Impls

ASSUME RleAssumption ==
    /\ {MaxN, LocalSize, Threads, Rounds} \subseteq Nat \ {0}
    /\ Impls \subseteq {"cuda", "opencl", "serial", "mask"}

Unset == -1   \* what a buffer holds before anything is written to it

VARIABLES
    impl, round,
    n, in,        \* the input: in[0], ..., in[n - 1]
    phase,        \* the kernel that runs, or "host"; "done", "verified" or
                  \* "rejected"; "failed", "ended" or "undefined"
    todo,         \* per work-item: the positions it has yet to do
    mask, scanned, compacted, totalRuns,
    out           \* symbolsOut and countsOut

progVars == <<impl, round, n, in>>
buffers == <<mask, scanned, compacted, totalRuns, out>>
vars == <<progVars, phase, todo, buffers>>

Cells == 0 .. MaxN
Fresh == [c \in Cells |-> Unset]

\* main.cpp encodes arrays of Tests[i] symbols, multiples of the group size.
Sizes(i) == {k \in 1 .. MaxN : i \in {"opencl", "mask"} => k % LocalSize = 0}

-----------------------------------------------------------------------------
(* Which work-item does what.                                              *)

\* clEnqueueNDRangeKernel: n rounded down to a multiple of the group size.
GlobalSize == (n \div LocalSize) * LocalSize
Items == 0 .. MaxN + Threads

\* Mistake: a block includes its end.
BlockOfInclusive(w) ==
    LET r == n \div GlobalSize
    IN  IF w < GlobalSize THEN r * w .. r * (w + 1) ELSE {}

\* Blocks of r positions (mask and compact in main.cl).
BlockOf(w) ==
    LET r == n \div GlobalSize
    IN  IF w < GlobalSize THEN r * w .. r * (w + 1) - 1 ELSE {}

\* Every Threads-th position (hemi::grid_stride_range).
GridStride(w, size) ==
    IF w < Threads THEN {k \in 0 .. size - 1 : k % Threads = w} ELSE {}

Share(w) == IF impl = "opencl" THEN BlockOf(w) ELSE GridStride(w, n)

\* scatterKernel: one position per work-item in OpenCL.
RunShare(w) ==
    IF impl = "opencl" THEN {w} \cap 0 .. totalRuns - 1 \cap 0 .. GlobalSize - 1
    ELSE GridStride(w, totalRuns)

Launch(kernel, share) ==
    /\ phase' = kernel
    /\ todo' = share

Finished == \A w \in Items : todo[w] = {}

\* Work-item w takes position id, the next of its share.
Takes(w, id) ==
    /\ id \in todo[w]
    /\ \A k \in todo[w] : id <= k
    /\ todo' = [todo EXCEPT ![w] = @ \ {id}]

-----------------------------------------------------------------------------
Input(i) ==
    /\ n' \in Sizes(i)
    /\ in' \in [0 .. n' - 1 -> Symbols]

Init ==
    /\ impl \in Impls
    /\ round = 1
    /\ n \in Sizes(impl)
    /\ in \in [0 .. n - 1 -> Symbols]
    /\ phase = "host"
    /\ todo = [w \in Items |-> {}]
    /\ mask = Fresh /\ scanned = Fresh /\ compacted = Fresh
    /\ totalRuns = Unset
    /\ out = [c \in Cells |-> <<Unset, Unset>>]

StartMaskCuda ==
    /\ phase = "host" /\ impl = "cuda"
    /\ Launch("mask", [w \in Items |-> Share(w)])
    /\ UNCHANGED <<progVars, buffers>>

\* In new buffers; parleDevice allocates those it needs later when it needs them.
StartMaskOpencl ==
    /\ phase = "host" /\ impl = "opencl"
    /\ Launch("mask", [w \in Items |-> Share(w)])
    /\ mask' = Fresh /\ scanned' = Fresh /\ compacted' = Fresh
    /\ totalRuns' = Unset
    /\ out' = [c \in Cells |-> <<Unset, Unset>>]
    /\ UNCHANGED progVars

\* There is no platform, no device or no program: main returns.
SetupFails ==
    /\ phase = "host" /\ impl = "opencl" /\ round = 1
    /\ phase' = "ended"
    /\ UNCHANGED <<progVars, todo, buffers>>

\* A buffer, the kernel or its arguments fail, and parleDevice returns.  Its
\* caller verifies all the same: the results of the last input, or a null
\* pointer if there are none.
DeviceFails ==
    /\ phase = "host" /\ impl = "opencl"
    /\ phase' = IF totalRuns = Unset THEN "undefined" ELSE "failed"
    /\ UNCHANGED <<progVars, todo, buffers>>

\* 1 where a run begins.
MaskBit(id) == IF id = 0 \/ in[id] # in[id - 1] THEN 1 ELSE 0

MaskStep(w, id) ==
    /\ phase = "mask"
    /\ Takes(w, id)
    /\ mask' = [mask EXCEPT ![id] = MaskBit(id)]
    /\ UNCHANGED <<progVars, phase, scanned, compacted, totalRuns, out>>

\* fillPrefixSum.
PrefixSum(m) ==
    LET sum[k \in 0 .. n - 1] == IF k = 0 THEN m[0] ELSE sum[k - 1] + m[k] IN sum

Scan ==
    /\ phase = "mask" /\ Finished
    /\ scanned' = [c \in Cells |-> IF c < n THEN PrefixSum(mask)[c] ELSE scanned[c]]
    /\ Launch("compact", [w \in Items |-> Share(w)])
    /\ UNCHANGED <<progVars, mask, compacted, totalRuns, out>>

\* Mistake: the list is closed by the last position, not by the length.
CompactedClosedEarly(s, id) ==
    (IF id = n - 1 THEN {<<s[id], id>>} ELSE {}) \cup
    (IF id = 0 THEN {<<0, 0>>}
     ELSE IF s[id] # s[id - 1] THEN {<<s[id] - 1, id>>} ELSE {})

\* What compactKernel writes at position id: cell and value.
Compacted(s, id) ==
    (IF id = n - 1 THEN {<<s[id], id + 1>>} ELSE {}) \cup
    (IF id = 0 THEN {<<0, 0>>}
     ELSE IF s[id] # s[id - 1] THEN {<<s[id] - 1, id>>} ELSE {})

\* Cells of the buffer compacted; what is written behind it may be lost.
CompactCells == IF impl = "opencl" THEN n ELSE MaxN + 1

CompactStep(w, id) ==
    /\ phase = "compact"
    /\ Takes(w, id)
    /\ \E stored \in SUBSET Compacted(scanned, id) :
          /\ \A p \in Compacted(scanned, id) : p[1] < CompactCells => p \in stored
          /\ compacted' = [c \in Cells |->
                             IF \E p \in stored : p[1] = c
                             THEN (CHOOSE p \in stored : p[1] = c)[2]
                             ELSE compacted[c]]
    /\ totalRuns' = IF id = n - 1 THEN scanned[id] ELSE totalRuns
    /\ UNCHANGED <<progVars, phase, mask, scanned, out>>

StartScatter ==
    /\ phase = "compact" /\ Finished
    /\ Launch("scatter", [w \in Items |-> RunShare(w)])
    /\ UNCHANGED <<progVars, buffers>>

ScatterStep(w, id) ==
    /\ phase = "scatter"
    /\ Takes(w, id)
    /\ out' = [out EXCEPT ![id] = <<in[compacted[id]], compacted[id + 1] - compacted[id]>>]
    /\ UNCHANGED <<progVars, phase, mask, scanned, compacted, totalRuns>>

\* parleDevice reads the results back and releases the buffers (OpenCL).
ReadBack ==
    /\ phase = "scatter" /\ Finished /\ impl = "opencl"
    /\ phase' = "done"
    /\ UNCHANGED <<progVars, todo, buffers>>

\* parleHost copies the results, the buffers stay (CUDA).
CopyBack ==
    /\ phase = "scatter" /\ Finished /\ impl = "cuda"
    /\ phase' = "done"
    /\ UNCHANGED <<progVars, todo, buffers>>

\* profileGpu first runs parleDevice without a look at the results.
Profiled ==
    /\ phase = "scatter" /\ Finished /\ impl = "cuda"
    /\ round < Rounds
    /\ round' = round + 1
    /\ phase' = "host"
    /\ UNCHANGED <<impl, n, in, todo, buffers>>

-----------------------------------------------------------------------------
(* Verification.                                                           *)

Runs == [k \in 1 .. totalRuns |-> out[k - 1]]
Sum(counts) ==
    LET sum[k \in 0 .. Len(counts)] == IF k = 0 THEN 0 ELSE sum[k - 1] + counts[k]
    IN  sum[Len(counts)]
\* A negative count is decompressed to nothing.
Run(k) == IF Runs[k][2] > 0 THEN [j \in 1 .. Runs[k][2] |-> Runs[k][1]] ELSE <<>>
Restored == FlattenSeq([k \in 1 .. totalRuns |-> Run(k)])

\* Mistake: the sum of the counts is not compared with the length.
AcceptedIfSoFar ==
    \A k \in 1 .. n : k <= Len(Restored) => in[k - 1] = Restored[k]

\* verifyCompression.
Accepted ==
    /\ Sum([k \in DOMAIN Runs |-> Runs[k][2]]) = n
    /\ \A k \in 1 .. n : in[k - 1] = Restored[k]

\* unitTest exits if the verification fails.
Verify ==
    /\ phase \in {"done", "failed"}
    /\ impl \in {"cuda", "opencl"}
    /\ phase' = IF Accepted THEN "verified" ELSE "rejected"
    /\ UNCHANGED <<progVars, todo, buffers>>

-----------------------------------------------------------------------------
(* The serial encoders.                                                    *)

\* rleCpu of kernel.cu, one symbol further: the run so far is the last of rs.
AddSymbol(rs, x) ==
    IF rs # <<>> /\ rs[Len(rs)][1] = x
    THEN [rs EXCEPT ![Len(rs)] = <<x, @[2] + 1>>]
    ELSE Append(rs, <<x, 1>>)

SerialRuns ==
    LET runs[k \in 0 .. n] == IF k = 0 THEN <<>> ELSE AddSymbol(runs[k - 1], in[k - 1])
    IN  runs[n]

Serial ==
    /\ phase = "host" /\ impl = "serial"
    /\ out' = [c \in Cells |-> IF c < Len(SerialRuns) THEN SerialRuns[c + 1] ELSE out[c]]
    /\ totalRuns' = Len(SerialRuns)
    /\ phase' = "done"
    /\ UNCHANGED <<progVars, todo, mask, scanned, compacted>>

\* rleCpu of main.cpp.  Its compaction tests i == 0, then i == n - 1, then
\* whether a run begins, and takes the first that holds; its arrays are not
\* initialised, nor is totalRuns.
MaskCompacted(s, id) ==
    IF id = 0 THEN {<<0, 0>>}
    ELSE IF id = n - 1 THEN {<<s[id], id + 1>>}
    ELSE IF s[id] # s[id - 1] THEN {<<s[id] - 1, id>>} ELSE {}

MaskRuns ==
    /\ phase = "host" /\ impl = "mask"
    /\ LET s == PrefixSum([id \in 0 .. n - 1 |-> MaskBit(id)])
           writes == UNION {MaskCompacted(s, id) : id \in 0 .. n - 1}
           cell == [c \in Cells |-> IF \E p \in writes : p[1] = c
                                    THEN (CHOOSE p \in writes : p[1] = c)[2]
                                    ELSE Unset]
           symbol(k) == IF k \in 0 .. n - 1 THEN in[k] ELSE Unset
       IN  /\ out' = [c \in Cells |-> IF c < n
                                      THEN <<symbol(cell[c]), cell[c + 1] - cell[c]>>
                                      ELSE out[c]]
           /\ totalRuns' = IF n = 1 THEN Unset ELSE s[n - 1]
    /\ phase' = "done"
    /\ UNCHANGED <<progVars, todo, mask, scanned, compacted>>

-----------------------------------------------------------------------------
\* The next input.  The host still holds the results of the last one, the
\* CUDA program also all buffers.
NextInput ==
    /\ phase = IF impl \in {"cuda", "opencl"} THEN "verified" ELSE "done"
    /\ round < Rounds
    /\ round' = round + 1
    /\ Input(impl)
    /\ phase' = "host"
    /\ IF impl = "cuda" THEN UNCHANGED <<mask, scanned, compacted>>
       ELSE mask' = Fresh /\ scanned' = Fresh /\ compacted' = Fresh
    /\ UNCHANGED <<impl, todo, totalRuns, out>>

Next ==
    \/ StartMaskCuda \/ StartMaskOpencl \/ Scan \/ StartScatter
    \/ SetupFails \/ DeviceFails
    \/ ReadBack \/ CopyBack \/ Profiled \/ Verify
    \/ \E w \in Items, id \in Cells :
          MaskStep(w, id) \/ CompactStep(w, id) \/ ScatterStep(w, id)
    \/ Serial \/ MaskRuns
    \/ NextInput

Spec == Init /\ [][Next]_vars

-----------------------------------------------------------------------------
(* Properties.                                                             *)

\* Every variable stays in its range, and no work-item leaves the input.
TypeOK ==
    /\ round \in 1 .. Rounds
    /\ n \in Sizes(impl)
    /\ in \in [0 .. n - 1 -> Symbols]
    /\ phase \in {"host", "mask", "compact", "scatter", "done", "verified",
                  "rejected", "failed", "ended", "undefined"}
    /\ todo \in [Items -> SUBSET (0 .. n - 1)]
    /\ mask \in [Cells -> {Unset, 0, 1}]
    /\ scanned \in [Cells -> {Unset} \cup 1 .. MaxN]
    /\ compacted \in [Cells -> {Unset} \cup 0 .. MaxN]
    /\ totalRuns \in {Unset} \cup 1 .. MaxN
    /\ out \in [Cells -> (Symbols \cup {Unset}) \X Int]

\* The positions fit into the buffer made for them: n cells in OpenCL, where
\* an input without any repetition needs n + 1.
NumRuns == Len(SerialRuns)
Fits == NumRuns < CompactCells

\* In whatever order the work-items run, and whatever the last input has left
\* in the buffers, the encoding restores to the input and no two neighbouring
\* runs have the same symbol.
Lossless ==
    phase = "done" =>
        /\ totalRuns \in 1 .. n
        /\ Restored = [k \in 1 .. n |-> in[k - 1]]
        /\ \A k \in 1 .. totalRuns - 1 : Runs[k][1] # Runs[k + 1][1]

\* The serial encoder of main.cpp does not write where its last run begins
\* when that run is the last symbol alone.
LastRunMissed == impl = "mask" /\ (n = 1 \/ in[n - 1] # in[n - 2])

\* Lossless holds of all inputs but those two kinds.
LosslessIfFits == Fits /\ ~LastRunMissed => Lossless

\* What the verification accepts does decompress to the input and nothing
\* else, though counts may be negative (a position lost behind the buffer)
\* and, after a failure, symbols and counts are those of another input.
AcceptedIsLossless == phase = "verified" => Restored = [k \in 1 .. n |-> in[k - 1]]
=============================================================================
