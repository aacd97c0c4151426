-------------------------------- MODULE Bwt --------------------------------
(***************************************************************************)
(* The Burrows-Wheeler transform of a file and its reversal                *)
(* (src/Burrows-Wheeler), in four forms:                                   *)
(*                                                                         *)
(*   "serial"  bwxform.c                                                   *)
(*   "mtf"     bwxform.c with move-to-front coding of every block          *)
(*   "opencl"  bwtcl.c with transform.cl and reverse.cl                    *)
(*   "cuda"    cuda-bwt.cu, whose steps are in BwtCuda                     *)
(*                                                                         *)
(* The serial program takes one block through all its steps before it      *)
(* reads the next.  The OpenCL program reads all blocks, runs the radix    *)
(* sort as one work-item per block, finishes the sort of every block on    *)
(* the host, takes the last columns with work-items again, and writes.     *)
(* The work-items of a kernel run in any order, and a kernel has ended     *)
(* before the host goes on (clFinish).                                     *)
(*                                                                         *)
(* Positions in a block count from 0, as in the code.                      *)
(***************************************************************************)
EXTENDS Integers, Sequences, FiniteSets, Functions, SequencesExt

CONSTANTS BlockSize,  \* BLOCK_SIZE
          IntSize,    \* sizeof(int), the bytes of s0Idx in the file
          MaxSymbol,  \* UCHAR_MAX
          Inputs,     \* bound: the files to transform
          Variants

ASSUME BwtAssumption ==
    /\ {BlockSize, IntSize, MaxSymbol} \subseteq Nat \ {0}
    /\ Inputs \subseteq Seq(0 .. MaxSymbol)
    /\ Variants \subseteq {"serial", "mtf", "opencl", "cuda"}

VARIABLES
    variant, input,
    phase,        \* "transform", "reverse", "done", "failed", or "undefined"
    pos,          \* position in the file that is read
    work,         \* the blocks, in their order in the file
    file,         \* the transformed file
    out           \* the file written by the reversal

vars == <<variant, input, phase, pos, work, file, out>>

Symbols == 0 .. MaxSymbol

\* What is known of a block: FIFO and LAST, or r_FIFO.
Fresh == [stage |-> "read", block |-> <<>>, rotationIdx |-> <<>>,
          last |-> <<>>, s0Idx |-> 0]

-----------------------------------------------------------------------------
(* The sort.                                                               *)

\* The symbol at distance d from position p.
Sym(b, p, d) == b[((p + d) % Len(b)) + 1]

\* One pass of the radix sort, on the d-th symbol of the rotations: those
\* in order are dealt out from offsetTable[c] on for each symbol c.  The
\* counters of the whole block serve both passes.
Pass(b, order, d) ==
    LET Key(k) == Sym(b, order[k], d)
        before(c) == Cardinality({p \in DOMAIN b : b[p] < c})
        place(k) == before(Key(k)) + Cardinality({m \in 1 .. k : Key(m) = Key(k)})
    IN  [p \in DOMAIN b |-> order[CHOOSE k \in DOMAIN b : place(k) = p]]

RadixSorted(b) == Pass(b, Pass(b, [p \in DOMAIN b |-> p - 1], 1), 0)

\* Mistake: the third symbol is taken to match as well.
ComparePresortedFromFourth(b, r, s) ==
    \A d \in 3 .. Len(b) - 1 :
        (\A e \in 3 .. d - 1 : Sym(b, r, e) = Sym(b, s, e))
            => Sym(b, r, d) <= Sym(b, s, d)

\* ComparePresorted(r, s) <= 0, for rotations that agree in two symbols.
ComparePresorted(b, r, s) ==
    \A d \in 2 .. Len(b) - 1 :
        (\A e \in 2 .. d - 1 : Sym(b, r, e) = Sym(b, s, e))
            => Sym(b, r, d) <= Sym(b, s, d)

\* What qsort may make of the groups of rotations that agree in their first
\* two symbols: it leaves equal rotations in any order.
GroupSorts(b, order) ==
    {sorted \in [DOMAIN b -> 0 .. Len(b) - 1] :
        /\ IsInjective(sorted)
        /\ \A k \in DOMAIN b, d \in 0 .. 1 :
            Sym(b, sorted[k], d) = Sym(b, order[k], d)
        /\ \A k \in 1 .. Len(b) - 1 :
            (\A d \in 0 .. 1 : Sym(b, sorted[k], d) = Sym(b, sorted[k + 1], d))
                => ComparePresorted(b, sorted[k], sorted[k + 1])}

-----------------------------------------------------------------------------
(* Last columns, move-to-front and the way back.                           *)

LastColumn(b, order) == [k \in DOMAIN b |-> Sym(b, order[k], Len(b) - 1)]

\* Mistake: the row of the rotation that begins with the second symbol.
S0IndexNext(order) == (CHOOSE k \in DOMAIN order : order[k] = 1 % Len(order)) - 1

\* The row of the block itself.
S0Index(order) == (CHOOSE k \in DOMAIN order : order[k] = 0) - 1

AlphabeticList == [k \in 1 .. MaxSymbol + 1 |-> k - 1]

\* list with its j-th symbol (from 0) at the front.
ToFront(list, j) == <<list[j + 1]>> \o RemoveAt(list, j + 1)

\* Where c is in the list, from 0.
Found(list, c) == CHOOSE j \in Symbols : list[j + 1] = c

\* list[k] is the list when k symbols have been coded, or decoded.
DoMTF(last) ==
    LET list[k \in 0 .. Len(last)] ==
            IF k = 0 THEN AlphabeticList
            ELSE LET l == list[k - 1] IN ToFront(l, Found(l, last[k]))
    IN  [k \in 1 .. Len(last) |-> Found(list[k - 1], last[k])]

UndoMTF(encoded) ==
    LET list[k \in 0 .. Len(encoded)] ==
            IF k = 0 THEN AlphabeticList ELSE ToFront(list[k - 1], encoded[k])
    IN  [k \in 1 .. Len(encoded) |-> list[k - 1][encoded[k] + 1]]

\* The row of the rotation that begins with the last symbol of row i:
\* pred[i] + count[last[i]].
Pred(last, i) ==
    Cardinality({k \in 1 .. i : last[k] = last[i + 1]})
        + Cardinality({k \in DOMAIN last : last[k] < last[i + 1]})

\* The block from its end to its beginning, starting in row s0Idx.
Unrotated(last, s0Idx) ==
    LET n == Len(last)
        row[j \in 1 .. n] == IF j = n THEN s0Idx ELSE Pred(last, row[j + 1])
    IN  [j \in 1 .. n |-> last[row[j] + 1]]

-----------------------------------------------------------------------------
(* BWXform and BwtTransform.                                               *)

\* Mistake: one byte too many.
ReadInclusive(f, at, size) ==
    SubSeq(f, at + 1, IF at + size < Len(f) THEN at + size + 1 ELSE Len(f))

\* fread of up to size bytes of f.
Read(f, at, size) == SubSeq(f, at + 1, IF at + size < Len(f) THEN at + size ELSE Len(f))

\* ceil((double) total_size / bsize).
NoOfBlocks(f) == (Len(f) + BlockSize - 1) \div BlockSize

All(stages) == \A i \in DOMAIN work : work[i].stage \in stages

\* Block i may leave stage `from` on the host, which does one after another.
HostTurn(i, from) ==
    /\ work[i].stage = from
    /\ \A h \in 1 .. i - 1 : work[h].stage # from

\* Every block has come as far as `stages`: the step before has been done
\* for the whole file.  The serial program does not wait for that.
StepBegun(stages) == variant = "opencl" => All(stages)

AllRead == IF phase = "transform" THEN pos = Len(input)
           ELSE IF variant = "opencl" THEN Len(work) = NoOfBlocks(file)
           ELSE Len(file) - pos < IntSize

Init ==
    /\ variant \in Variants
    /\ input \in Inputs
    /\ phase = "transform"
    /\ pos = 0
    /\ work = <<>>
    /\ file = <<>>
    /\ out = <<>>

ReadBlock ==
    /\ phase = "transform" /\ variant # "cuda"
    /\ ~AllRead
    /\ variant # "opencl" => All({"written"})
    /\ LET b == Read(input, pos, BlockSize)
       IN  /\ work' = Append(work, [Fresh EXCEPT !.block = b])
           /\ pos' = pos + Len(b)
    /\ UNCHANGED <<variant, input, phase, file, out>>

\* BwTransform, work-item i; or the serial code.
RadixSort(i) ==
    /\ phase = "transform"
    /\ work[i].stage = "read"
    /\ variant = "opencl" => AllRead
    /\ work' = [work EXCEPT ![i].stage = "radix",
                            ![i].rotationIdx = RadixSorted(work[i].block)]
    /\ UNCHANGED <<variant, input, phase, pos, file, out>>

\* The groups are sorted on the host, when the kernel has ended.
GroupSort(i) ==
    /\ phase = "transform"
    /\ HostTurn(i, "radix")
    /\ StepBegun({"radix", "sorted"})
    /\ \E sorted \in GroupSorts(work[i].block, work[i].rotationIdx) :
        work' = [work EXCEPT ![i].stage = "sorted", ![i].rotationIdx = sorted]
    /\ UNCHANGED <<variant, input, phase, pos, file, out>>

\* BwLast, work-item i; or the serial code with DoMTF.
TakeLast(i) ==
    /\ phase = "transform" /\ variant # "cuda"
    /\ work[i].stage = "sorted"
    /\ StepBegun({"sorted", "last"})
    /\ LET last == LastColumn(work[i].block, work[i].rotationIdx)
       IN  work' = [work EXCEPT
                ![i].stage = "last",
                ![i].s0Idx = S0Index(work[i].rotationIdx),
                ![i].last = IF variant = "mtf" THEN DoMTF(last) ELSE last]
    /\ UNCHANGED <<variant, input, phase, pos, file, out>>

\* The first of the IntSize bytes stands for the number.
IntBytes(n) == [k \in 1 .. IntSize |-> IF k = 1 THEN n ELSE 0]

WriteFrame(i) ==
    /\ phase = "transform"
    /\ HostTurn(i, "last")
    /\ StepBegun({"last", "written"})
    /\ file' = file \o IntBytes(work[i].s0Idx) \o work[i].last
    /\ work' = [work EXCEPT ![i].stage = "written"]
    /\ UNCHANGED <<variant, input, phase, pos, out>>

\* The transformed file is given to a reversing program: the serial and the
\* OpenCL program read each other's files, if no move-to-front was asked for,
\* and those of the CUDA program, which has no reversal, if they are one block.
StartReverse ==
    /\ phase = "transform"
    /\ AllRead
    /\ All({"written"})
    /\ phase' = "reverse"
    /\ pos' = 0
    /\ work' = <<>>
    /\ variant' \in IF variant = "mtf" THEN {"mtf"} ELSE Variants \ {"mtf", "cuda"}
    /\ variant = "cuda" => work # <<>> /\ Len(input) <= BlockSize
    /\ UNCHANGED <<input, file, out>>

-----------------------------------------------------------------------------
(* BWReverseXform and BwtReverse.                                          *)

\* The OpenCL program counts blocks by the size of the whole file, indexes
\* included, and so may read past its end: then s0Idx is whatever the array
\* held, and the block is empty.
ReadFrame ==
    /\ phase = "reverse"
    /\ ~AllRead
    /\ variant # "opencl" => All({"written"})
    /\ LET header == Read(file, pos, IntSize)
           last == Read(file, pos + Len(header), BlockSize)
       IN  /\ \E s0Idx \in IF header = <<>> THEN 0 .. BlockSize ELSE {header[1]} :
                work' = Append(work, [Fresh EXCEPT !.stage = "framed",
                            !.s0Idx = s0Idx,
                            !.last = IF variant = "mtf" THEN UndoMTF(last) ELSE last])
           /\ pos' = pos + Len(header) + Len(last)
    /\ UNCHANGED <<variant, input, phase, file, out>>

\* BwtReverse, work-item i; or the serial code.
Unrotate(i) ==
    /\ phase = "reverse"
    /\ work[i].stage = "framed"
    /\ variant = "opencl" => AllRead
    /\ work' = [work EXCEPT ![i].stage = "unrotated",
                            ![i].block = Unrotated(work[i].last, work[i].s0Idx)]
    /\ UNCHANGED <<variant, input, phase, pos, file, out>>

WriteBlock(i) ==
    /\ phase = "reverse"
    /\ HostTurn(i, "unrotated")
    /\ StepBegun({"unrotated", "written"})
    /\ out' = out \o work[i].block
    /\ work' = [work EXCEPT ![i].stage = "written"]
    /\ UNCHANGED <<variant, input, phase, pos, file>>

Finish ==
    /\ phase = "reverse"
    /\ AllRead
    /\ All({"written"})
    /\ phase' = "done"
    /\ UNCHANGED <<variant, input, pos, work, file, out>>

-----------------------------------------------------------------------------
(* Failures.  Where the code notices one the program ends; where it does   *)
(* not, it goes on with arrays nobody has filled.                          *)

StopsIn(outcome) ==
    /\ phase' = outcome
    /\ UNCHANGED <<variant, input, pos, work, file, out>>

\* main leaves before it has called either function: it has printed its
\* options, or an option is given twice, or a file is missing or does not open.
DriverStops(variants) ==
    /\ phase \in {"transform", "reverse"} /\ variant \in variants
    /\ pos = 0 /\ work = <<>>
    /\ StopsIn("failed")

SerialDriverStops == DriverStops({"serial", "mtf"})
OpenclDriverStops == DriverStops({"opencl"})

\* bwxform.c allocates rotationIdx, v and last.  The check of v compares it
\* with rotationIdx, not with NULL: a block is then sorted through NULL.
AllocationFails ==
    /\ phase = "transform"
    /\ variant \in {"serial", "mtf"}
    /\ work = <<>>
    /\ \E array \in {"rotationIdx", "last"} \cup (IF input = <<>> THEN {} ELSE {"v"}) :
        StopsIn(IF array = "v" THEN "undefined" ELSE "failed")

\* DoMTF and UndoMTF allocate an array for every block, after others have
\* been written.
MTFFails ==
    /\ phase = "transform" /\ variant = "mtf"
    /\ \E i \in DOMAIN work : work[i].stage = "sorted"
    /\ StopsIn("failed")

ReverseAllocationFails ==
    /\ phase = "reverse"
    /\ variant \in {"serial", "mtf"}
    /\ work = <<>>
    /\ StopsIn("failed")

UndoMTFFails ==
    /\ phase = "reverse" /\ variant = "mtf"
    /\ ~AllRead /\ All({"written"})
    /\ StopsIn("failed")

\* bwtcl.c has read all of a file and starts a kernel on the blocks.
Starts(stage) ==
    /\ variant = "opencl"
    /\ AllRead
    /\ All({stage})
    /\ phase = IF stage = "framed" THEN "reverse" ELSE "transform"

\* CreateKernel exits if there is no file with the kernel, and returns NULL
\* if there is no device, no context or no program.  BwtTransform does not
\* look at what it returns for BwLast: nobody fills the array last.
NoKernel ==
    \E stage \in {"read", "sorted", "framed"} :
        /\ Starts(stage)
        /\ \/ StopsIn("failed")
           \/ stage = "sorted" /\ work # <<>> /\ StopsIn("undefined")

\* A call of OpenCL fails in one of the three functions that run a kernel:
\* they print and return, and the host writes what has not been computed.
CallFails(stage) ==
    /\ Starts(stage)
    /\ work # <<>>
    /\ StopsIn("undefined")

TransformCallFails == CallFails("read")
LastCallFails == CallFails("sorted")
ReverseCallFails == CallFails("framed")

-----------------------------------------------------------------------------
Next ==
    \/ ReadBlock \/ StartReverse \/ ReadFrame \/ Finish
    \/ SerialDriverStops \/ OpenclDriverStops
    \/ AllocationFails \/ MTFFails \/ ReverseAllocationFails \/ UndoMTFFails
    \/ NoKernel \/ TransformCallFails \/ LastCallFails \/ ReverseCallFails
    \/ \E i \in DOMAIN work :
        \/ RadixSort(i) \/ GroupSort(i) \/ TakeLast(i) \/ WriteFrame(i)
        \/ Unrotate(i) \/ WriteBlock(i)

Spec == Init /\ [][Next]_vars

-----------------------------------------------------------------------------
(* Properties.                                                             *)

Stages == {"read", "radix", "sorted", "last", "written", "framed", "unrotated"}
Blocks == UNION {[1 .. n -> Symbols] : n \in 0 .. BlockSize}

\* Blocks hold at most BlockSize symbols, and the rows of a block's matrix
\* are numbered by its positions: the arrays of FIFO, LAST and r_FIFO are
\* large enough.
TypeOK ==
    /\ variant \in Variants
    /\ phase \in {"transform", "reverse", "done", "failed", "undefined"}
    /\ pos \in 0 .. Len(input) + Len(file)
    /\ \A i \in DOMAIN work :
        /\ work[i].stage \in Stages
        /\ work[i].block \in Blocks \/ variant = "cuda"
        /\ work[i].last \in Blocks
        /\ work[i].s0Idx \in 0 .. BlockSize
        /\ \A k \in DOMAIN work[i].rotationIdx :
            work[i].rotationIdx[k] \in 0 .. Len(work[i].block) - 1

\* r <= s in the order of the whole rotations.
RotationLeq(b, r, s) ==
    \A d \in 0 .. Len(b) - 1 :
        (\A e \in 0 .. d - 1 : Sym(b, r, e) = Sym(b, s, e))
            => Sym(b, r, d) <= Sym(b, s, d)

\* From the radix sort by two symbols and the qsort of each group from the
\* third symbol on comes the order of the whole rotations (bwxform.c 219-302).
RotationsSorted ==
    phase = "transform" =>
        \A i \in DOMAIN work :
            work[i].stage \in {"sorted", "last", "written"} =>
                /\ IsInjective(work[i].rotationIdx)
                /\ \A k \in 1 .. Len(work[i].block) - 1 :
                    RotationLeq(work[i].block, work[i].rotationIdx[k],
                                work[i].rotationIdx[k + 1])

\* The reversal gives back the input, whatever order qsort left equal
\* rotations of a periodic block in (any of their rows may be s0Idx), whatever
\* order the work-items ran in, whichever program reverses the file, and
\* though the OpenCL program counts the indexes as part of the blocks.  A
\* reversal that stops has written the beginning of the input.
Lossless ==
    /\ phase = "done" => out = input
    /\ phase \in {"reverse", "failed"} => IsPrefix(out, input)
=============================================================================
