------------------------------ MODULE RleProofs ------------------------------
(***************************************************************************)
(* Proofs about Rle, for every input, every number of work-items and every *)
(* order in which they run: the types, that the encoding restores to the   *)
(* input, and that the verification accepts only what does.                *)
(***************************************************************************)
EXTENDS Rle, SequenceTheorems, WellFoundedInduction, TLAPS

-----------------------------------------------------------------------------
(* The encoding an input has.                                              *)

\* The runs that begin at or before each position.
RunsTo == PrefixSum([id \in 0 .. n - 1 |-> MaskBit(id)])
R == RunsTo[n - 1]

\* Where run c begins; the last is followed by the end of the input.
Start(c) == IF c = R THEN n
            ELSE CHOOSE id \in 0 .. n - 1 : MaskBit(id) = 1 /\ RunsTo[id] = c + 1

\* The symbols and counts, the last run taken to end at last.
EncodedTo(last) ==
    /\ totalRuns = R
    /\ \A c \in 0 .. R - 1 :
          out[c] = <<in[Start(c)], (IF c = R - 1 THEN last ELSE Start(c + 1)) - Start(c)>>

-----------------------------------------------------------------------------
(* The inductive invariant.                                                *)

Kernels == {"mask", "compact", "scatter"}
Pending(id) == \E w \in Items : id \in todo[w]

\* Work is left only in a kernel.
IdleOutside == phase \notin Kernels => Finished

\* What a kernel has done is right, whatever the buffer held before.
MaskRight == phase = "mask" =>
    \A id \in 0 .. n - 1 : Pending(id) \/ mask[id] = MaskBit(id)

ScanRight == phase = "compact" => \A id \in 0 .. n - 1 : scanned[id] = RunsTo[id]

Stored(id) ==
    /\ id = n - 1 => totalRuns = R
    /\ \A p \in Compacted(RunsTo, id) : p[1] < CompactCells => compacted[p[1]] = p[2]

CompactRight == phase = "compact" => \A id \in 0 .. n - 1 : Pending(id) \/ Stored(id)

\* The cell behind the buffer of the OpenCL program holds nothing, or what was
\* written to it.
LostCell == phase \in Kernels /\ impl = "opencl" => compacted[n] \in {Unset, n}

ScatterRight == phase = "scatter" =>
    /\ totalRuns = R
    /\ \A w \in Items : todo[w] \subseteq 0 .. R - 1
    /\ \A c \in 0 .. R : c < CompactCells => compacted[c] = Start(c)
    /\ \A c \in 0 .. R - 1 :
          Pending(c) \/ out[c] = <<in[compacted[c]], compacted[c + 1] - compacted[c]>>

DoneRight == phase = "done" =>
    \/ EncodedTo(n)
    \/ impl = "opencl" /\ R = n /\ EncodedTo(Unset)
    \/ LastRunMissed

\* The counts the OpenCL program's host keeps are those of an accepted input.
CountsKept ==
    /\ phase \in {"host", "verified", "failed"} /\ impl = "opencl" =>
          \A c \in 0 .. totalRuns - 1 : out[c][2] > 0
    /\ phase = "failed" => impl = "opencl" /\ totalRuns # Unset

IInv ==
    /\ TypeOK
    /\ IdleOutside /\ MaskRight /\ ScanRight /\ CompactRight
    /\ LostCell /\ ScatterRight /\ DoneRight /\ CountsKept
    /\ AcceptedIsLossless

-----------------------------------------------------------------------------
(* Induction and recursion over positions.                                 *)

LEMMA LeastExists ==
    ASSUME NEW S \in SUBSET Nat, S # {}
    PROVE  \E x \in S : \A y \in S : x <= y
<1> DEFINE L == {p \in Nat \X Nat : p[1] < p[2]}
<1>1. IsWellFoundedOn(L, Nat)
  BY NatLessThanWellFounded DEF OpToRel
<1> HIDE DEF L
<1>2. PICK x \in S : \A y \in S : ~ (<<y, x>> \in L)
  BY <1>1, WFMin
<1>3. \A y \in S : x <= y
  <2> SUFFICES ASSUME NEW y \in S PROVE x <= y
    OBVIOUS
  <2>1. x \in Nat /\ y \in Nat
    OBVIOUS
  <2>2. ASSUME y < x PROVE FALSE
    <3>1. <<y, x>> \in L
      BY <2>1, <2>2 DEF L
    <3> QED
      BY <3>1, <1>2
  <2> QED
    BY <2>1, <2>2
<1> QED
  BY <1>3

\* There is a sequence of elements of T that begins with a and goes on by g.
Recursion(T, a, N, g) ==
    \E f \in [0 .. N -> T] : f[0] = a /\ \A k \in 1 .. N : f[k] = g[<<k, f[k - 1]>>]

LEMMA RecursionExists ==
    ASSUME NEW T, NEW a, NEW N, NEW g,
           a \in T, N \in Nat, g \in [(1 .. N) \X T -> T]
    PROVE  Recursion(T, a, N, g)
<1> DEFINE Upto(f, k) == f[0] = a /\ \A j \in 1 .. k : f[j] = g[<<j, f[j - 1]>>]
           Bad == {k \in 0 .. N : \A f \in [0 .. k -> T] : ~ Upto(f, k)}
<1>1. Bad = {}
  <2> SUFFICES ASSUME Bad # {} PROVE FALSE
    OBVIOUS
  <2>1. PICK k \in Bad : \A j \in Bad : k <= j
    <3>1. Bad \in SUBSET Nat
      OBVIOUS
    <3> QED
      BY <3>1, LeastExists
  <2>2. k # 0
    <3>1. [j \in 0 .. 0 |-> a] \in [0 .. 0 -> T] /\ Upto([j \in 0 .. 0 |-> a], 0)
      OBVIOUS
    <3> QED
      BY <3>1
  <2>3. k - 1 \in 0 .. N /\ k - 1 \notin Bad
    <3>1. k \in 0 .. N
      OBVIOUS
    <3> HIDE DEF Bad
    <3>2. k - 1 \in 0 .. N /\ ~ (k <= k - 1)
      BY <3>1, <2>2
    <3> QED
      BY <3>2, <2>1
  <2>4. PICK f \in [0 .. k - 1 -> T] : Upto(f, k - 1)
    BY <2>3
  <2> DEFINE h == [j \in 0 .. k |-> IF j = k THEN g[<<k, f[k - 1]>>] ELSE f[j]]
  <2>5. k \in 1 .. N
    BY <2>1, <2>2
  <2>6. h \in [0 .. k -> T]
    <3>1. <<k, f[k - 1]>> \in (1 .. N) \X T
      BY <2>5, <2>4
    <3>2. g[<<k, f[k - 1]>>] \in T
      BY <3>1
    <3> QED
      BY <3>2, <2>5
  <2>7. Upto(h, k)
    <3>1. h[0] = a
      BY <2>4, <2>5
    <3>2. ASSUME NEW j \in 1 .. k PROVE h[j] = g[<<j, h[j - 1]>>]
      <4>1. h[j - 1] = f[j - 1]
        BY <2>5
      <4>2. CASE j = k
        BY <4>1, <4>2, <2>5
      <4>3. CASE j # k
        <5>1. j \in 1 .. k - 1
          BY <4>3, <2>5
        <5>2. h[j] = f[j]
          BY <4>3, <2>5
        <5> QED
          BY <5>1, <5>2, <4>1, <2>4
      <4> QED
        BY <4>2, <4>3
    <3> QED
      BY <3>1, <3>2
  <2> QED
    BY <2>6, <2>7, <2>1
<1>2. N \notin Bad
  BY <1>1
<1> QED
  BY <1>2 DEF Recursion

\* What PrefixSum returns, of cells that hold 0 or 1.
LEMMA PrefixSumIs ==
    ASSUME NEW m, n \in Nat \ {0}, \A k \in 0 .. n - 1 : m[k] \in {0, 1}
    PROVE  /\ PrefixSum(m) \in [0 .. n - 1 -> Nat]
           /\ PrefixSum(m)[0] = m[0]
           /\ \A k \in 1 .. n - 1 : PrefixSum(m)[k] = PrefixSum(m)[k - 1] + m[k]
<1> DEFINE Def(s) == s = [k \in 0 .. n - 1 |-> IF k = 0 THEN m[0] ELSE s[k - 1] + m[k]]
           g == [p \in (1 .. n - 1) \X Nat |-> p[2] + m[p[1]]]
<1>1. n - 1 \in Nat /\ m[0] \in Nat
  OBVIOUS
<1>2. g \in [(1 .. n - 1) \X Nat -> Nat]
  <2> SUFFICES ASSUME NEW p \in (1 .. n - 1) \X Nat PROVE p[2] + m[p[1]] \in Nat
    OBVIOUS
  <2>1. p[1] \in 0 .. n - 1 /\ p[2] \in Nat
    OBVIOUS
  <2>2. m[p[1]] \in {0, 1}
    BY <2>1
  <2> QED
    BY <2>1, <2>2
<1>3. PICK f \in [0 .. n - 1 -> Nat] :
         f[0] = m[0] /\ \A k \in 1 .. n - 1 : f[k] = g[<<k, f[k - 1]>>]
  <2> HIDE DEF g
  <2>1. Recursion(Nat, m[0], n - 1, g)
    BY <1>1, <1>2, RecursionExists, Zenon
  <2> QED
    BY <2>1 DEF Recursion
<1>4. ASSUME NEW k \in 1 .. n - 1 PROVE f[k] = f[k - 1] + m[k]
  <2>1. f[k - 1] \in Nat
    OBVIOUS
  <2>2. g[<<k, f[k - 1]>>] = f[k - 1] + m[k]
    BY <2>1
  <2> QED
    BY <2>2, <1>3
<1>5. Def(f)
  BY <1>3, <1>4
<1> DEFINE s == PrefixSum(m)
<1>6. Def(s)
  <2>1. Def(CHOOSE x : Def(x))
    <3> HIDE DEF Def
    <3> QED
      BY <1>5
  <2> QED
    BY <2>1 DEF PrefixSum
<1> HIDE DEF s
<1>7. s[0] = m[0] /\ \A k \in 1 .. n - 1 : s[k] = s[k - 1] + m[k]
  BY <1>6
<1> DEFINE Bad == {k \in 0 .. n - 1 : ~ (s[k] \in Nat)}
<1>8. Bad = {}
  <2> SUFFICES ASSUME Bad # {} PROVE FALSE
    OBVIOUS
  <2>1. PICK k \in Bad : \A j \in Bad : k <= j
    <3>1. Bad \in SUBSET Nat
      OBVIOUS
    <3> QED
      BY <3>1, LeastExists
  <2>2. k # 0
    BY <1>7, <1>1
  <2>3. k - 1 \in 0 .. n - 1 /\ s[k - 1] \in Nat
    BY <2>1, <2>2
  <2> QED
    <3>1. s[k] = s[k - 1] + m[k]
      BY <2>1, <2>2, <1>7
    <3>2. m[k] \in Nat
      BY <2>1
    <3>3. s[k - 1] + m[k] \in Nat
      <4> DEFINE x == s[k - 1]
                 y == m[k]
      <4>1. x \in Nat /\ y \in Nat
        BY <2>3, <3>2
      <4> HIDE DEF x, y
      <4>2. x + y \in Nat
        BY <4>1
      <4> QED
        BY <4>2 DEF x, y
    <3> QED
      BY <2>1, <3>1, <3>3
<1>9. s \in [0 .. n - 1 -> Nat]
  BY <1>6, <1>8
<1> QED
  BY <1>7, <1>9 DEF s

-----------------------------------------------------------------------------
(* Where the runs of an input begin.                                       *)

InputOK == n \in 1 .. MaxN /\ in \in [0 .. n - 1 -> Symbols]

LEMMA TypeInput == TypeOK => InputOK /\ MaxN \in Nat
BY RleAssumption DEF TypeOK, InputOK, Sizes

LEMMA RunsToIs ==
    ASSUME InputOK, MaxN \in Nat
    PROVE  /\ RunsTo \in [0 .. n - 1 -> Nat]
           /\ RunsTo[0] = 1
           /\ \A k \in 0 .. n - 1 : MaskBit(k) \in {0, 1}
           /\ \A k \in 1 .. n - 1 : RunsTo[k] = RunsTo[k - 1] + MaskBit(k)
<1> DEFINE m == [id \in 0 .. n - 1 |-> MaskBit(id)]
<1>1. n \in Nat \ {0}
  BY DEF InputOK
<1>2. \A k \in 0 .. n - 1 : MaskBit(k) \in {0, 1}
  BY Zenon DEF MaskBit
<1>3. \A k \in 0 .. n - 1 : m[k] = MaskBit(k)
  OBVIOUS
<1>4. \A k \in 0 .. n - 1 : m[k] \in {0, 1}
  BY <1>2, <1>3
<1>5. RunsTo = PrefixSum(m)
  BY DEF RunsTo
<1>6. MaskBit(0) = 1
  BY DEF MaskBit
<1> HIDE DEF m
<1>7. /\ PrefixSum(m) \in [0 .. n - 1 -> Nat]
      /\ PrefixSum(m)[0] = m[0]
      /\ \A k \in 1 .. n - 1 : PrefixSum(m)[k] = PrefixSum(m)[k - 1] + m[k]
  BY <1>1, <1>4, PrefixSumIs
<1>8. RunsTo[0] = 1
  BY <1>1, <1>3, <1>5, <1>6, <1>7
<1>9. ASSUME NEW k \in 1 .. n - 1 PROVE RunsTo[k] = RunsTo[k - 1] + MaskBit(k)
  <2>1. RunsTo[k] = RunsTo[k - 1] + m[k]
    BY <1>5, <1>7
  <2>2. m[k] = MaskBit(k)
    BY <1>1, <1>3
  <2> QED
    BY <2>1, <2>2
<1> QED
  BY <1>2, <1>5, <1>7, <1>8, <1>9

\* The sum of the mask, however the buffer was filled with it.
LEMMA SumOfMask ==
    ASSUME InputOK, MaxN \in Nat, NEW m, \A k \in 0 .. n - 1 : m[k] = MaskBit(k)
    PROVE  \A k \in 0 .. n - 1 : PrefixSum(m)[k] = RunsTo[k]
<1> DEFINE s == PrefixSum(m)
           Bad == {k \in 0 .. n - 1 : s[k] # RunsTo[k]}
<1>1. n \in Nat \ {0}
  BY DEF InputOK
<1>2. /\ RunsTo \in [0 .. n - 1 -> Nat]
      /\ RunsTo[0] = 1
      /\ \A k \in 0 .. n - 1 : MaskBit(k) \in {0, 1}
      /\ \A k \in 1 .. n - 1 : RunsTo[k] = RunsTo[k - 1] + MaskBit(k)
  BY RunsToIs
<1>3. \A k \in 0 .. n - 1 : m[k] \in {0, 1}
  BY <1>2
<1>4. /\ s \in [0 .. n - 1 -> Nat]
      /\ s[0] = m[0]
      /\ \A k \in 1 .. n - 1 : s[k] = s[k - 1] + m[k]
  BY <1>1, <1>3, PrefixSumIs
<1>5. MaskBit(0) = 1
  BY DEF MaskBit
<1> HIDE DEF s
<1>6. Bad = {}
  <2> SUFFICES ASSUME Bad # {} PROVE FALSE
    OBVIOUS
  <2>1. PICK k \in Bad : \A j \in Bad : k <= j
    <3>1. Bad \in SUBSET Nat
      BY <1>1
    <3> QED
      BY <3>1, LeastExists
  <2>2. k # 0
    BY <1>1, <1>2, <1>4, <1>5
  <2>3. k - 1 \in 0 .. n - 1 /\ s[k - 1] = RunsTo[k - 1]
    BY <2>1, <2>2, <1>1
  <2> QED
    <3>1. k \in 1 .. n - 1 /\ m[k] = MaskBit(k)
      BY <2>1, <2>2, <1>1
    <3>2. s[k] = s[k - 1] + m[k] /\ RunsTo[k] = RunsTo[k - 1] + MaskBit(k)
      BY <3>1, <1>2, <1>4
    <3> QED
      BY <2>1, <2>3, <3>1, <3>2
<1> QED
  BY <1>6 DEF s

\* Each position adds at most one run.
LEMMA RunsToBounds ==
    ASSUME InputOK, MaxN \in Nat
    PROVE  \A k \in 0 .. n - 1 : 1 <= RunsTo[k] /\ RunsTo[k] <= k + 1
<1> DEFINE Bad == {k \in 0 .. n - 1 : ~ (1 <= RunsTo[k] /\ RunsTo[k] <= k + 1)}
<1>1. n \in Nat \ {0}
  BY DEF InputOK
<1>2. Bad = {}
  <2> SUFFICES ASSUME Bad # {} PROVE FALSE
    OBVIOUS
  <2>1. PICK k \in Bad : \A j \in Bad : k <= j
    <3>1. Bad \in SUBSET Nat
      BY <1>1
    <3> QED
      BY <3>1, LeastExists
  <2>2. k \in 0 .. n - 1 /\ k # 0
    BY <1>1, RunsToIs
  <2>3. k - 1 \in 0 .. n - 1 /\ 1 <= RunsTo[k - 1] /\ RunsTo[k - 1] <= k
    <3>1. k - 1 \in 0 .. n - 1 /\ ~ (k <= k - 1) /\ (k - 1) + 1 = k
      BY <2>2, <1>1
    <3>2. k - 1 \notin Bad
      <4> HIDE DEF Bad
      <4> QED
        BY <3>1, <2>1
    <3> QED
      BY <3>1, <3>2
  <2>4. k \in 1 .. n - 1
    BY <2>2, <1>1
  <2>5. RunsTo[k] = RunsTo[k - 1] + MaskBit(k) /\ MaskBit(k) \in {0, 1} /\ RunsTo[k - 1] \in Nat
    BY <2>2, <2>3, <2>4, RunsToIs
  <2>6. 1 <= RunsTo[k] /\ RunsTo[k] <= k + 1
    BY <2>2, <2>3, <2>5, <1>1
  <2> QED
    BY <2>6
<1> QED
  BY <1>2

LEMMA RIs ==
    ASSUME InputOK, MaxN \in Nat
    PROVE  n - 1 \in 0 .. n - 1 /\ R \in 1 .. n
<1>1. n \in Nat \ {0}
  BY DEF InputOK
<1>2. n - 1 \in 0 .. n - 1
  BY <1>1
<1>3. RunsTo[n - 1] \in Nat /\ 1 <= RunsTo[n - 1] /\ RunsTo[n - 1] <= (n - 1) + 1
  BY <1>2, RunsToIs, RunsToBounds
<1> QED
  BY <1>1, <1>2, <1>3 DEF R

LEMMA RunsToMonotone ==
    ASSUME InputOK, MaxN \in Nat, NEW i \in 0 .. n - 1
    PROVE  \A j \in i .. n - 1 : RunsTo[i] <= RunsTo[j]
<1> DEFINE Bad == {j \in i .. n - 1 : ~ (RunsTo[i] <= RunsTo[j])}
<1>1. n \in Nat \ {0} /\ i \in Nat
  BY DEF InputOK
<1>2. Bad = {}
  <2> SUFFICES ASSUME Bad # {} PROVE FALSE
    OBVIOUS
  <2>1. PICK k \in Bad : \A j \in Bad : k <= j
    <3>1. Bad \in SUBSET Nat
      BY <1>1
    <3> QED
      BY <3>1, LeastExists
  <2>2. k \in i .. n - 1 /\ k # i
    BY <1>1, RunsToIs
  <2>3. k - 1 \in i .. n - 1 /\ RunsTo[i] <= RunsTo[k - 1]
    <3>1. k - 1 \in i .. n - 1 /\ ~ (k <= k - 1)
      BY <2>2, <1>1
    <3>2. k - 1 \notin Bad
      <4> HIDE DEF Bad
      <4> QED
        BY <3>1, <2>1
    <3> QED
      BY <3>1, <3>2
  <2>4. k \in 1 .. n - 1 /\ k - 1 \in 0 .. n - 1
    BY <2>2, <1>1
  <2>5. /\ RunsTo[k] = RunsTo[k - 1] + MaskBit(k) /\ MaskBit(k) \in {0, 1}
        /\ RunsTo[k - 1] \in Nat /\ RunsTo[i] \in Nat
    BY <2>2, <2>3, <2>4, RunsToIs
  <2>6. RunsTo[i] <= RunsTo[k]
    BY <2>3, <2>5
  <2> QED
    BY <2>6
<1> QED
  BY <1>2

\* A position at which a run begins has one run more than all before.
LEMMA RunsToIncreases ==
    ASSUME InputOK, MaxN \in Nat, NEW j \in 0 .. n - 1, MaskBit(j) = 1,
           NEW i \in 0 .. n - 1, i < j
    PROVE  RunsTo[i] < RunsTo[j]
<1>1. n \in Nat \ {0}
  BY DEF InputOK
<1>2. j \in 1 .. n - 1 /\ j - 1 \in i .. n - 1 /\ j - 1 \in 0 .. n - 1
  BY <1>1
<1>3. RunsTo[j] = RunsTo[j - 1] + 1
  BY <1>2, RunsToIs
<1>4. RunsTo[i] <= RunsTo[j - 1]
  BY <1>2, RunsToMonotone
<1>5. RunsTo[i] \in Nat /\ RunsTo[j - 1] \in Nat
  BY <1>2, RunsToIs
<1> QED
  BY <1>3, <1>4, <1>5

LEMMA StartIs ==
    ASSUME InputOK, MaxN \in Nat, NEW c \in 0 .. R - 1
    PROVE  /\ Start(c) \in 0 .. n - 1
           /\ MaskBit(Start(c)) = 1
           /\ RunsTo[Start(c)] = c + 1
<1> DEFINE Late == {k \in 0 .. n - 1 : c + 1 <= RunsTo[k]}
<1>1. n \in Nat \ {0} /\ R \in 1 .. n /\ n - 1 \in 0 .. n - 1 /\ c \in Nat
  BY RIs DEF InputOK
<1>2. PICK k \in Late : \A j \in Late : k <= j
  <2>1. Late \in SUBSET Nat
    BY <1>1
  <2>2. n - 1 \in Late
    <3>1. c + 1 <= R
      BY <1>1
    <3> QED
      BY <3>1, <1>1 DEF R
  <2> QED
    BY <2>1, <2>2, LeastExists
<1>3. k \in 0 .. n - 1 /\ c + 1 <= RunsTo[k] /\ RunsTo[k] \in Nat
  BY RunsToIs
<1>4. MaskBit(k) = 1 /\ RunsTo[k] = c + 1
  <2>1. CASE k = 0
    BY <2>1, <1>1, <1>3, RunsToIs DEF MaskBit
  <2>2. CASE k # 0
    <3>1. k \in 1 .. n - 1 /\ k - 1 \in 0 .. n - 1 /\ ~ (k <= k - 1)
      BY <2>2, <1>1, <1>3
    <3>2. k - 1 \notin Late
      <4> HIDE DEF Late
      <4> QED
        BY <3>1, <1>2
    <3>3. ~ (c + 1 <= RunsTo[k - 1])
      BY <3>1, <3>2
    <3>4. RunsTo[k] = RunsTo[k - 1] + MaskBit(k) /\ MaskBit(k) \in {0, 1} /\ RunsTo[k - 1] \in Nat
      BY <3>1, RunsToIs
    <3> QED
      BY <3>3, <3>4, <1>1, <1>3
  <2> QED
    BY <2>1, <2>2
<1>5. c # R
  BY <1>1
<1>6. Start(c) = CHOOSE id \in 0 .. n - 1 : MaskBit(id) = 1 /\ RunsTo[id] = c + 1
  BY <1>5 DEF Start
<1> QED
  BY <1>3, <1>4, <1>6

LEMMA StartOfEnd == Start(R) = n
BY DEF Start

LEMMA StartUnique ==
    ASSUME InputOK, MaxN \in Nat, NEW id \in 0 .. n - 1, MaskBit(id) = 1
    PROVE  RunsTo[id] - 1 \in 0 .. R - 1 /\ Start(RunsTo[id] - 1) = id
<1>1. n \in Nat \ {0} /\ R \in 1 .. n /\ n - 1 \in id .. n - 1
  BY RIs DEF InputOK
<1>2. RunsTo[id] \in Nat /\ 1 <= RunsTo[id]
  BY RunsToIs, RunsToBounds
<1>3. RunsTo[id] <= R
  BY <1>1, RunsToMonotone DEF R
<1> DEFINE c == RunsTo[id] - 1
           s == Start(c)
<1>4. c \in 0 .. R - 1 /\ c + 1 = RunsTo[id]
  BY <1>1, <1>2, <1>3
<1>5. s \in 0 .. n - 1 /\ MaskBit(s) = 1 /\ RunsTo[s] = RunsTo[id]
  <2> HIDE DEF c
  <2> QED
    BY <1>4, StartIs
<1> HIDE DEF s
<1>6. ~ (s < id)
  BY <1>2, <1>5, RunsToIncreases
<1>7. ~ (id < s)
  BY <1>2, <1>5, RunsToIncreases
<1>8. s = id
  BY <1>1, <1>5, <1>6, <1>7
<1> QED
  BY <1>4, <1>8 DEF s

LEMMA StartOfFirst ==
    ASSUME InputOK, MaxN \in Nat
    PROVE  Start(0) = 0
<1>1. 0 \in 0 .. n - 1 /\ MaskBit(0) = 1
  BY DEF InputOK, MaskBit
<1>2. RunsTo[0] - 1 = 0
  BY RunsToIs
<1> QED
  BY <1>1, <1>2, StartUnique

LEMMA StartIncreases ==
    ASSUME InputOK, MaxN \in Nat, NEW c \in 0 .. R - 1
    PROVE  Start(c + 1) \in 1 .. n /\ Start(c) < Start(c + 1)
<1>1. n \in Nat \ {0} /\ R \in 1 .. n /\ c \in Nat
  BY RIs DEF InputOK
<1>2. Start(c) \in 0 .. n - 1 /\ MaskBit(Start(c)) = 1 /\ RunsTo[Start(c)] = c + 1
  BY StartIs
<1>3. CASE c + 1 = R
  BY <1>1, <1>2, <1>3, StartOfEnd
<1>4. CASE c + 1 # R
  <2>1. c + 1 \in 0 .. R - 1
    BY <1>1, <1>4
  <2>2. /\ Start(c + 1) \in 0 .. n - 1 /\ MaskBit(Start(c + 1)) = 1
        /\ RunsTo[Start(c + 1)] = (c + 1) + 1
    BY <2>1, StartIs
  <2>3. ~ (Start(c + 1) < Start(c))
    <3> SUFFICES ASSUME Start(c + 1) < Start(c) PROVE FALSE
      OBVIOUS
    <3>1. RunsTo[Start(c + 1)] < RunsTo[Start(c)]
      BY <1>2, <2>2, RunsToIncreases
    <3> QED
      BY <3>1, <1>1, <1>2, <2>2
  <2>4. Start(c) # Start(c + 1)
    BY <1>1, <1>2, <2>2
  <2> QED
    BY <1>1, <1>2, <2>2, <2>3, <2>4
<1> QED
  BY <1>3, <1>4


\* All symbols of a run are the same.
LEMMA SameSymbol ==
    ASSUME InputOK, MaxN \in Nat, NEW c \in 0 .. R - 1
    PROVE  \A k \in Start(c) .. Start(c + 1) - 1 : k \in 0 .. n - 1 /\ in[k] = in[Start(c)]
<1> DEFINE s == Start(c)
           e == Start(c + 1)
           Bad == {k \in s .. e - 1 : in[k] # in[s]}
<1>1. n \in Nat \ {0} /\ R \in 1 .. n /\ c \in Nat
  BY RIs DEF InputOK
<1>2. s \in 0 .. n - 1 /\ RunsTo[s] = c + 1 /\ e \in 1 .. n
  BY StartIs, StartIncreases
<1>3. ASSUME NEW k \in s .. e - 1, k # s PROVE MaskBit(k) # 1
  <2> SUFFICES ASSUME MaskBit(k) = 1 PROVE FALSE
    OBVIOUS
  <2>1. k \in 0 .. n - 1 /\ s < k /\ k < e
    BY <1>1, <1>2, <1>3
  <2>2. c + 1 < RunsTo[k]
    BY <1>2, <2>1, RunsToIncreases
  <2>3. RunsTo[k] \in Nat /\ RunsTo[k] - 1 \in 0 .. R - 1
    BY <2>1, RunsToIs, StartUnique
  <2>4. c + 1 # R
    BY <1>1, <2>2, <2>3
  <2>5. c + 1 \in 0 .. R - 1
    BY <1>1, <2>4
  <2>6. e \in 0 .. n - 1 /\ MaskBit(e) = 1 /\ RunsTo[e] = (c + 1) + 1
    BY <2>5, StartIs
  <2>7. RunsTo[k] < RunsTo[e]
    BY <2>1, <2>6, RunsToIncreases
  <2> QED
    BY <1>1, <2>2, <2>3, <2>6, <2>7
<1>4. Bad = {}
  <2> SUFFICES ASSUME Bad # {} PROVE FALSE
    OBVIOUS
  <2> HIDE DEF s, e
  <2>1. PICK k \in Bad : \A j \in Bad : k <= j
    <3>1. Bad \in SUBSET Nat
      BY <1>1, <1>2
    <3> QED
      BY <3>1, LeastExists
  <2>2. k \in s .. e - 1 /\ in[k] # in[s] /\ k # s
    OBVIOUS
  <2>3. k - 1 \in s .. e - 1 /\ ~ (k <= k - 1) /\ k \in 1 .. n - 1
    BY <2>2, <1>1, <1>2
  <2>4. k - 1 \notin Bad
    <3> HIDE DEF Bad
    <3> QED
      BY <2>1, <2>3
  <2>5. in[k - 1] = in[s]
    BY <2>3, <2>4
  <2>6. in[k] = in[k - 1]
    BY <1>3, <2>2, <2>3, Zenon DEF MaskBit
  <2> QED
    BY <2>2, <2>5, <2>6
<1>5. \A k \in s .. e - 1 : k \in 0 .. n - 1
  BY <1>1, <1>2
<1> QED
  BY <1>4, <1>5

\* Two runs that follow one another are of different symbols.
LEMMA NextSymbolDiffers ==
    ASSUME InputOK, MaxN \in Nat, NEW c \in 0 .. R - 1, c + 1 # R
    PROVE  in[Start(c)] # in[Start(c + 1)]
<1> DEFINE s == Start(c)
           e == Start(c + 1)
<1>1. n \in Nat \ {0} /\ R \in 1 .. n /\ c \in Nat
  BY RIs DEF InputOK
<1>2. c + 1 \in 0 .. R - 1
  BY <1>1
<1>3. s \in 0 .. n - 1 /\ e \in 0 .. n - 1 /\ MaskBit(e) = 1 /\ s < e
  BY <1>2, StartIs, StartIncreases
<1>4. e # 0 /\ e - 1 \in s .. e - 1
  BY <1>1, <1>3
<1>5. in[e - 1] = in[s]
  BY <1>4, SameSymbol
<1>6. in[e] # in[e - 1]
  <2> HIDE DEF e
  <2> QED
    BY <1>3, <1>4 DEF MaskBit
<1> QED
  BY <1>5, <1>6
-----------------------------------------------------------------------------
(* Sums and concatenations.                                                *)

\* The sums of the prefixes, the last of which Sum returns.
Sums(counts, f) ==
    /\ f \in [0 .. Len(counts) -> Int]
    /\ f[0] = 0
    /\ \A k \in 1 .. Len(counts) : f[k] = f[k - 1] + counts[k]
    /\ Sum(counts) = f[Len(counts)]

LEMMA SumIs ==
    ASSUME NEW counts \in Seq(Int)
    PROVE  \E f : Sums(counts, f)
<1> DEFINE N == Len(counts)
           Def(s) == s = [k \in 0 .. N |-> IF k = 0 THEN 0 ELSE s[k - 1] + counts[k]]
           g == [p \in (1 .. N) \X Int |-> p[2] + counts[p[1]]]
<1>1. N \in Nat /\ \A k \in 1 .. N : counts[k] \in Int
  OBVIOUS
<1> HIDE DEF N
<1>2. g \in [(1 .. N) \X Int -> Int]
  <2> SUFFICES ASSUME NEW p \in (1 .. N) \X Int PROVE p[2] + counts[p[1]] \in Int
    OBVIOUS
  <2>1. p[1] \in 1 .. N /\ p[2] \in Int
    OBVIOUS
  <2>2. counts[p[1]] \in Int
    BY <2>1, <1>1
  <2> QED
    BY <2>1, <2>2
<1>3. PICK f \in [0 .. N -> Int] :
         f[0] = 0 /\ \A k \in 1 .. N : f[k] = g[<<k, f[k - 1]>>]
  <2> HIDE DEF g
  <2>1. 0 \in Int
    OBVIOUS
  <2>2. Recursion(Int, 0, N, g)
    BY <1>1, <1>2, <2>1, RecursionExists, Zenon
  <2> QED
    BY <2>2 DEF Recursion
<1>4. ASSUME NEW k \in 1 .. N PROVE f[k] = f[k - 1] + counts[k]
  <2>1. f[k - 1] \in Int
    BY <1>1
  <2>2. g[<<k, f[k - 1]>>] = f[k - 1] + counts[k]
    BY <2>1
  <2> QED
    BY <2>2, <1>3
<1>5. Def(f)
  BY <1>1, <1>3, <1>4
<1> DEFINE s == CHOOSE x : Def(x)
<1>6. Def(s)
  <2> HIDE DEF Def
  <2> QED
    BY <1>5
<1>7. Sum(counts) = s[N]
  BY DEF Sum, N
<1> HIDE DEF s
<1>8. s[0] = 0 /\ \A k \in 1 .. N : s[k] = s[k - 1] + counts[k]
  BY <1>1, <1>6
<1> DEFINE Bad == {k \in 0 .. N : s[k] # f[k]}
<1>9. Bad = {}
  <2> SUFFICES ASSUME Bad # {} PROVE FALSE
    OBVIOUS
  <2>1. PICK k \in Bad : \A j \in Bad : k <= j
    <3>1. Bad \in SUBSET Nat
      BY <1>1
    <3> QED
      BY <3>1, LeastExists
  <2>2. k \in 1 .. N
    BY <1>1, <1>3, <1>8
  <2>3. s[k - 1] = f[k - 1]
    BY <2>1, <2>2, <1>1
  <2> QED
    BY <2>1, <2>2, <2>3, <1>4, <1>8
<1>10. s = f
  BY <1>6, <1>9
<1> QED
  BY <1>1, <1>3, <1>4, <1>7, <1>10 DEF Sums, N

\* The concatenations of the prefixes, the last of which FlattenSeq returns.
Parts(X, seqs, f) ==
    /\ f \in [1 .. Len(seqs) -> Seq(X)]
    /\ f[1] = seqs[1]
    /\ \A k \in 2 .. Len(seqs) : f[k] = f[k - 1] \o seqs[k]
    /\ FlattenSeq(seqs) = f[Len(seqs)]

LEMMA FlattenIs ==
    ASSUME NEW X, NEW seqs \in Seq(Seq(X)), Len(seqs) # 0
    PROVE  \E f : Parts(X, seqs, f)
<1> DEFINE N == Len(seqs)
           Def(s) == s = [i \in 1 .. N |-> IF i = 1 THEN seqs[i] ELSE s[i - 1] \o seqs[i]]
           g == [p \in (1 .. N - 1) \X Seq(X) |-> p[2] \o seqs[p[1] + 1]]
<1>1. N \in Nat \ {0} /\ \A k \in 1 .. N : seqs[k] \in Seq(X)
  OBVIOUS
<1> HIDE DEF N
<1>2. g \in [(1 .. N - 1) \X Seq(X) -> Seq(X)]
  <2> SUFFICES ASSUME NEW p \in (1 .. N - 1) \X Seq(X) PROVE p[2] \o seqs[p[1] + 1] \in Seq(X)
    OBVIOUS
  <2>1. p[1] + 1 \in 1 .. N /\ p[2] \in Seq(X)
    BY <1>1
  <2>2. seqs[p[1] + 1] \in Seq(X)
    BY <2>1, <1>1
  <2> QED
    BY <2>1, <2>2, ConcatProperties
<1>3. PICK h \in [0 .. N - 1 -> Seq(X)] :
         h[0] = seqs[1] /\ \A k \in 1 .. N - 1 : h[k] = g[<<k, h[k - 1]>>]
  <2> HIDE DEF g
  <2>1. seqs[1] \in Seq(X) /\ N - 1 \in Nat
    BY <1>1
  <2>2. Recursion(Seq(X), seqs[1], N - 1, g)
    BY <1>2, <2>1, RecursionExists, Zenon
  <2> QED
    BY <2>2 DEF Recursion
<1> DEFINE f == [i \in 1 .. N |-> h[i - 1]]
<1>4. ASSUME NEW k \in 2 .. N PROVE f[k] = f[k - 1] \o seqs[k]
  <2>1. /\ k - 1 \in 1 .. N - 1 /\ (k - 1) + 1 = k /\ h[(k - 1) - 1] \in Seq(X)
        /\ k \in 1 .. N /\ k - 1 \in 1 .. N
    BY <1>1
  <2>2. h[k - 1] = g[<<k - 1, h[(k - 1) - 1]>>]
    BY <2>1, <1>3
  <2>3. g[<<k - 1, h[(k - 1) - 1]>>] = h[(k - 1) - 1] \o seqs[k]
    BY <2>1
  <2>4. f[k] = h[k - 1] /\ f[k - 1] = h[(k - 1) - 1]
    BY <2>1
  <2> QED
    BY <2>2, <2>3, <2>4
<1>5. f \in [1 .. N -> Seq(X)] /\ f[1] = seqs[1]
  BY <1>1, <1>3
<1> HIDE DEF f
<1>6. Def(f)
  <2>1. ASSUME NEW i \in 1 .. N PROVE f[i] = IF i = 1 THEN seqs[i] ELSE f[i - 1] \o seqs[i]
    <3>1. i # 1 => i \in 2 .. N
      BY <1>1
    <3> QED
      BY <3>1, <1>4, <1>5
  <2> QED
    BY <2>1, <1>5
<1> DEFINE s == CHOOSE x : Def(x)
<1>7. Def(s)
  <2> HIDE DEF Def
  <2> QED
    BY <1>6
<1>8. FlattenSeq(seqs) = s[N]
  BY DEF FlattenSeq, N
<1> HIDE DEF s
<1>9. \A i \in 1 .. N : s[i] = IF i = 1 THEN seqs[i] ELSE s[i - 1] \o seqs[i]
  BY <1>7, Zenon
<1>10. s[1] = seqs[1] /\ \A i \in 2 .. N : s[i] = s[i - 1] \o seqs[i]
  <2>1. 1 \in 1 .. N /\ \A i \in 2 .. N : i \in 1 .. N /\ i # 1
    BY <1>1
  <2> QED
    BY <1>9, <2>1, Zenon
<1>11. s = [i \in 1 .. N |-> s[i]]
  BY <1>7, Zenon
<1> HIDE DEF Def
<1> DEFINE Bad == {k \in 1 .. N : s[k] # f[k]}
<1>12. Bad = {}
  <2> SUFFICES ASSUME Bad # {} PROVE FALSE
    OBVIOUS
  <2>1. PICK k \in Bad : \A j \in Bad : k <= j
    <3>1. Bad \in SUBSET Nat
      BY <1>1
    <3> QED
      BY <3>1, LeastExists
  <2>2. k \in 2 .. N /\ k - 1 \in 1 .. N
    BY <1>1, <1>5, <1>10
  <2>3. s[k - 1] = f[k - 1]
    BY <2>1, <2>2, <1>1
  <2>4. s[k] = s[k - 1] \o seqs[k]
    BY <2>2, <1>10
  <2> QED
    BY <2>1, <2>2, <2>3, <2>4, <1>4
<1>13. s = f
  BY <1>5, <1>12, <1>11
<1> QED
  BY <1>1, <1>4, <1>5, <1>8, <1>13 DEF Parts, N
-----------------------------------------------------------------------------
(* What an encoding restores to, and what the verification accepts.        *)

Values == Symbols \cup {Unset}
Counts == [k \in DOMAIN Runs |-> Runs[k][2]]
Pieces == [k \in 1 .. totalRuns |-> Run(k)]
InputSeq == [k \in 1 .. n |-> in[k - 1]]

LEMMA RunsAre ==
    ASSUME TypeOK, totalRuns # Unset
    PROVE  /\ totalRuns \in Nat \ {0}
           /\ Counts \in Seq(Int) /\ Len(Counts) = totalRuns
           /\ Pieces \in Seq(Seq(Values)) /\ Len(Pieces) = totalRuns
           /\ \A k \in 1 .. totalRuns :
                 /\ k - 1 \in Cells /\ out[k - 1] \in Values \X Int
                 /\ Runs[k] = out[k - 1] /\ Counts[k] = out[k - 1][2]
                 /\ Pieces[k] = IF out[k - 1][2] > 0
                                THEN [j \in 1 .. out[k - 1][2] |-> out[k - 1][1]] ELSE <<>>
<1>1. totalRuns \in 1 .. MaxN /\ MaxN \in Nat /\ totalRuns \in Nat \ {0}
  BY TypeInput DEF TypeOK, Unset
<1>2. out \in [Cells -> Values \X Int]
  BY DEF TypeOK, Values
<1>3. ASSUME NEW k \in 1 .. totalRuns
      PROVE  /\ k - 1 \in Cells /\ out[k - 1] \in Values \X Int
             /\ Runs[k] = out[k - 1] /\ Counts[k] = out[k - 1][2]
  <2>1. k - 1 \in Cells
    BY <1>1 DEF Cells
  <2>2. Runs[k] = out[k - 1] /\ k \in DOMAIN Runs
    BY DEF Runs
  <2>3. Counts[k] = Runs[k][2]
    BY <2>2 DEF Counts
  <2> QED
    BY <2>1, <2>2, <2>3, <1>2
<1>4. ASSUME NEW k \in 1 .. totalRuns
      PROVE  Run(k) = IF out[k - 1][2] > 0
                      THEN [j \in 1 .. out[k - 1][2] |-> out[k - 1][1]] ELSE <<>>
  <2>1. Runs[k] = out[k - 1]
    BY <1>3
  <2> QED
    BY <2>1, Zenon DEF Run
<1>5. ASSUME NEW k \in 1 .. totalRuns PROVE Run(k) \in Seq(Values)
  <2> DEFINE c == out[k - 1][2]
             x == out[k - 1][1]
  <2>1. c \in Int /\ x \in Values
    BY <1>3
  <2>2. Run(k) = IF c > 0 THEN [j \in 1 .. c |-> x] ELSE <<>>
    BY <1>4
  <2> HIDE DEF c, x
  <2>3. CASE c > 0
    <3>1. c \in Nat /\ [j \in 1 .. c |-> x] \in [1 .. c -> Values]
      BY <2>1, <2>3
    <3>2. [j \in 1 .. c |-> x] \in Seq(Values)
      BY <3>1
    <3> QED
      BY <2>2, <2>3, <3>2
  <2>4. CASE ~ (c > 0)
    BY <2>2, <2>4
  <2> QED
    BY <2>3, <2>4
<1>6. DOMAIN Runs = 1 .. totalRuns
  BY DEF Runs
<1>7. Counts \in Seq(Int) /\ Len(Counts) = totalRuns
  <2>1. Counts = [k \in 1 .. totalRuns |-> Runs[k][2]]
    BY <1>6 DEF Counts
  <2>2. \A k \in 1 .. totalRuns : Runs[k][2] \in Int
    BY <1>3
  <2>3. [k \in 1 .. totalRuns |-> Runs[k][2]] \in [1 .. totalRuns -> Int]
    BY <2>2
  <2> QED
    BY <1>1, <2>1, <2>3
<1>8. Pieces \in Seq(Seq(Values)) /\ Len(Pieces) = totalRuns
  <2>1. Pieces \in [1 .. totalRuns -> Seq(Values)]
    BY <1>5 DEF Pieces
  <2> QED
    BY <1>1, <2>1
<1>9. \A k \in 1 .. totalRuns : Pieces[k] = Run(k)
  BY DEF Pieces
<1> QED
  BY <1>1, <1>3, <1>4, <1>7, <1>8, <1>9

\* With positive counts the input is as long as their sum, and the
\* verification compares all of it.
LEMMA AcceptedPositive ==
    ASSUME TypeOK, totalRuns # Unset, Accepted,
           \A c \in 0 .. totalRuns - 1 : out[c][2] > 0
    PROVE  Restored = InputSeq
<1>1. PICK s : Sums(Counts, s)
  BY RunsAre, SumIs
<1>2. PICK f : Parts(Values, Pieces, f)
  BY RunsAre, FlattenIs
<1>3. /\ totalRuns \in Nat \ {0} /\ Len(Counts) = totalRuns /\ Len(Pieces) = totalRuns
      /\ Pieces \in Seq(Seq(Values))
  BY RunsAre
<1>4. ASSUME NEW k \in 1 .. totalRuns
      PROVE  Counts[k] \in Nat /\ Len(Pieces[k]) = Counts[k] /\ Pieces[k] \in Seq(Values)
  <2> DEFINE c == out[k - 1][2]
             x == out[k - 1][1]
  <2>1. k - 1 \in 0 .. totalRuns - 1
    BY <1>3
  <2>2. c \in Int /\ c > 0 /\ Counts[k] = c
    BY <2>1, RunsAre
  <2>3. Pieces[k] = [j \in 1 .. c |-> x]
    BY <2>2, RunsAre
  <2>4. Pieces[k] \in Seq(Values)
    BY <1>3
  <2> HIDE DEF c, x
  <2>5. Len(Pieces[k]) = c
    BY <2>2, <2>3
  <2> QED
    BY <2>2, <2>4, <2>5
<1>5. /\ s \in [0 .. totalRuns -> Int] /\ s[0] = 0
      /\ \A k \in 1 .. totalRuns : s[k] = s[k - 1] + Counts[k]
      /\ Sum(Counts) = s[totalRuns]
  BY <1>1, <1>3 DEF Sums
<1>6. /\ f \in [1 .. totalRuns -> Seq(Values)] /\ f[1] = Pieces[1]
      /\ \A k \in 2 .. totalRuns : f[k] = f[k - 1] \o Pieces[k]
      /\ FlattenSeq(Pieces) = f[totalRuns]
  BY <1>2, <1>3 DEF Parts
<1> DEFINE Bad == {k \in 1 .. totalRuns : Len(f[k]) # s[k]}
<1>7. Bad = {}
  <2> SUFFICES ASSUME Bad # {} PROVE FALSE
    OBVIOUS
  <2>1. PICK k \in Bad : \A j \in Bad : k <= j
    <3>1. Bad \in SUBSET Nat
      BY <1>3
    <3> QED
      BY <3>1, LeastExists
  <2>2. k \in 1 .. totalRuns /\ Len(f[k]) # s[k] /\ s[k] = s[k - 1] + Counts[k]
    BY <1>5
  <2>3. k # 1
    <3>1. 1 \in 1 .. totalRuns
      BY <1>3
    <3>2. Len(f[1]) = Counts[1] /\ s[1] = s[0] + Counts[1] /\ Counts[1] \in Nat
      BY <3>1, <1>4, <1>5, <1>6
    <3>3. s[1] = Counts[1]
      BY <3>2, <1>5
    <3> QED
      BY <2>2, <3>2, <3>3
  <2>4. k \in 2 .. totalRuns /\ k - 1 \in 1 .. totalRuns /\ ~ (k <= k - 1)
    BY <2>2, <2>3, <1>3
  <2>5. Len(f[k - 1]) = s[k - 1]
    <3>1. k - 1 \notin Bad
      <4> HIDE DEF Bad
      <4> QED
        BY <2>1, <2>4
    <3> QED
      BY <2>4, <3>1
  <2>6. Len(f[k - 1] \o Pieces[k]) = Len(f[k - 1]) + Len(Pieces[k])
    <3>1. f[k - 1] \in Seq(Values) /\ Pieces[k] \in Seq(Values)
      BY <2>2, <2>4, <1>4, <1>6
    <3> QED
      BY <3>1, ConcatProperties
  <2>7. Len(f[k]) = s[k - 1] + Counts[k]
    BY <2>2, <2>4, <2>5, <2>6, <1>4, <1>6
  <2> QED
    BY <2>2, <2>7
<1>8. Restored = f[totalRuns]
  BY <1>6 DEF Restored, Pieces
<1>9. totalRuns \in 1 .. totalRuns
  BY <1>3
<1>10. Restored \in Seq(Values) /\ Len(Restored) = Sum(Counts)
  BY <1>5, <1>6, <1>7, <1>8, <1>9
<1>11. Sum(Counts) = n /\ \A k \in 1 .. n : in[k - 1] = Restored[k]
  BY DEF Accepted, Counts
<1>12. Restored = [k \in 1 .. n |-> Restored[k]]
  BY <1>10, <1>11
<1> QED
  BY <1>11, <1>12 DEF InputSeq

\* The counts add up to where the last run is taken to end.
LEMMA EncodedSum ==
    ASSUME TypeOK, NEW last \in Int, EncodedTo(last)
    PROVE  Sum(Counts) = last
<1>1. InputOK /\ MaxN \in Nat
  BY TypeInput
<1>2. totalRuns = R /\ R \in 1 .. n /\ n \in Nat \ {0}
  BY <1>1, RIs DEF EncodedTo, InputOK
<1>3. totalRuns # Unset
  BY <1>2 DEF Unset
<1>4. PICK s : Sums(Counts, s)
  BY <1>3, RunsAre, SumIs
<1>5. /\ s \in [0 .. R -> Int] /\ s[0] = 0
      /\ \A k \in 1 .. R : s[k] = s[k - 1] + Counts[k]
      /\ Sum(Counts) = s[R]
  BY <1>2, <1>3, <1>4, RunsAre DEF Sums
<1>6. ASSUME NEW k \in 1 .. R
      PROVE  Counts[k] = (IF k = R THEN last ELSE Start(k)) - Start(k - 1)
  <2>1. k - 1 \in 0 .. R - 1 /\ (k - 1) + 1 = k /\ (k - 1 = R - 1 <=> k = R)
    BY <1>2
  <2>2. out[k - 1] = <<in[Start(k - 1)],
                       (IF k = R THEN last ELSE Start(k)) - Start(k - 1)>>
    BY <2>1 DEF EncodedTo
  <2>3. Counts[k] = out[k - 1][2]
    BY <1>2, <1>3, RunsAre
  <2> QED
    BY <2>2, <2>3
<1> DEFINE Bad == {k \in 0 .. R - 1 : s[k] # Start(k)}
<1>7. Bad = {}
  <2> SUFFICES ASSUME Bad # {} PROVE FALSE
    OBVIOUS
  <2>1. PICK k \in Bad : \A j \in Bad : k <= j
    <3>1. Bad \in SUBSET Nat
      BY <1>2
    <3> QED
      BY <3>1, LeastExists
  <2>2. k # 0
    BY <1>1, <1>5, StartOfFirst
  <2>3. k \in 1 .. R /\ k # R /\ k \in 0 .. R - 1 /\ k - 1 \in 0 .. R - 1 /\ ~ (k <= k - 1)
    BY <2>2, <1>2
  <2>4. s[k - 1] = Start(k - 1)
    <3>1. k - 1 \notin Bad
      <4> HIDE DEF Bad
      <4> QED
        BY <2>1, <2>3
    <3> QED
      BY <2>3, <3>1
  <2>5. s[k] = Start(k - 1) + (Start(k) - Start(k - 1))
    BY <2>3, <2>4, <1>5, <1>6
  <2>6. Start(k) \in Nat /\ Start(k - 1) \in Nat
    BY <1>1, <2>3, StartIs
  <2>7. s[k] = Start(k)
    BY <2>5, <2>6
  <2> QED
    BY <2>7
<1>8. R \in 1 .. R /\ R - 1 \in 0 .. R - 1
  BY <1>2
<1>9. s[R] = Start(R - 1) + (last - Start(R - 1))
  BY <1>5, <1>6, <1>7, <1>8
<1>10. Start(R - 1) \in Nat
  BY <1>1, <1>8, StartIs
<1> QED
  BY <1>5, <1>9, <1>10

LEMMA AppendRun ==
    ASSUME InputOK, NEW a \in 0 .. n, NEW b \in 0 .. n, a <= b, NEW x \in Values,
           \A k \in a .. b - 1 : in[k] = x
    PROVE  [j \in 1 .. a |-> in[j - 1]] \o [j \in 1 .. b - a |-> x] = [j \in 1 .. b |-> in[j - 1]]
<1> DEFINE s == [j \in 1 .. a |-> in[j - 1]]
           t == [j \in 1 .. b - a |-> x]
           u == [j \in 1 .. b |-> in[j - 1]]
<1>1. n \in Nat /\ a \in Nat /\ b \in Nat /\ b - a \in Nat
  BY DEF InputOK
<1>2. \A j \in 1 .. n : in[j - 1] \in Values
  <2> SUFFICES ASSUME NEW j \in 1 .. n PROVE in[j - 1] \in Values
    OBVIOUS
  <2>1. j - 1 \in 0 .. n - 1
    BY <1>1
  <2> QED
    BY <2>1 DEF InputOK, Values
<1>3. s \in Seq(Values) /\ Len(s) = a /\ \A j \in 1 .. a : s[j] = in[j - 1]
  <2>1. \A j \in 1 .. a : in[j - 1] \in Values
    BY <1>1, <1>2
  <2>2. s \in [1 .. a -> Values]
    BY <2>1
  <2> QED
    BY <1>1, <2>2
<1>4. t \in Seq(Values) /\ Len(t) = b - a /\ \A j \in 1 .. b - a : t[j] = x
  <2>1. t \in [1 .. b - a -> Values]
    OBVIOUS
  <2> QED
    BY <1>1, <2>1
<1>5. u \in Seq(Values) /\ Len(u) = b /\ \A j \in 1 .. b : u[j] = in[j - 1]
  <2>1. \A j \in 1 .. b : in[j - 1] \in Values
    BY <1>1, <1>2
  <2>2. u \in [1 .. b -> Values]
    BY <2>1
  <2> QED
    BY <1>1, <2>2
<1> HIDE DEF s, t, u
<1>6. /\ s \o t \in Seq(Values) /\ Len(s \o t) = a + (b - a)
      /\ \A i \in 1 .. a + (b - a) :
            (s \o t)[i] = IF i <= a THEN s[i] ELSE t[i - a]
  BY <1>3, <1>4, ConcatProperties
<1>7. a + (b - a) = b
  BY <1>1
<1>8. ASSUME NEW i \in 1 .. b PROVE (s \o t)[i] = u[i]
  <2>1. CASE i <= a
    <3>1. i \in 1 .. a
      BY <2>1
    <3>2. (s \o t)[i] = s[i]
      BY <1>6, <1>7, <2>1
    <3> QED
      BY <3>1, <3>2, <1>3, <1>5
  <2>2. CASE ~ (i <= a)
    <3>1. i - a \in 1 .. b - a /\ i - 1 \in a .. b - 1
      BY <2>2, <1>1
    <3>2. (s \o t)[i] = t[i - a]
      BY <1>6, <1>7, <2>2
    <3> QED
      BY <3>1, <3>2, <1>4, <1>5
  <2> QED
    BY <2>1, <2>2
<1>9. s \o t = u
  <2> DEFINE v == s \o t
  <2>1. v \in Seq(Values) /\ Len(v) = Len(u) /\ \A i \in 1 .. Len(v) : v[i] = u[i]
    BY <1>5, <1>6, <1>7, <1>8
  <2> HIDE DEF v
  <2>2. v = u
    BY <2>1, <1>5
  <2> QED
    BY <2>2 DEF v
<1> QED
  BY <1>9 DEF s, t, u

\* One run after another gives the input up to where the run ends.
LEMMA EncodedRestores ==
    ASSUME TypeOK, EncodedTo(n)
    PROVE  Restored = InputSeq
<1>1. InputOK /\ MaxN \in Nat
  BY TypeInput
<1>2. totalRuns = R /\ R \in 1 .. n /\ n \in Nat \ {0}
  BY <1>1, RIs DEF EncodedTo, InputOK
<1>3. totalRuns # Unset
  BY <1>2 DEF Unset
<1>4. PICK f : Parts(Values, Pieces, f)
  BY <1>3, <1>2, RunsAre, FlattenIs
<1>5. /\ f \in [1 .. R -> Seq(Values)] /\ f[1] = Pieces[1]
      /\ \A k \in 2 .. R : f[k] = f[k - 1] \o Pieces[k]
      /\ Restored = f[R]
  BY <1>2, <1>3, <1>4, RunsAre DEF Parts, Restored, Pieces
<1> DEFINE Upto(b) == [j \in 1 .. b |-> in[j - 1]]
<1>6. ASSUME NEW k \in 1 .. R
      PROVE  /\ Start(k - 1) \in 0 .. n /\ Start(k) \in 0 .. n
             /\ Upto(Start(k - 1)) \o Pieces[k] = Upto(Start(k))
  <2> DEFINE c == k - 1
             a == Start(c)
             b == Start(k)
             x == in[a]
  <2>1. c \in 0 .. R - 1 /\ c + 1 = k
    BY <1>2
  <2> HIDE DEF c
  <2>2. a \in 0 .. n - 1 /\ b \in 1 .. n /\ a < b
    BY <1>1, <2>1, StartIs, StartIncreases
  <2>3. \A j \in a .. b - 1 : in[j] = x
    BY <1>1, <2>1, SameSymbol
  <2>4. x \in Values
    BY <1>1, <2>2 DEF InputOK, Values
  <2>5. out[c] = <<x, b - a>>
    <3>1. out[c] = <<in[Start(c)], (IF c = R - 1 THEN n ELSE Start(c + 1)) - Start(c)>>
      BY <2>1 DEF EncodedTo
    <3>2. (IF c = R - 1 THEN n ELSE Start(c + 1)) = b
      <4>1. c = R - 1 => k = R
        BY <1>2, <2>1
      <4> QED
        BY <2>1, <4>1, StartOfEnd
    <3> QED
      BY <3>1, <3>2
  <2> HIDE DEF a, b, x
  <2>6. b - a > 0 /\ a \in 0 .. n /\ b \in 0 .. n /\ a <= b
    BY <1>2, <2>2
  <2>7. Pieces[k] = [j \in 1 .. b - a |-> x]
    <3>1. out[c][1] = x /\ out[c][2] = b - a
      BY <2>5
    <3>2. Pieces[k] = IF out[c][2] > 0 THEN [j \in 1 .. out[c][2] |-> out[c][1]] ELSE <<>>
      BY <1>2, <1>3, RunsAre DEF c
    <3> QED
      BY <2>6, <3>1, <3>2
  <2>8. Upto(a) \o [j \in 1 .. b - a |-> x] = Upto(b)
    BY <1>1, <2>3, <2>4, <2>6, AppendRun
  <2> QED
    BY <2>6, <2>7, <2>8 DEF a, b, c, x
<1> HIDE DEF Upto
<1> DEFINE Bad == {k \in 1 .. R : f[k] # Upto(Start(k))}
<1>7. Bad = {}
  <2> SUFFICES ASSUME Bad # {} PROVE FALSE
    OBVIOUS
  <2>1. PICK k \in Bad : \A j \in Bad : k <= j
    <3>1. Bad \in SUBSET Nat
      BY <1>2
    <3> QED
      BY <3>1, LeastExists
  <2>2. k # 1
    <3>1. 1 \in 1 .. R /\ 1 - 1 = 0
      BY <1>2
    <3>2. Start(0) = 0
      BY <1>1, StartOfFirst
    <3>3. Upto(Start(1 - 1)) \o Pieces[1] = Upto(Start(1))
      BY <3>1, <1>6, Zenon
    <3>4. Upto(0) \o Pieces[1] = Upto(Start(1))
      BY <3>1, <3>2, <3>3
    <3>5. Upto(0) = <<>>
      BY DEF Upto
    <3>6. Pieces[1] \in Seq(Values)
      BY <1>2, <1>5, <3>1
    <3>7. <<>> \o Pieces[1] = Pieces[1]
      BY <3>6, ConcatEmptySeq
    <3> QED
      BY <1>5, <3>4, <3>5, <3>7
  <2>3. k \in 2 .. R /\ k \in 1 .. R /\ k - 1 \in 1 .. R /\ ~ (k <= k - 1)
    BY <2>2, <1>2
  <2>4. f[k - 1] = Upto(Start(k - 1))
    <3>1. k - 1 \notin Bad
      <4> HIDE DEF Bad
      <4> QED
        BY <2>1, <2>3
    <3> QED
      BY <2>3, <3>1
  <2>5. f[k] = Upto(Start(k - 1)) \o Pieces[k]
    BY <2>3, <2>4, <1>5
  <2>6. f[k] = Upto(Start(k))
    BY <2>3, <2>5, <1>6
  <2> QED
    BY <2>6
<1>8. f[R] = Upto(Start(R))
  <2>1. R \in 1 .. R
    BY <1>2
  <2> QED
    BY <2>1, <1>7
<1> QED
  BY <1>5, <1>8, StartOfEnd DEF Upto, InputSeq

LEMMA EncodedLossless ==
    ASSUME TypeOK, EncodedTo(n)
    PROVE  Lossless /\ \A c \in 0 .. totalRuns - 1 : out[c][2] > 0
<1>1. InputOK /\ MaxN \in Nat
  BY TypeInput
<1>2. totalRuns = R /\ R \in 1 .. n /\ n \in Nat \ {0} /\ totalRuns # Unset
  BY <1>1, RIs DEF EncodedTo, InputOK, Unset
<1>3. ASSUME NEW c \in 0 .. R - 1 PROVE out[c] = <<in[Start(c)], Start(c + 1) - Start(c)>>
  <2>1. c = R - 1 => Start(c + 1) = n
    BY <1>2, StartOfEnd
  <2> QED
    BY <2>1 DEF EncodedTo
<1>4. ASSUME NEW c \in 0 .. R - 1 PROVE out[c][2] > 0
  <2>1. Start(c) \in Nat /\ Start(c + 1) \in Nat /\ Start(c) < Start(c + 1)
    BY <1>1, StartIs, StartIncreases
  <2>2. Start(c + 1) - Start(c) > 0
    BY <2>1
  <2> QED
    BY <2>2, <1>3
<1>5. ASSUME NEW k \in 1 .. R - 1 PROVE Runs[k][1] # Runs[k + 1][1]
  <2>1. k - 1 \in 0 .. R - 1 /\ (k - 1) + 1 = k /\ k \in 0 .. R - 1 /\ (k + 1) - 1 = k
        /\ k \in 1 .. R /\ k + 1 \in 1 .. R /\ k # R
    BY <1>2
  <2>2. Runs[k] = out[k - 1] /\ Runs[k + 1] = out[k]
    BY <2>1, <1>2, RunsAre
  <2>3. Runs[k][1] = in[Start(k - 1)] /\ Runs[k + 1][1] = in[Start(k)]
    BY <2>1, <2>2, <1>3
  <2>4. in[Start(k - 1)] # in[Start((k - 1) + 1)]
    BY <1>1, <2>1, NextSymbolDiffers
  <2> QED
    BY <2>1, <2>3, <2>4
<1>6. Restored = [k \in 1 .. n |-> in[k - 1]]
  BY EncodedRestores DEF InputSeq
<1>7. Lossless
  BY <1>2, <1>5, <1>6 DEF Lossless
<1> QED
  BY <1>2, <1>4, <1>7
-----------------------------------------------------------------------------
(* The serial encoder.                                                     *)

\* The run a position belongs to.
LEMMA RunOf ==
    ASSUME InputOK, MaxN \in Nat, NEW id \in 0 .. n - 1
    PROVE  /\ RunsTo[id] \in Nat \ {0} /\ RunsTo[id] - 1 \in 0 .. R - 1
           /\ Start(RunsTo[id] - 1) \in 0 .. id
           /\ in[id] = in[Start(RunsTo[id] - 1)]
<1> DEFINE c == RunsTo[id] - 1
           s == Start(c)
           e == Start(c + 1)
<1>1. n \in Nat \ {0} /\ R \in 1 .. n /\ id \in Nat
  BY RIs DEF InputOK
<1>2. RunsTo[id] \in Nat /\ 1 <= RunsTo[id] /\ c + 1 = RunsTo[id]
  BY RunsToIs, RunsToBounds
<1>3. RunsTo[id] <= R
  <2>1. n - 1 \in id .. n - 1
    BY <1>1
  <2> QED
    BY <2>1, RunsToMonotone DEF R
<1>4. c \in 0 .. R - 1
  BY <1>1, <1>2, <1>3
<1> HIDE DEF c
<1>5. s \in 0 .. n - 1 /\ MaskBit(s) = 1 /\ RunsTo[s] = c + 1 /\ e \in 1 .. n
  BY <1>4, StartIs, StartIncreases
<1>6. ~ (id < s)
  <2> HIDE DEF s
  <2> QED
    BY <1>2, <1>5, RunsToIncreases
<1>7. ~ (e <= id)
  <2> SUFFICES ASSUME e <= id PROVE FALSE
    OBVIOUS
  <2>1. c + 1 # R
    BY <1>1, <1>5, StartOfEnd
  <2>2. c + 1 \in 0 .. R - 1
    BY <1>1, <1>4, <2>1
  <2>3. e \in 0 .. n - 1 /\ RunsTo[e] = (c + 1) + 1
    BY <2>2, StartIs
  <2>4. id \in e .. n - 1
    BY <1>1, <2>3
  <2>5. RunsTo[e] <= RunsTo[id]
    BY <2>3, <2>4, RunsToMonotone
  <2> QED
    BY <1>2, <1>4, <2>3, <2>5
<1>8. id \in s .. e - 1 /\ s \in 0 .. id
  BY <1>1, <1>5, <1>6, <1>7
<1>9. in[id] = in[s]
  BY <1>4, <1>8, SameSymbol
<1> QED
  BY <1>2, <1>4, <1>8, <1>9 DEF c

\* The runs of the first k symbols, the last of them not yet at its end.
Shape(rs, k) ==
    /\ rs \in Seq(Values \X Int)
    /\ Len(rs) = RunsTo[k - 1]
    /\ \A c \in 0 .. RunsTo[k - 1] - 1 :
          rs[c + 1] = <<in[Start(c)],
                        (IF c = RunsTo[k - 1] - 1 THEN k ELSE Start(c + 1)) - Start(c)>>

LEMMA ShapeFirst ==
    ASSUME InputOK, MaxN \in Nat
    PROVE  Shape(AddSymbol(<<>>, in[0]), 1)
<1>1. 0 \in 0 .. n - 1
  BY DEF InputOK
<1>2. in[0] \in Values
  BY <1>1 DEF InputOK, Values
<1>3. RunsTo[1 - 1] = 1 /\ Start(0) = 0
  <2>1. 1 - 1 = 0
    OBVIOUS
  <2> QED
    BY <2>1, RunsToIs, StartOfFirst
<1>4. AddSymbol(<<>>, in[0]) = <<<<in[0], 1>>>>
  <2>1. AddSymbol(<<>>, in[0]) = Append(<<>>, <<in[0], 1>>)
    BY DEF AddSymbol
  <2> QED
    BY <2>1
<1> DEFINE rs == <<<<in[0], 1>>>>
<1>5. rs \in Seq(Values \X Int) /\ Len(rs) = 1 /\ rs[1] = <<in[0], 1>>
  BY <1>2
<1> HIDE DEF rs
<1>6. ASSUME NEW c \in 0 .. RunsTo[1 - 1] - 1
      PROVE  rs[c + 1] = <<in[Start(c)],
                           (IF c = RunsTo[1 - 1] - 1 THEN 1 ELSE Start(c + 1)) - Start(c)>>
  <2>1. c = 0 /\ c = RunsTo[1 - 1] - 1 /\ c + 1 = 1
    BY <1>3
  <2>2. Start(c) = 0
    BY <2>1, <1>3
  <2>3. (IF c = RunsTo[1 - 1] - 1 THEN 1 ELSE Start(c + 1)) = 1
    BY <2>1
  <2> QED
    BY <2>1, <2>2, <2>3, <1>5
<1> QED
  BY <1>3, <1>4, <1>5, <1>6 DEF Shape, rs

LEMMA ShapeStep ==
    ASSUME InputOK, MaxN \in Nat, NEW k \in 2 .. n, NEW rs, Shape(rs, k - 1)
    PROVE  Shape(AddSymbol(rs, in[k - 1]), k)
<1> DEFINE id == k - 1
           r == RunsTo[id - 1]
           x == in[id]
           s == Start(r - 1)
           new == AddSymbol(rs, x)
<1>1. n \in Nat \ {0} /\ R \in 1 .. n
  BY RIs DEF InputOK
<1>2. id \in 1 .. n - 1 /\ id - 1 \in 0 .. n - 1 /\ id \in 0 .. n - 1 /\ id + 1 = k
  BY <1>1
<1> HIDE DEF id
<1>3. /\ r \in Nat \ {0} /\ s \in 0 .. id - 1 /\ in[id - 1] = in[s]
      /\ RunsTo[id] = r + MaskBit(id) /\ MaskBit(id) \in {0, 1}
  BY <1>2, RunOf, RunsToIs
<1>4. x \in Values
  BY <1>2 DEF InputOK, Values
<1> HIDE DEF r
<1>5. /\ rs \in Seq(Values \X Int) /\ Len(rs) = r
      /\ \A c \in 0 .. r - 1 :
            rs[c + 1] = <<in[Start(c)], (IF c = r - 1 THEN id ELSE Start(c + 1)) - Start(c)>>
  BY DEF Shape, id, r
<1>6. r \in 1 .. Len(rs) /\ rs[r] = <<in[s], id - s>>
  <2>1. r - 1 \in 0 .. r - 1 /\ (r - 1) + 1 = r
    BY <1>3
  <2> QED
    BY <1>3, <1>5, <2>1
<1>7. MaskBit(id) = 0 <=> x = in[s]
  <2>1. MaskBit(id) = IF x # in[id - 1] THEN 1 ELSE 0
    BY <1>2 DEF MaskBit
  <2> QED
    BY <2>1, <1>3
<1>8. CASE MaskBit(id) = 0
  <2>1. new = [rs EXCEPT ![r] = <<x, (id - s) + 1>>]
    <3>1. rs # <<>> /\ rs[Len(rs)][1] = x /\ rs[Len(rs)][2] = id - s
      BY <1>3, <1>5, <1>6, <1>7, <1>8
    <3>2. new = [rs EXCEPT ![Len(rs)] = <<x, rs[Len(rs)][2] + 1>>]
      BY <3>1 DEF AddSymbol
    <3> QED
      BY <3>1, <3>2, <1>5
  <2>2. (id - s) + 1 = k - s /\ k - s \in Int
    BY <1>2, <1>3
  <2> HIDE DEF new, x, s
  <2>3. new \in Seq(Values \X Int) /\ Len(new) = r
    <3>1. <<x, (id - s) + 1>> \in Values \X Int
      BY <1>4, <2>2
    <3> QED
      BY <3>1, <2>1, <1>5, <1>6
  <2>4. RunsTo[k - 1] = r
    BY <1>3, <1>8 DEF id
  <2>5. ASSUME NEW c \in 0 .. r - 1
        PROVE  new[c + 1] = <<in[Start(c)], (IF c = r - 1 THEN k ELSE Start(c + 1)) - Start(c)>>
    <3>1. c + 1 \in 1 .. Len(rs)
      BY <1>3, <1>5
    <3>2. CASE c = r - 1
      <4>1. c + 1 = r /\ Start(c) = s
        BY <1>3, <3>2 DEF s
      <4>2. new[c + 1] = <<x, k - s>>
        BY <2>1, <2>2, <3>1, <4>1
      <4> QED
        BY <3>2, <4>1, <4>2, <1>7, <1>8
    <3>3. CASE c # r - 1
      <4>1. c + 1 # r
        BY <1>3, <3>3
      <4>2. new[c + 1] = rs[c + 1]
        BY <2>1, <3>1, <4>1
      <4> QED
        BY <3>3, <4>2, <1>5
    <3> QED
      BY <3>2, <3>3
  <2> QED
    BY <2>3, <2>4, <2>5 DEF Shape, new, x, id
<1>9. CASE MaskBit(id) = 1
  <2>1. new = Append(rs, <<x, 1>>)
    <3>1. ~ (rs[Len(rs)][1] = x)
      BY <1>3, <1>5, <1>6, <1>7, <1>9
    <3> QED
      BY <3>1 DEF AddSymbol
  <2>2. Start(r) = id
    <3>1. RunsTo[id] - 1 = r
      BY <1>3, <1>9
    <3> QED
      BY <3>1, <1>2, <1>9, StartUnique
  <2> HIDE DEF new, x, s
  <2>3. new \in Seq(Values \X Int) /\ Len(new) = r + 1
    <3>1. <<x, 1>> \in Values \X Int
      BY <1>4
    <3> QED
      BY <3>1, <2>1, <1>5
  <2>4. RunsTo[k - 1] = r + 1 /\ (r + 1) - 1 = r
    BY <1>3, <1>9 DEF id
  <2>5. ASSUME NEW c \in 0 .. r
        PROVE  new[c + 1] = <<in[Start(c)], (IF c = r THEN k ELSE Start(c + 1)) - Start(c)>>
    <3>1. CASE c = r
      <4>1. new[c + 1] = <<x, 1>>
        BY <2>1, <1>5, <3>1
      <4>2. k - id = 1
        BY <1>2
      <4> QED
        BY <2>2, <3>1, <4>1, <4>2 DEF x
    <3>2. CASE c # r
      <4>1. c \in 0 .. r - 1 /\ c + 1 \in 1 .. Len(rs)
        BY <1>3, <1>5, <3>2
      <4>2. new[c + 1] = rs[c + 1]
        BY <2>1, <4>1, <1>5
      <4>3. rs[c + 1] = <<in[Start(c)], (IF c = r - 1 THEN id ELSE Start(c + 1)) - Start(c)>>
        BY <4>1, <1>5
      <4>4. c = r - 1 => Start(c + 1) = id
        BY <1>3, <2>2
      <4>5. (IF c = r - 1 THEN id ELSE Start(c + 1)) = Start(c + 1)
        BY <4>4
      <4> QED
        BY <3>2, <4>2, <4>3, <4>5
    <3> QED
      BY <3>1, <3>2
  <2> QED
    BY <2>3, <2>4, <2>5 DEF Shape, new, x, id
<1> QED
  BY <1>3, <1>8, <1>9 DEF new, x, id

LEMMA AddSymbolTyped ==
    ASSUME NEW rs \in Seq(Values \X Int), NEW x \in Values
    PROVE  AddSymbol(rs, x) \in Seq(Values \X Int)
<1>1. CASE rs # <<>> /\ rs[Len(rs)][1] = x
  <2> DEFINE y == <<x, rs[Len(rs)][2] + 1>>
  <2>1. Len(rs) \in 1 .. Len(rs)
    BY <1>1
  <2>2. y \in Values \X Int
    <3>1. rs[Len(rs)] \in Values \X Int
      BY <2>1
    <3>2. rs[Len(rs)][2] \in Int
      BY <3>1
    <3> QED
      BY <3>2
  <2>3. AddSymbol(rs, x) = [rs EXCEPT ![Len(rs)] = y]
    BY <1>1 DEF AddSymbol
  <2> HIDE DEF y
  <2> QED
    BY <2>1, <2>2, <2>3
<1>2. CASE ~ (rs # <<>> /\ rs[Len(rs)][1] = x)
  <2>1. AddSymbol(rs, x) = Append(rs, <<x, 1>>)
    BY <1>2 DEF AddSymbol
  <2>2. <<x, 1>> \in Values \X Int
    OBVIOUS
  <2> QED
    BY <2>1, <2>2, AppendProperties
<1> QED
  BY <1>1, <1>2

\* The serial encoder finds the runs the prefix sum counts.
LEMMA SerialIs ==
    ASSUME InputOK, MaxN \in Nat
    PROVE  Shape(SerialRuns, n)
<1> DEFINE T == Seq(Values \X Int)
           Def(s) == s = [k \in 0 .. n |-> IF k = 0 THEN <<>> ELSE AddSymbol(s[k - 1], in[k - 1])]
           g == [p \in (1 .. n) \X T |-> AddSymbol(p[2], in[p[1] - 1])]
<1>1. n \in Nat \ {0} /\ n \in Nat
  BY DEF InputOK
<1>2. g \in [(1 .. n) \X T -> T]
  <2> SUFFICES ASSUME NEW p \in (1 .. n) \X T PROVE AddSymbol(p[2], in[p[1] - 1]) \in T
    OBVIOUS
  <2>1. p[2] \in T /\ p[1] - 1 \in 0 .. n - 1
    BY <1>1
  <2>2. in[p[1] - 1] \in Values
    BY <2>1 DEF InputOK, Values
  <2> QED
    BY <2>1, <2>2, AddSymbolTyped
<1>3. PICK f \in [0 .. n -> T] : f[0] = <<>> /\ \A k \in 1 .. n : f[k] = g[<<k, f[k - 1]>>]
  <2>1. <<>> \in T
    OBVIOUS
  <2> HIDE DEF g, T
  <2>2. Recursion(T, <<>>, n, g)
    BY <1>1, <1>2, <2>1, RecursionExists, Zenon
  <2> QED
    BY <2>2 DEF Recursion
<1> HIDE DEF T
<1>4. ASSUME NEW k \in 1 .. n PROVE f[k] = AddSymbol(f[k - 1], in[k - 1])
  <2>1. k - 1 \in 0 .. n
    BY <1>1
  <2>2. <<k, f[k - 1]>> \in (1 .. n) \X T
    BY <2>1
  <2>3. g[<<k, f[k - 1]>>] = AddSymbol(f[k - 1], in[k - 1])
    BY <2>2
  <2> QED
    BY <2>3, <1>3
<1>5. Def(f)
  <2>1. ASSUME NEW k \in 0 .. n
        PROVE  f[k] = IF k = 0 THEN <<>> ELSE AddSymbol(f[k - 1], in[k - 1])
    <3>1. k # 0 => k \in 1 .. n
      BY <1>1
    <3> QED
      BY <3>1, <1>3, <1>4
  <2> QED
    BY <2>1
<1> DEFINE s == CHOOSE x : Def(x)
<1>6. Def(s)
  <2> HIDE DEF Def
  <2> QED
    BY <1>5
<1>7. SerialRuns = s[n]
  BY DEF SerialRuns
<1> HIDE DEF s
<1>8. \A k \in 0 .. n : s[k] = IF k = 0 THEN <<>> ELSE AddSymbol(s[k - 1], in[k - 1])
  BY <1>6, Zenon
<1>9. s[0] = <<>> /\ \A k \in 1 .. n : s[k] = AddSymbol(s[k - 1], in[k - 1])
  <2>1. 0 \in 0 .. n /\ \A k \in 1 .. n : k \in 0 .. n /\ k # 0
    BY <1>1
  <2> QED
    BY <2>1, <1>8, Zenon
<1> DEFINE Bad == {k \in 1 .. n : ~ Shape(s[k], k)}
<1>10. Bad = {}
  <2> SUFFICES ASSUME Bad # {} PROVE FALSE
    OBVIOUS
  <2>1. PICK k \in Bad : \A j \in Bad : k <= j
    <3>1. Bad \in SUBSET Nat
      BY <1>1
    <3> QED
      BY <3>1, LeastExists
  <2>2. k \in 1 .. n /\ ~ Shape(s[k], k) /\ s[k] = AddSymbol(s[k - 1], in[k - 1])
    BY <1>9
  <2>3. k # 1
    <3> SUFFICES ASSUME k = 1 PROVE FALSE
      OBVIOUS
    <3>1. k - 1 = 0
      OBVIOUS
    <3>2. s[1] = AddSymbol(<<>>, in[0])
      BY <2>2, <3>1, <1>9
    <3> QED
      BY <2>2, <3>2, ShapeFirst
  <2>4. k \in 2 .. n /\ k - 1 \in 1 .. n /\ ~ (k <= k - 1)
    BY <2>2, <2>3, <1>1
  <2>5. k - 1 \notin Bad
    <3> HIDE DEF Bad
    <3> QED
      BY <2>1, <2>4
  <2>6. Shape(s[k - 1], k - 1)
    BY <2>4, <2>5
  <2> QED
    BY <2>2, <2>4, <2>6, ShapeStep
<1>11. n \in 1 .. n
  BY <1>1
<1> QED
  BY <1>7, <1>10, <1>11
-----------------------------------------------------------------------------
(* Compaction.                                                             *)

\* What is written to a cell is where its run begins.
LEMMA CompactedIs ==
    ASSUME InputOK, MaxN \in Nat, NEW id \in 0 .. n - 1, NEW p \in Compacted(RunsTo, id)
    PROVE  p[1] \in 0 .. R /\ p[2] = Start(p[1]) /\ p[2] \in 0 .. n /\ p = <<p[1], p[2]>>
<1>1. n \in Nat \ {0} /\ R \in 1 .. n /\ id \in Nat
  BY RIs DEF InputOK
<1>2. CASE id = n - 1 /\ p = <<RunsTo[id], id + 1>>
  <2>1. p[1] = R /\ p[2] = n
    BY <1>1, <1>2 DEF R
  <2> QED
    BY <1>1, <1>2, <2>1, StartOfEnd
<1>3. CASE id = 0 /\ p = <<0, 0>>
  BY <1>1, <1>3, StartOfFirst
<1>4. CASE id # 0 /\ RunsTo[id] # RunsTo[id - 1] /\ p = <<RunsTo[id] - 1, id>>
  <2>1. id \in 1 .. n - 1 /\ id - 1 \in 0 .. n - 1
    BY <1>1, <1>4
  <2>2. RunsTo[id] = RunsTo[id - 1] + MaskBit(id) /\ MaskBit(id) \in {0, 1} /\ RunsTo[id - 1] \in Nat
    BY <2>1, RunsToIs
  <2>3. MaskBit(id) = 1
    BY <2>2, <1>4
  <2>4. RunsTo[id] - 1 \in 0 .. R - 1 /\ Start(RunsTo[id] - 1) = id
    BY <2>3, StartUnique
  <2>5. p[1] = RunsTo[id] - 1 /\ p[2] = id
    BY <1>4
  <2> QED
    BY <1>1, <1>4, <2>4, <2>5
<1> QED
  BY <1>2, <1>3, <1>4 DEF Compacted

\* Every cell is written, each by the position where its run begins.
LEMMA CompactedAll ==
    ASSUME InputOK, MaxN \in Nat
    PROVE  /\ <<R, n>> \in Compacted(RunsTo, n - 1)
           /\ \A c \in 0 .. R - 1 : <<c, Start(c)>> \in Compacted(RunsTo, Start(c))
<1>1. n \in Nat \ {0} /\ R \in 1 .. n
  BY RIs DEF InputOK
<1>2. <<R, n>> \in Compacted(RunsTo, n - 1)
  <2>1. (n - 1) + 1 = n
    BY <1>1
  <2> QED
    BY <2>1 DEF Compacted, R
<1>3. ASSUME NEW c \in 0 .. R - 1 PROVE <<c, Start(c)>> \in Compacted(RunsTo, Start(c))
  <2> DEFINE id == Start(c)
  <2>1. id \in 0 .. n - 1 /\ MaskBit(id) = 1 /\ RunsTo[id] = c + 1
    BY StartIs
  <2> HIDE DEF id
  <2>2. CASE id = 0
    <3>1. c = 0
      BY <2>1, <2>2, <1>1, RunsToIs
    <3> QED
      BY <2>2, <3>1 DEF Compacted, id
  <2>3. CASE id # 0
    <3>1. id \in 1 .. n - 1 /\ id - 1 \in 0 .. n - 1
      BY <1>1, <2>1, <2>3
    <3>2. RunsTo[id] = RunsTo[id - 1] + 1 /\ RunsTo[id - 1] \in Nat
      BY <2>1, <3>1, RunsToIs
    <3>3. RunsTo[id] # RunsTo[id - 1] /\ RunsTo[id] - 1 = c
      BY <1>1, <2>1, <3>2
    <3>4. <<c, id>> \in Compacted(RunsTo, id)
      BY <2>3, <3>3, Zenon DEF Compacted
    <3> QED
      BY <3>4 DEF id
  <2> QED
    BY <2>2, <2>3
<1> QED
  BY <1>2, <1>3
-----------------------------------------------------------------------------
(* The steps.                                                              *)

LEMMA WholeGroups ==
    ASSUME NEW k \in Nat, NEW g \in Nat \ {0}, k % g = 0
    PROVE  (k \div g) * g = k
OBVIOUS

\* Every position is in the share of some work-item.
LEMMA ShareCovers ==
    ASSUME TypeOK
    PROVE  /\ \A w \in Items : Share(w) \subseteq 0 .. n - 1
           /\ \A id \in 0 .. n - 1 : \E w \in Items : id \in Share(w)
<1>1. /\ n \in Nat \ {0} /\ MaxN \in Nat /\ n <= MaxN
      /\ Threads \in Nat \ {0} /\ LocalSize \in Nat \ {0}
  BY TypeInput, RleAssumption DEF InputOK
<1>2. CASE impl = "opencl"
  <2>1. n % LocalSize = 0
    BY <1>2 DEF TypeOK, Sizes
  <2>4. GlobalSize = n
    BY <1>1, <2>1, WholeGroups DEF GlobalSize
  <2>5. n \div GlobalSize = 1
    <3>1. n \div n = 1
      BY <1>1
    <3> QED
      BY <2>4, <3>1
  <2>6. ASSUME NEW w \in Items PROVE BlockOf(w) = IF w < n THEN {w} ELSE {}
    <3>1. w \in Nat /\ 1 * w = w /\ 1 * (w + 1) - 1 = w
      BY <1>1 DEF Items
    <3>2. BlockOf(w) = IF w < n THEN 1 * w .. 1 * (w + 1) - 1 ELSE {}
      BY <2>4, <2>5 DEF BlockOf
    <3>3. w .. w = {w}
      BY <3>1
    <3> QED
      BY <3>1, <3>2, <3>3
  <2>7. \A w \in Items : Share(w) = IF w < n THEN {w} ELSE {}
    BY <1>2, <2>6 DEF Share
  <2>8. \A id \in 0 .. n - 1 : id \in Items /\ id < n
    BY <1>1 DEF Items
  <2>9. \A w \in Items : w \in Nat
    BY <1>1 DEF Items
  <2> QED
    BY <2>7, <2>8, <2>9, <1>1
<1>3. CASE impl # "opencl"
  <2>1. \A w \in Items : Share(w) = GridStride(w, n)
    BY <1>3 DEF Share
  <2>2. \A w \in Items : GridStride(w, n) \subseteq 0 .. n - 1
    BY DEF GridStride
  <2>3. ASSUME NEW id \in 0 .. n - 1 PROVE \E w \in Items : id \in Share(w)
    <3>1. id % Threads \in Items /\ id % Threads < Threads
      BY <1>1 DEF Items
    <3>2. id \in GridStride(id % Threads, n)
      BY <3>1 DEF GridStride
    <3> QED
      BY <2>1, <3>1, <3>2
  <2> QED
    BY <2>1, <2>2, <2>3
<1> QED
  BY <1>2, <1>3

\* Every run is in the share of some work-item.
LEMMA RunShareCovers ==
    ASSUME TypeOK, totalRuns \in 1 .. n
    PROVE  /\ \A w \in Items : RunShare(w) \subseteq 0 .. totalRuns - 1
           /\ \A c \in 0 .. totalRuns - 1 : \E w \in Items : c \in RunShare(w)
<1>1. /\ n \in Nat \ {0} /\ MaxN \in Nat /\ n <= MaxN
      /\ Threads \in Nat \ {0} /\ LocalSize \in Nat \ {0}
  BY TypeInput, RleAssumption DEF InputOK
<1>2. CASE impl = "opencl"
  <2>1. \A w \in Items : RunShare(w) = {w} \cap 0 .. totalRuns - 1 \cap 0 .. GlobalSize - 1
    BY <1>2 DEF RunShare
  <2>2. n % LocalSize = 0
    BY <1>2 DEF TypeOK, Sizes
  <2>4. GlobalSize = n
    BY <1>1, <2>2, WholeGroups DEF GlobalSize
  <2>5. \A c \in 0 .. totalRuns - 1 : c \in Items /\ c \in 0 .. n - 1
    BY <1>1 DEF Items
  <2> QED
    BY <2>1, <2>4, <2>5
<1>3. CASE impl # "opencl"
  <2>1. \A w \in Items : RunShare(w) = GridStride(w, totalRuns)
    BY <1>3 DEF RunShare
  <2>2. \A w \in Items : GridStride(w, totalRuns) \subseteq 0 .. totalRuns - 1
    BY DEF GridStride
  <2>3. ASSUME NEW c \in 0 .. totalRuns - 1 PROVE \E w \in Items : c \in RunShare(w)
    <3>1. c % Threads \in Items /\ c % Threads < Threads
      BY <1>1 DEF Items
    <3>2. c \in GridStride(c % Threads, totalRuns)
      BY <3>1 DEF GridStride
    <3> QED
      BY <2>1, <3>1, <3>2
  <2> QED
    BY <2>1, <2>2, <2>3
<1> QED
  BY <1>2, <1>3

\* What depends on the input alone stays with it.
LEMMA SameInput ==
    ASSUME UNCHANGED <<impl, n, in>>
    PROVE  /\ RunsTo' = RunsTo /\ R' = R /\ (CompactCells)' = CompactCells
           /\ \A c : (Start(c))' = Start(c)
           /\ \A id : (MaskBit(id))' = MaskBit(id)
           /\ \A id : (Compacted(RunsTo, id))' = Compacted(RunsTo, id)
<1>1. RunsTo' = RunsTo
  BY DEF RunsTo, PrefixSum, MaskBit
<1>2. R' = R
  BY <1>1 DEF R
<1>3. \A id : (MaskBit(id))' = MaskBit(id)
  BY DEF MaskBit
<1>4. \A c : (Start(c))' = Start(c)
  BY <1>1, <1>2, <1>3 DEF Start, MaskBit
<1>5. \A id : (Compacted(RunsTo, id))' = Compacted(RunsTo, id)
  BY <1>1 DEF Compacted
<1>6. (CompactCells)' = CompactCells
  BY DEF CompactCells
<1> QED
  BY <1>1, <1>2, <1>3, <1>4, <1>5, <1>6

LEMMA TakesFacts ==
    ASSUME TypeOK, UNCHANGED n, NEW w \in Items, NEW id, Takes(w, id)
    PROVE  /\ id \in 0 .. n - 1
           /\ todo' \in [Items -> SUBSET (0 .. n - 1)]
           /\ \A k : Pending(k) /\ k # id => (Pending(k))'
           /\ \A v \in Items : todo'[v] \subseteq todo[v]
<1>1. todo \in [Items -> SUBSET (0 .. n - 1)]
  BY DEF TypeOK
<1>2. id \in todo[w] /\ todo' = [todo EXCEPT ![w] = todo[w] \ {id}]
  BY DEF Takes
<1>3. todo' \in [Items -> SUBSET (0 .. n - 1)]
  BY <1>1, <1>2
<1>4. \A v \in Items : todo'[v] = IF v = w THEN todo[v] \ {id} ELSE todo[v]
  BY <1>1, <1>2
<1>5. ASSUME NEW k, Pending(k), k # id PROVE (Pending(k))'
  <2>1. PICK v \in Items : k \in todo[v]
    BY <1>5 DEF Pending
  <2>2. k \in todo'[v]
    BY <1>4, <1>5, <2>1
  <2>3. Items' = Items
    BY DEF Items
  <2> QED
    BY <2>2, <2>3 DEF Pending
<1> QED
  BY <1>1, <1>2, <1>3, <1>4, <1>5

LEMMA InitIInv == Init => IInv
<1> SUFFICES ASSUME Init PROVE IInv
  OBVIOUS
<1> USE DEF Init
<1>1. MaxN \in Nat \ {0} /\ Rounds \in Nat \ {0}
  BY RleAssumption
<1>2. TypeOK
  <2>1. todo \in [Items -> SUBSET (0 .. n - 1)]
    OBVIOUS
  <2>2. Fresh \in [Cells -> {Unset}]
    BY DEF Fresh
  <2>3. out \in [Cells -> (Symbols \cup {Unset}) \X Int]
    BY DEF Unset
  <2> QED
    BY <1>1, <2>1, <2>2, <2>3 DEF TypeOK
<1>3. IdleOutside /\ MaskRight /\ ScanRight /\ CompactRight /\ LostCell
  BY DEF IdleOutside, MaskRight, ScanRight, CompactRight, LostCell, Kernels, Finished
<1>4. ScatterRight /\ DoneRight /\ AcceptedIsLossless
  BY DEF ScatterRight, DoneRight, AcceptedIsLossless
<1>5. CountsKept
  <2>1. 0 .. totalRuns - 1 = {}
    BY DEF Unset
  <2> QED
    BY <2>1 DEF CountsKept
<1> QED
  BY <1>2, <1>3, <1>4, <1>5 DEF IInv

\* The launch of the mask kernel.
LEMMA StartMaskStep ==
    ASSUME IInv, StartMaskCuda \/ StartMaskOpencl
    PROVE  IInv'
<1>1. /\ TypeOK /\ phase' = "mask" /\ todo' = [w \in Items |-> Share(w)]
      /\ impl' = impl /\ n' = n /\ in' = in /\ round' = round
  BY DEF IInv, StartMaskCuda, StartMaskOpencl, Launch, progVars
<1>2. n \in 1 .. MaxN /\ MaxN \in Nat
  BY <1>1, TypeInput DEF InputOK
<1>3. \/ UNCHANGED <<mask, scanned, compacted, totalRuns, out>>
      \/ /\ mask' = Fresh /\ scanned' = Fresh /\ compacted' = Fresh
         /\ totalRuns' = Unset /\ out' = [c \in Cells |-> <<Unset, Unset>>]
  BY DEF StartMaskCuda, StartMaskOpencl, buffers
<1>4. TypeOK'
  <2>1. todo' \in [Items -> SUBSET (0 .. n - 1)]
    BY <1>1, ShareCovers
  <2>2. Fresh \in [Cells -> {Unset}]
    BY DEF Fresh
  <2>3. out' \in [Cells -> (Symbols \cup {Unset}) \X Int]
    BY <1>1, <1>3 DEF TypeOK, Unset
  <2>4. /\ mask' \in [Cells -> {Unset, 0, 1}]
        /\ scanned' \in [Cells -> {Unset} \cup 1 .. MaxN]
        /\ compacted' \in [Cells -> {Unset} \cup 0 .. MaxN]
        /\ totalRuns' \in {Unset} \cup 1 .. MaxN
    BY <1>1, <1>3, <2>2 DEF TypeOK
  <2> QED
    BY <1>1, <2>1, <2>3, <2>4 DEF TypeOK, Items, Cells, Sizes
<1>5. MaskRight'
  <2>1. ASSUME NEW id \in 0 .. n - 1 PROVE \E w \in Items : id \in todo'[w]
    BY <1>1, ShareCovers
  <2> QED
    BY <1>1, <2>1 DEF MaskRight, Pending, Items
<1>6. LostCell'
  <2>1. CASE StartMaskCuda
    BY <1>1, <2>1 DEF StartMaskCuda, LostCell
  <2>2. CASE StartMaskOpencl
    <3>1. n \in Cells /\ compacted' = Fresh
      BY <1>2, <2>2 DEF StartMaskOpencl, Cells
    <3>2. compacted'[n] = Unset
      BY <3>1 DEF Fresh
    <3> QED
      BY <1>1, <3>2 DEF LostCell
  <2> QED
    BY <2>1, <2>2
<1>7. IdleOutside' /\ ScanRight' /\ CompactRight'
  BY <1>1 DEF IdleOutside, ScanRight, CompactRight, Kernels
<1>8. ScatterRight' /\ DoneRight' /\ AcceptedIsLossless' /\ CountsKept'
  BY <1>1 DEF ScatterRight, DoneRight, AcceptedIsLossless, CountsKept
<1> QED
  BY <1>4, <1>5, <1>6, <1>7, <1>8 DEF IInv

LEMMA MaskStepStep ==
    ASSUME IInv, NEW w \in Items, NEW id \in Cells, MaskStep(w, id)
    PROVE  IInv'
<1>1. /\ TypeOK /\ MaskRight /\ LostCell /\ Takes(w, id)
      /\ phase = "mask" /\ phase' = "mask" /\ mask' = [mask EXCEPT ![id] = MaskBit(id)]
      /\ UNCHANGED <<impl, n, in, round, scanned, compacted, totalRuns, out>>
  BY DEF IInv, MaskStep, progVars
<1>2. InputOK /\ MaxN \in Nat
  BY <1>1, TypeInput
<1>3. /\ id \in 0 .. n - 1 /\ todo' \in [Items -> SUBSET (0 .. n - 1)]
      /\ \A k : Pending(k) /\ k # id => (Pending(k))'
  BY <1>1, TakesFacts
<1>4. MaskBit(id) \in {0, 1}
  BY <1>2, <1>3, RunsToIs
<1>5. TypeOK'
  <2>1. mask' \in [Cells -> {Unset, 0, 1}]
    BY <1>1, <1>4 DEF TypeOK
  <2> QED
    BY <1>1, <1>3, <2>1 DEF TypeOK, Items, Cells, Sizes
<1>6. MaskRight'
  <2> SUFFICES ASSUME NEW k \in 0 .. n - 1 PROVE (Pending(k))' \/ mask'[k] = (MaskBit(k))'
    BY <1>1 DEF MaskRight
  <2>1. (MaskBit(k))' = MaskBit(k)
    BY <1>1, SameInput
  <2>2. k \in Cells
    BY <1>2 DEF InputOK, Cells
  <2>3. CASE k = id
    BY <1>1, <2>1, <2>2, <2>3 DEF TypeOK
  <2>4. CASE k # id
    <3>1. mask'[k] = mask[k]
      BY <1>1, <2>2, <2>4 DEF TypeOK
    <3> QED
      BY <1>1, <1>3, <2>1, <2>4, <3>1 DEF MaskRight
  <2> QED
    BY <2>3, <2>4
<1>7. LostCell'
  BY <1>1 DEF LostCell
<1>8. IdleOutside' /\ ScanRight' /\ CompactRight'
  BY <1>1 DEF IdleOutside, ScanRight, CompactRight, Kernels
<1>9. ScatterRight' /\ DoneRight' /\ AcceptedIsLossless' /\ CountsKept'
  BY <1>1 DEF ScatterRight, DoneRight, AcceptedIsLossless, CountsKept
<1> QED
  BY <1>5, <1>6, <1>7, <1>8, <1>9 DEF IInv

LEMMA ScanStep ==
    ASSUME IInv, Scan
    PROVE  IInv'
<1>1. /\ TypeOK /\ MaskRight /\ LostCell /\ Finished
      /\ phase = "mask" /\ phase' = "compact" /\ todo' = [w \in Items |-> Share(w)]
      /\ scanned' = [c \in Cells |-> IF c < n THEN PrefixSum(mask)[c] ELSE scanned[c]]
      /\ UNCHANGED <<impl, n, in, round, mask, compacted, totalRuns, out>>
  BY DEF IInv, Scan, Launch, progVars
<1>2. InputOK /\ MaxN \in Nat /\ n \in 1 .. MaxN
  BY <1>1, TypeInput DEF InputOK
<1>3. \A k \in 0 .. n - 1 : mask[k] = MaskBit(k)
  BY <1>1 DEF MaskRight, Pending, Finished
<1>4. \A k \in 0 .. n - 1 : PrefixSum(mask)[k] = RunsTo[k]
  BY <1>2, <1>3, SumOfMask
<1>5. \A k \in 0 .. n - 1 : k \in Cells /\ k < n /\ RunsTo[k] \in 1 .. MaxN
  <2> SUFFICES ASSUME NEW k \in 0 .. n - 1
               PROVE  k \in Cells /\ k < n /\ RunsTo[k] \in 1 .. MaxN
    OBVIOUS
  <2>1. RunsTo[k] \in Nat /\ 1 <= RunsTo[k] /\ RunsTo[k] <= k + 1
    BY <1>2, RunsToIs, RunsToBounds
  <2> QED
    BY <1>2, <2>1 DEF Cells
<1>6. TypeOK'
  <2>1. ASSUME NEW c \in Cells PROVE scanned'[c] \in {Unset} \cup 1 .. MaxN
    <3>1. CASE c < n
      <4>1. c \in 0 .. n - 1
        BY <1>2, <3>1 DEF Cells
      <4>2. scanned'[c] = RunsTo[c]
        BY <1>1, <1>4, <3>1, <4>1
      <4> QED
        BY <1>5, <4>1, <4>2
    <3>2. CASE ~ (c < n)
      <4>1. scanned'[c] = scanned[c]
        BY <1>1, <3>2
      <4> QED
        BY <1>1, <4>1 DEF TypeOK
    <3> QED
      BY <3>1, <3>2
  <2>2. scanned' \in [Cells -> {Unset} \cup 1 .. MaxN]
    BY <1>1, <2>1
  <2>3. todo' \in [Items -> SUBSET (0 .. n - 1)]
    BY <1>1, ShareCovers
  <2> QED
    BY <1>1, <2>2, <2>3 DEF TypeOK, Items, Cells, Sizes
<1>7. ScanRight'
  <2>1. RunsTo' = RunsTo
    BY <1>1, SameInput
  <2>2. ASSUME NEW k \in 0 .. n - 1 PROVE scanned'[k] = RunsTo[k]
    BY <1>1, <1>4, <1>5
  <2> QED
    BY <1>1, <2>1, <2>2 DEF ScanRight
<1>8. CompactRight'
  <2>1. ASSUME NEW k \in 0 .. n - 1 PROVE (Pending(k))'
    <3>1. \E w \in Items : k \in todo'[w]
      BY <1>1, ShareCovers
    <3> QED
      BY <3>1 DEF Pending, Items
  <2> QED
    BY <1>1, <2>1 DEF CompactRight
<1>9. LostCell'
  BY <1>1 DEF LostCell, Kernels
<1>10. IdleOutside' /\ MaskRight'
  BY <1>1 DEF IdleOutside, MaskRight, Kernels
<1>11. ScatterRight' /\ DoneRight' /\ AcceptedIsLossless' /\ CountsKept'
  BY <1>1 DEF ScatterRight, DoneRight, AcceptedIsLossless, CountsKept
<1> QED
  BY <1>6, <1>7, <1>8, <1>9, <1>10, <1>11 DEF IInv

\* The cells one position stores: each keeps what it has or gets what is right.
LEMMA CompactStepStep ==
    ASSUME IInv, NEW w \in Items, NEW id \in Cells, CompactStep(w, id)
    PROVE  IInv'
<1>1. /\ TypeOK /\ ScanRight /\ CompactRight /\ LostCell /\ Takes(w, id)
      /\ phase = "compact" /\ phase' = "compact"
      /\ totalRuns' = IF id = n - 1 THEN scanned[id] ELSE totalRuns
      /\ UNCHANGED <<impl, n, in, round, mask, scanned, out>>
  BY DEF IInv, CompactStep, progVars
<1>2. InputOK /\ MaxN \in Nat /\ n \in 1 .. MaxN /\ R \in 1 .. n
  BY <1>1, TypeInput, RIs DEF InputOK
<1>3. /\ id \in 0 .. n - 1 /\ todo' \in [Items -> SUBSET (0 .. n - 1)]
      /\ \A k : Pending(k) /\ k # id => (Pending(k))'
  BY <1>1, TakesFacts
<1>4. Compacted(scanned, id) = Compacted(RunsTo, id)
  <2>1. scanned[id] = RunsTo[id]
    BY <1>1, <1>3 DEF ScanRight
  <2>2. id # 0 => scanned[id - 1] = RunsTo[id - 1]
    <3>1. id # 0 => id - 1 \in 0 .. n - 1
      BY <1>2, <1>3
    <3> QED
      BY <3>1, <1>1 DEF ScanRight
  <2> QED
    BY <2>1, <2>2 DEF Compacted
<1>5. PICK stored \in SUBSET Compacted(RunsTo, id) :
         /\ \A p \in Compacted(RunsTo, id) : p[1] < CompactCells => p \in stored
         /\ compacted' = [c \in Cells |->
                            IF \E p \in stored : p[1] = c
                            THEN (CHOOSE p \in stored : p[1] = c)[2]
                            ELSE compacted[c]]
  BY <1>4, Zenon DEF CompactStep
<1>6. \A p \in Compacted(RunsTo, id) :
         p[1] \in 0 .. R /\ p[1] \in Cells /\ p[2] = Start(p[1]) /\ p[2] \in 0 .. n
  <2>1. \A c \in 0 .. R : c \in Cells
    BY <1>2 DEF Cells
  <2> QED
    BY <2>1, <1>2, <1>3, CompactedIs
<1>7. ASSUME NEW c \in Cells, \E p \in stored : p[1] = c
      PROVE  c \in 0 .. R /\ compacted'[c] = Start(c) /\ Start(c) \in 0 .. n
  <2> DEFINE q == CHOOSE p \in stored : p[1] = c
  <2>1. q \in stored /\ q[1] = c
    BY <1>7
  <2>2. compacted'[c] = q[2]
    BY <1>5, <1>7
  <2> HIDE DEF q
  <2> QED
    BY <2>1, <2>2, <1>6
<1>8. ASSUME NEW c \in Cells, ~ \E p \in stored : p[1] = c
      PROVE  compacted'[c] = compacted[c]
  BY <1>5, <1>8
<1>9. ASSUME NEW c \in 0 .. R, compacted[c] = Start(c)
      PROVE  compacted'[c] = Start(c)
  <2>1. c \in Cells
    BY <1>2 DEF Cells
  <2> QED
    BY <2>1, <1>7, <1>8, <1>9
<1>10. TypeOK'
  <2>1. compacted' \in [Cells -> {Unset} \cup 0 .. MaxN]
    <3>1. ASSUME NEW c \in Cells PROVE compacted'[c] \in {Unset} \cup 0 .. MaxN
      <4>1. \A k \in 0 .. n : k \in 0 .. MaxN
        BY <1>2
      <4>2. compacted[c] \in {Unset} \cup 0 .. MaxN
        BY <1>1 DEF TypeOK
      <4>3. CASE \E p \in stored : p[1] = c
        <5>1. Start(c) \in 0 .. n /\ compacted'[c] = Start(c)
          BY <4>3, <1>7
        <5> QED
          BY <4>1, <5>1
      <4>4. CASE ~ \E p \in stored : p[1] = c
        BY <4>2, <4>4, <1>8
      <4> QED
        BY <4>3, <4>4
    <3>2. compacted' = [c \in Cells |-> compacted'[c]]
      BY <1>5
    <3> QED
      BY <3>1, <3>2
  <2>2. totalRuns' \in {Unset} \cup 1 .. MaxN
    <3>1. scanned[id] \in 1 .. MaxN
      <4>1. scanned[id] = RunsTo[id]
        BY <1>1, <1>3 DEF ScanRight
      <4>2. RunsTo[id] \in Nat /\ 1 <= RunsTo[id] /\ RunsTo[id] <= id + 1
        BY <1>2, <1>3, RunsToIs, RunsToBounds
      <4> QED
        BY <1>2, <1>3, <4>1, <4>2
    <3> QED
      BY <1>1, <3>1 DEF TypeOK
  <2> QED
    BY <1>1, <1>3, <2>1, <2>2 DEF TypeOK, Items, Cells, Sizes
<1>11. CompactRight'
  <2>1. /\ RunsTo' = RunsTo /\ R' = R /\ (CompactCells)' = CompactCells
        /\ \A k : (Compacted(RunsTo, k))' = Compacted(RunsTo, k)
    BY <1>1, SameInput
  <2> SUFFICES ASSUME NEW k \in 0 .. n - 1 PROVE (Pending(k))' \/ (Stored(k))'
    BY <1>1 DEF CompactRight
  <2>2. n' = n
    BY <1>1
  <2>3. CASE k = id
    <3>1. k = n - 1 => totalRuns' = R
      <4>1. scanned[id] = RunsTo[id]
        BY <1>1, <1>3 DEF ScanRight
      <4> QED
        BY <1>1, <2>3, <4>1 DEF R
    <3>2. ASSUME NEW p \in Compacted(RunsTo, k), p[1] < CompactCells
          PROVE  compacted'[p[1]] = p[2]
      <4>1. p \in stored /\ p[1] \in Cells /\ p[2] = Start(p[1])
        BY <1>5, <1>6, <2>3, <3>2
      <4> QED
        BY <4>1, <1>7
    <3> QED
      BY <2>1, <2>2, <3>1, <3>2 DEF Stored
  <2>4. CASE k # id
    <3>1. CASE Pending(k)
      BY <1>3, <2>4, <3>1
    <3>2. CASE Stored(k)
      <4>1. k = n - 1 => totalRuns' = R
        BY <1>1, <2>4, <3>2 DEF Stored
      <4>2. ASSUME NEW p \in Compacted(RunsTo, k), p[1] < CompactCells
            PROVE  compacted'[p[1]] = p[2]
        <5>1. compacted[p[1]] = p[2]
          BY <3>2, <4>2 DEF Stored
        <5>2. p[1] \in 0 .. R /\ p[2] = Start(p[1])
          BY <1>2, CompactedIs
        <5> QED
          BY <5>1, <5>2, <1>9
      <4> QED
        BY <2>1, <2>2, <4>1, <4>2 DEF Stored
    <3> QED
      BY <1>1, <3>1, <3>2 DEF CompactRight
  <2> QED
    BY <2>3, <2>4
<1>12. LostCell'
  <2> SUFFICES ASSUME impl = "opencl" PROVE compacted'[n] \in {Unset, n}
    BY <1>1 DEF LostCell
  <2>1. n \in Cells /\ compacted[n] \in {Unset, n}
    BY <1>1, <1>2 DEF LostCell, Kernels, Cells
  <2>2. CASE \E p \in stored : p[1] = n
    <3>1. n \in 0 .. R /\ compacted'[n] = Start(n)
      BY <1>7, <2>1, <2>2
    <3>2. n = R
      BY <1>2, <3>1
    <3> QED
      BY <3>1, <3>2, StartOfEnd
  <2>3. CASE ~ \E p \in stored : p[1] = n
    BY <1>8, <2>1, <2>3
  <2> QED
    BY <2>2, <2>3
<1>13. ScanRight'
  <2>1. RunsTo' = RunsTo
    BY <1>1, SameInput
  <2> QED
    BY <1>1, <2>1 DEF ScanRight
<1>14. IdleOutside' /\ MaskRight'
  BY <1>1 DEF IdleOutside, MaskRight, Kernels
<1>15. ScatterRight' /\ DoneRight' /\ AcceptedIsLossless' /\ CountsKept'
  BY <1>1 DEF ScatterRight, DoneRight, AcceptedIsLossless, CountsKept
<1> QED
  BY <1>10, <1>11, <1>12, <1>13, <1>14, <1>15 DEF IInv

LEMMA StartScatterStep ==
    ASSUME IInv, StartScatter
    PROVE  IInv'
<1>1. /\ TypeOK /\ CompactRight /\ LostCell /\ Finished
      /\ phase = "compact" /\ phase' = "scatter" /\ todo' = [w \in Items |-> RunShare(w)]
      /\ UNCHANGED <<impl, n, in, round, mask, scanned, compacted, totalRuns, out>>
  BY DEF IInv, StartScatter, Launch, progVars, buffers
<1>2. InputOK /\ MaxN \in Nat /\ n \in 1 .. MaxN /\ R \in 1 .. n /\ n - 1 \in 0 .. n - 1
  BY <1>1, TypeInput, RIs DEF InputOK
<1>3. \A k \in 0 .. n - 1 : Stored(k)
  BY <1>1 DEF CompactRight, Pending, Finished
<1>4. totalRuns = R
  BY <1>2, <1>3 DEF Stored
<1>5. ASSUME NEW c \in 0 .. R, c < CompactCells PROVE compacted[c] = Start(c)
  <2>1. CASE c = R
    <3>1. <<R, n>> \in Compacted(RunsTo, n - 1)
      BY <1>2, CompactedAll
    <3>2. compacted[<<R, n>>[1]] = <<R, n>>[2]
      BY <1>2, <1>3, <1>5, <2>1, <3>1 DEF Stored
    <3> QED
      BY <2>1, <3>2, StartOfEnd
  <2>2. CASE c # R
    <3>1. c \in 0 .. R - 1
      BY <1>2, <2>2
    <3>2. Start(c) \in 0 .. n - 1 /\ <<c, Start(c)>> \in Compacted(RunsTo, Start(c))
      BY <1>2, <3>1, StartIs, CompactedAll
    <3>3. compacted[<<c, Start(c)>>[1]] = <<c, Start(c)>>[2]
      BY <1>3, <1>5, <3>2 DEF Stored
    <3> QED
      BY <3>3
  <2> QED
    BY <2>1, <2>2
<1>6. /\ \A w \in Items : RunShare(w) \subseteq 0 .. R - 1
      /\ \A c \in 0 .. R - 1 : \E w \in Items : c \in RunShare(w)
  BY <1>1, <1>2, <1>4, RunShareCovers
<1>7. TypeOK'
  <2>1. \A c \in 0 .. R - 1 : c \in 0 .. n - 1
    BY <1>2
  <2>2. todo' \in [Items -> SUBSET (0 .. n - 1)]
    BY <1>1, <1>6, <2>1
  <2> QED
    BY <1>1, <2>2 DEF TypeOK, Items, Cells, Sizes
<1>8. ScatterRight'
  <2>1. R' = R /\ (CompactCells)' = CompactCells /\ \A c : (Start(c))' = Start(c)
    BY <1>1, SameInput
  <2>2. ASSUME NEW c \in 0 .. R - 1 PROVE (Pending(c))'
    <3>1. \E w \in Items : c \in todo'[w]
      BY <1>1, <1>6
    <3> QED
      BY <3>1 DEF Pending, Items
  <2>3. \A w \in Items' : todo'[w] \subseteq 0 .. R - 1
    BY <1>1, <1>6 DEF Items
  <2>4. \A c \in 0 .. R : c < CompactCells => compacted'[c] = Start(c)
    BY <1>1, <1>5
  <2>5. totalRuns' = R
    BY <1>1, <1>4
  <2> QED
    BY <2>1, <2>2, <2>3, <2>4, <2>5 DEF ScatterRight
<1>9. LostCell'
  BY <1>1 DEF LostCell, Kernels
<1>10. IdleOutside' /\ MaskRight' /\ ScanRight' /\ CompactRight'
  BY <1>1 DEF IdleOutside, MaskRight, ScanRight, CompactRight, Kernels
<1>11. DoneRight' /\ AcceptedIsLossless' /\ CountsKept'
  BY <1>1 DEF DoneRight, AcceptedIsLossless, CountsKept
<1> QED
  BY <1>7, <1>8, <1>9, <1>10, <1>11 DEF IInv

LEMMA ScatterStepStep ==
    ASSUME IInv, NEW w \in Items, NEW id \in Cells, ScatterStep(w, id)
    PROVE  IInv'
<1> DEFINE value(c) == <<in[compacted[c]], compacted[c + 1] - compacted[c]>>
<1>1. /\ TypeOK /\ ScatterRight /\ LostCell /\ Takes(w, id)
      /\ phase = "scatter" /\ phase' = "scatter"
      /\ out' = [out EXCEPT ![id] = value(id)]
      /\ UNCHANGED <<impl, n, in, round, mask, scanned, compacted, totalRuns>>
  BY DEF IInv, ScatterStep, progVars
<1>2. InputOK /\ MaxN \in Nat /\ n \in 1 .. MaxN /\ R \in 1 .. n
  BY <1>1, TypeInput, RIs DEF InputOK
<1>3. /\ todo' \in [Items -> SUBSET (0 .. n - 1)]
      /\ \A k : Pending(k) /\ k # id => (Pending(k))'
      /\ \A v \in Items : todo'[v] \subseteq todo[v]
  BY <1>1, TakesFacts
<1>4. id \in 0 .. R - 1
  BY <1>1 DEF ScatterRight, Takes
<1>5. value(id) \in (Symbols \cup {Unset}) \X Int
  <2>1. id \in 0 .. R /\ id < CompactCells /\ id + 1 \in Cells
    BY <1>2, <1>4 DEF CompactCells, Cells
  <2>2. compacted[id] = Start(id)
    BY <1>1, <2>1 DEF ScatterRight
  <2>3. compacted[id] \in 0 .. n - 1
    BY <1>2, <1>4, <2>2, StartIs
  <2>4. in[compacted[id]] \in Symbols
    BY <1>2, <2>3 DEF InputOK
  <2>5. compacted[id + 1] \in Int
    BY <1>1, <2>1 DEF TypeOK, Unset
  <2> QED
    BY <2>3, <2>4, <2>5
<1> HIDE DEF value
<1>6. TypeOK'
  <2>1. out' \in [Cells -> (Symbols \cup {Unset}) \X Int]
    BY <1>1, <1>5 DEF TypeOK
  <2> QED
    BY <1>1, <1>3, <2>1 DEF TypeOK, Items, Cells, Sizes
<1>7. ScatterRight'
  <2>1. R' = R /\ (CompactCells)' = CompactCells /\ \A c : (Start(c))' = Start(c)
    BY <1>1, SameInput
  <2>2. ASSUME NEW c \in 0 .. R - 1 PROVE (Pending(c))' \/ out'[c] = value(c)
    <3>1. c \in Cells
      BY <1>2 DEF Cells
    <3>2. CASE c = id
      BY <1>1, <3>1, <3>2 DEF TypeOK
    <3>3. CASE c # id
      <4>1. out'[c] = out[c]
        BY <1>1, <3>1, <3>3 DEF TypeOK
      <4>2. Pending(c) \/ out[c] = value(c)
        BY <1>1 DEF ScatterRight, value
      <4> QED
        BY <1>3, <3>3, <4>1, <4>2
    <3> QED
      BY <3>2, <3>3
  <2>3. \A c \in 0 .. R - 1 :
           (Pending(c))' \/ out'[c] = <<in'[compacted'[c]], compacted'[c + 1] - compacted'[c]>>
    BY <1>1, <2>2 DEF value
  <2>4. \A v \in Items' : todo'[v] \subseteq 0 .. R - 1
    BY <1>1, <1>3 DEF ScatterRight, Items
  <2>5. totalRuns' = R /\ \A c \in 0 .. R : c < CompactCells => compacted'[c] = Start(c)
    BY <1>1 DEF ScatterRight
  <2> QED
    BY <2>1, <2>3, <2>4, <2>5 DEF ScatterRight
<1>8. LostCell'
  BY <1>1 DEF LostCell
<1>9. IdleOutside' /\ MaskRight' /\ ScanRight' /\ CompactRight'
  BY <1>1 DEF IdleOutside, MaskRight, ScanRight, CompactRight, Kernels
<1>10. DoneRight' /\ AcceptedIsLossless' /\ CountsKept'
  BY <1>1 DEF DoneRight, AcceptedIsLossless, CountsKept
<1> QED
  BY <1>6, <1>7, <1>8, <1>9, <1>10 DEF IInv

\* After the last kernel the encoding is right, or the last run has lost its end.
LEMMA ScatterDone ==
    ASSUME IInv, phase = "scatter", Finished
    PROVE  EncodedTo(n) \/ (impl = "opencl" /\ R = n /\ EncodedTo(Unset))
<1>1. TypeOK /\ ScatterRight /\ LostCell
  BY DEF IInv
<1>2. InputOK /\ MaxN \in Nat /\ n \in 1 .. MaxN /\ R \in 1 .. n
  BY <1>1, TypeInput, RIs DEF InputOK
<1>3. totalRuns = R
  BY <1>1 DEF ScatterRight
<1>4. ASSUME NEW c \in 0 .. R - 1
      PROVE  out[c] = <<in[Start(c)], compacted[c + 1] - Start(c)>>
  <2>1. c \in 0 .. R /\ c < CompactCells
    BY <1>2 DEF CompactCells
  <2>2. compacted[c] = Start(c)
    BY <1>1, <2>1 DEF ScatterRight
  <2>3. ~ Pending(c)
    BY DEF Pending, Finished
  <2>4. out[c] = <<in[compacted[c]], compacted[c + 1] - compacted[c]>>
    BY <1>1, <2>3 DEF ScatterRight
  <2> QED
    BY <2>2, <2>4
<1>5. ASSUME NEW last, compacted[R] = last PROVE EncodedTo(last)
  <2>1. ASSUME NEW c \in 0 .. R - 1
        PROVE  compacted[c + 1] = IF c = R - 1 THEN last ELSE Start(c + 1)
    <3>1. CASE c = R - 1
      <4>1. c + 1 = R
        BY <1>2, <3>1
      <4> QED
        BY <1>5, <3>1, <4>1
    <3>2. CASE c # R - 1
      <4>1. c + 1 \in 0 .. R /\ c + 1 < CompactCells
        BY <1>2, <3>2 DEF CompactCells
      <4> QED
        BY <1>1, <3>2, <4>1 DEF ScatterRight
    <3> QED
      BY <3>1, <3>2
  <2>2. ASSUME NEW c \in 0 .. R - 1
        PROVE  out[c] = <<in[Start(c)],
                          (IF c = R - 1 THEN last ELSE Start(c + 1)) - Start(c)>>
    BY <1>4, <2>1
  <2> QED
    BY <1>3, <2>2 DEF EncodedTo
<1>6. CASE R < CompactCells
  <2>1. R \in 0 .. R
    BY <1>2
  <2>2. compacted[R] = n
    BY <1>1, <1>6, <2>1, StartOfEnd DEF ScatterRight
  <2> QED
    BY <1>5, <2>2
<1>7. CASE ~ (R < CompactCells)
  <2>1. impl = "opencl" /\ R = n
    BY <1>2, <1>7 DEF CompactCells
  <2>2. compacted[R] \in {Unset, n}
    BY <1>1, <2>1 DEF LostCell, Kernels
  <2> QED
    BY <1>5, <2>1, <2>2
<1> QED
  BY <1>6, <1>7

\* The results are read back, and the verification reads them.
LEMMA BackStep ==
    ASSUME IInv, ReadBack \/ CopyBack
    PROVE  IInv'
<1>1. /\ TypeOK /\ Finished /\ phase = "scatter" /\ phase' = "done"
      /\ UNCHANGED <<impl, n, in, round, todo, mask, scanned, compacted, totalRuns, out>>
  BY DEF IInv, ReadBack, CopyBack, progVars, buffers
<1>2. TypeOK'
  BY <1>1 DEF TypeOK, Items, Cells, Sizes
<1>3. DoneRight'
  <2>1. EncodedTo(n) \/ (impl = "opencl" /\ R = n /\ EncodedTo(Unset))
    BY <1>1, ScatterDone
  <2>2. R' = R /\ \A c : (Start(c))' = Start(c)
    BY <1>1, SameInput
  <2>3. CASE EncodedTo(n)
    <3>1. (EncodedTo(n))'
      BY <1>1, <2>2, <2>3 DEF EncodedTo
    <3> QED
      BY <3>1 DEF DoneRight
  <2>4. CASE impl = "opencl" /\ R = n /\ EncodedTo(Unset)
    <3>1. (EncodedTo(Unset))'
      BY <1>1, <2>2, <2>4 DEF EncodedTo, Unset
    <3> QED
      BY <1>1, <2>2, <2>4, <3>1 DEF DoneRight
  <2> QED
    BY <2>1, <2>3, <2>4
<1>4. IdleOutside'
  BY <1>1 DEF IdleOutside, Finished, Items
<1>5. MaskRight' /\ ScanRight' /\ CompactRight' /\ LostCell'
  BY <1>1 DEF MaskRight, ScanRight, CompactRight, LostCell, Kernels
<1>6. ScatterRight' /\ AcceptedIsLossless' /\ CountsKept'
  BY <1>1 DEF ScatterRight, AcceptedIsLossless, CountsKept
<1> QED
  BY <1>2, <1>3, <1>4, <1>5, <1>6 DEF IInv

\* What the verification accepts is right.
LEMMA AcceptedRight ==
    ASSUME IInv, Accepted, phase \in {"done", "failed"}, impl \in {"cuda", "opencl"}
    PROVE  Restored = InputSeq /\ \A c \in 0 .. totalRuns - 1 : out[c][2] > 0
<1>1. TypeOK /\ DoneRight /\ CountsKept
  BY DEF IInv
<1>2. CASE phase = "done"
  <2>1. ~ LastRunMissed
    BY DEF LastRunMissed
  <2>2. ~ EncodedTo(Unset)
    <3> SUFFICES ASSUME EncodedTo(Unset) PROVE FALSE
      OBVIOUS
    <3>1. Unset \in Int
      BY DEF Unset
    <3>2. Sum(Counts) = Unset
      BY <1>1, <3>1, EncodedSum
    <3>3. Sum(Counts) = n
      BY DEF Accepted, Counts
    <3> QED
      BY <1>1, <3>2, <3>3, TypeInput DEF Unset, InputOK
  <2>3. EncodedTo(n)
    BY <1>1, <1>2, <2>1, <2>2 DEF DoneRight
  <2> QED
    BY <1>1, <2>3, EncodedRestores, EncodedLossless
<1>3. CASE phase = "failed"
  <2>1. totalRuns # Unset /\ \A c \in 0 .. totalRuns - 1 : out[c][2] > 0
    BY <1>1, <1>3 DEF CountsKept
  <2> QED
    BY <1>1, <2>1, AcceptedPositive
<1> QED
  BY <1>2, <1>3

LEMMA VerifyStep ==
    ASSUME IInv, Verify
    PROVE  IInv'
<1>1. /\ TypeOK /\ IdleOutside /\ phase \in {"done", "failed"} /\ impl \in {"cuda", "opencl"}
      /\ phase' \in {"verified", "rejected"} /\ (phase' = "verified" => Accepted)
      /\ UNCHANGED <<impl, n, in, round, todo, mask, scanned, compacted, totalRuns, out>>
  BY DEF IInv, Verify, progVars, buffers
<1>2. TypeOK'
  BY <1>1 DEF TypeOK, Items, Cells, Sizes
<1>3. AcceptedIsLossless'
  <2> SUFFICES ASSUME phase' = "verified"
               PROVE  Restored' = [k \in 1 .. n' |-> in'[k - 1]]
    BY DEF AcceptedIsLossless
  <2>1. Restored = InputSeq
    BY <1>1, AcceptedRight
  <2>2. Restored' = Restored
    BY <1>1 DEF Restored, Run, Runs
  <2> QED
    BY <1>1, <2>1, <2>2 DEF InputSeq
<1>4. CountsKept'
  <2>1. phase' = "verified" => \A c \in 0 .. totalRuns - 1 : out[c][2] > 0
    BY <1>1, AcceptedRight
  <2> QED
    BY <1>1, <2>1 DEF CountsKept
<1>5. IdleOutside'
  BY <1>1 DEF IdleOutside, Finished, Items, Kernels
<1>6. MaskRight' /\ ScanRight' /\ CompactRight' /\ LostCell'
  BY <1>1 DEF MaskRight, ScanRight, CompactRight, LostCell, Kernels
<1>7. ScatterRight' /\ DoneRight'
  BY <1>1 DEF ScatterRight, DoneRight
<1> QED
  BY <1>2, <1>3, <1>4, <1>5, <1>6, <1>7 DEF IInv

\* The steps of the host that change no result.
LEMMA HostStep ==
    ASSUME IInv, SetupFails \/ DeviceFails \/ Profiled
    PROVE  IInv'
<1>1. /\ TypeOK /\ IdleOutside /\ CountsKept /\ Finished
      /\ phase' \in {"ended", "undefined", "failed", "host"} /\ round' \in 1 .. Rounds
      /\ phase' = "failed" => phase = "host" /\ impl = "opencl" /\ totalRuns # Unset
      /\ phase' = "host" => impl = "cuda"
      /\ UNCHANGED <<impl, n, in, todo, mask, scanned, compacted, totalRuns, out>>
  <2>1. TypeOK /\ IdleOutside /\ CountsKept /\ round \in 1 .. Rounds /\ Rounds \in Nat
    BY RleAssumption DEF IInv, TypeOK
  <2>2. CASE SetupFails
    BY <2>1, <2>2 DEF SetupFails, progVars, buffers, IdleOutside, Kernels
  <2>3. CASE DeviceFails
    BY <2>1, <2>3 DEF DeviceFails, progVars, buffers, IdleOutside, Kernels
  <2>4. CASE Profiled
    BY <2>1, <2>4 DEF Profiled, progVars, buffers
  <2> QED
    BY <2>2, <2>3, <2>4
<1>2. TypeOK'
  BY <1>1 DEF TypeOK, Items, Cells, Sizes
<1>3. CountsKept'
  BY <1>1 DEF CountsKept
<1>4. IdleOutside'
  BY <1>1 DEF IdleOutside, Finished, Items
<1>5. MaskRight' /\ ScanRight' /\ CompactRight' /\ LostCell'
  BY <1>1 DEF MaskRight, ScanRight, CompactRight, LostCell, Kernels
<1>6. ScatterRight' /\ DoneRight' /\ AcceptedIsLossless'
  BY <1>1 DEF ScatterRight, DoneRight, AcceptedIsLossless
<1> QED
  BY <1>2, <1>3, <1>4, <1>5, <1>6 DEF IInv

LEMMA NextInputStep ==
    ASSUME IInv, NextInput
    PROVE  IInv'
<1>1. /\ TypeOK /\ IdleOutside /\ CountsKept /\ Finished
      /\ phase' = "host" /\ round' \in 1 .. Rounds
      /\ n' \in Sizes(impl) /\ in' \in [0 .. n' - 1 -> Symbols]
      /\ impl = "opencl" => phase = "verified"
      /\ UNCHANGED <<impl, todo, totalRuns, out>>
  <2>1. TypeOK /\ IdleOutside /\ CountsKept /\ round \in 1 .. Rounds /\ Rounds \in Nat
    BY RleAssumption DEF IInv, TypeOK
  <2>2. phase \notin Kernels
    BY DEF NextInput, Kernels
  <2>3. /\ phase' = "host" /\ round' = round + 1 /\ round < Rounds /\ Input(impl)
        /\ impl = "opencl" => phase = "verified"
        /\ UNCHANGED <<impl, todo, totalRuns, out>>
    BY DEF NextInput
  <2> QED
    BY <2>1, <2>2, <2>3 DEF Input, IdleOutside
<1>2. \/ UNCHANGED <<mask, scanned, compacted>>
      \/ mask' = Fresh /\ scanned' = Fresh /\ compacted' = Fresh
  BY DEF NextInput
<1>3. TypeOK'
  <2>1. Fresh \in [Cells -> {Unset}]
    BY DEF Fresh
  <2>2. /\ mask' \in [Cells -> {Unset, 0, 1}]
        /\ scanned' \in [Cells -> {Unset} \cup 1 .. MaxN]
        /\ compacted' \in [Cells -> {Unset} \cup 0 .. MaxN]
    BY <1>1, <1>2, <2>1 DEF TypeOK
  <2>3. todo' \in [Items -> SUBSET (0 .. n' - 1)]
    <3>1. todo \in [Items -> SUBSET (0 .. n - 1)]
      BY <1>1 DEF TypeOK
    <3>2. \A w \in Items : todo[w] \in SUBSET (0 .. n' - 1)
      BY <1>1 DEF Finished
    <3> QED
      BY <1>1, <3>1, <3>2
  <2> QED
    BY <1>1, <2>2, <2>3 DEF TypeOK, Items, Cells, Sizes
<1>4. CountsKept'
  BY <1>1 DEF CountsKept
<1>5. IdleOutside'
  BY <1>1 DEF IdleOutside, Finished, Items
<1>6. MaskRight' /\ ScanRight' /\ CompactRight' /\ LostCell'
  BY <1>1 DEF MaskRight, ScanRight, CompactRight, LostCell, Kernels
<1>7. ScatterRight' /\ DoneRight' /\ AcceptedIsLossless'
  BY <1>1 DEF ScatterRight, DoneRight, AcceptedIsLossless
<1> QED
  BY <1>3, <1>4, <1>5, <1>6, <1>7 DEF IInv

LEMMA SerialStep ==
    ASSUME IInv, Serial
    PROVE  IInv'
<1> DEFINE rs == SerialRuns
<1>1. /\ TypeOK /\ IdleOutside /\ phase = "host" /\ phase' = "done"
      /\ out' = [c \in Cells |-> IF c < Len(rs) THEN rs[c + 1] ELSE out[c]]
      /\ totalRuns' = Len(rs)
      /\ UNCHANGED <<impl, n, in, round, todo, mask, scanned, compacted>>
  BY DEF IInv, Serial, progVars
<1>2. InputOK /\ MaxN \in Nat /\ n \in 1 .. MaxN /\ R \in 1 .. n
  BY <1>1, TypeInput, RIs DEF InputOK
<1>3. /\ rs \in Seq(Values \X Int) /\ Len(rs) = R
      /\ \A c \in 0 .. R - 1 :
            rs[c + 1] = <<in[Start(c)], (IF c = R - 1 THEN n ELSE Start(c + 1)) - Start(c)>>
  BY <1>2, SerialIs DEF Shape, R
<1> HIDE DEF rs
<1>4. \A c \in 0 .. R - 1 : c \in Cells /\ c < Len(rs)
  BY <1>2, <1>3 DEF Cells
<1>5. TypeOK'
  <2>1. ASSUME NEW c \in Cells PROVE out'[c] \in (Symbols \cup {Unset}) \X Int
    <3>1. CASE c < Len(rs)
      <4>1. c + 1 \in 1 .. Len(rs)
        BY <1>2, <1>3, <3>1 DEF Cells
      <4>2. rs[c + 1] \in Values \X Int
        BY <1>3, <4>1
      <4> QED
        BY <1>1, <3>1, <4>2 DEF Values
    <3>2. CASE ~ (c < Len(rs))
      BY <1>1, <3>2 DEF TypeOK
    <3> QED
      BY <3>1, <3>2
  <2>2. out' \in [Cells -> (Symbols \cup {Unset}) \X Int]
    BY <1>1, <2>1
  <2>3. totalRuns' \in {Unset} \cup 1 .. MaxN
    BY <1>1, <1>2, <1>3
  <2> QED
    BY <1>1, <2>2, <2>3 DEF TypeOK, Items, Cells, Sizes
<1>6. DoneRight'
  <2>1. R' = R /\ \A c : (Start(c))' = Start(c)
    BY <1>1, SameInput
  <2>2. \A c \in 0 .. R - 1 :
           out'[c] = <<in[Start(c)], (IF c = R - 1 THEN n ELSE Start(c + 1)) - Start(c)>>
    BY <1>1, <1>3, <1>4
  <2>3. (EncodedTo(n))'
    BY <1>1, <1>3, <2>1, <2>2 DEF EncodedTo
  <2> QED
    BY <2>3 DEF DoneRight
<1>7. IdleOutside'
  BY <1>1 DEF IdleOutside, Finished, Items, Kernels
<1>8. MaskRight' /\ ScanRight' /\ CompactRight' /\ LostCell'
  BY <1>1 DEF MaskRight, ScanRight, CompactRight, LostCell, Kernels
<1>9. ScatterRight' /\ AcceptedIsLossless' /\ CountsKept'
  BY <1>1 DEF ScatterRight, AcceptedIsLossless, CountsKept
<1> QED
  BY <1>5, <1>6, <1>7, <1>8, <1>9 DEF IInv

\* The loops of main.cpp's rleCpu.  Each of their writes is one of the kernel's.
LEMMA MaskCompactedIs ==
    ASSUME NEW id
    PROVE  MaskCompacted(RunsTo, id) \subseteq Compacted(RunsTo, id)
BY Zenon DEF MaskCompacted, Compacted

LEMMA MaskRunsStep ==
    ASSUME IInv, MaskRuns
    PROVE  IInv'
<1> DEFINE writes == UNION {MaskCompacted(RunsTo, id) : id \in 0 .. n - 1}
           cell == [c \in Cells |-> IF \E p \in writes : p[1] = c
                                    THEN (CHOOSE p \in writes : p[1] = c)[2]
                                    ELSE Unset]
           symbol(k) == IF k \in 0 .. n - 1 THEN in[k] ELSE Unset
<1>1. /\ TypeOK /\ IdleOutside /\ phase = "host" /\ phase' = "done" /\ impl = "mask"
      /\ out' = [c \in Cells |-> IF c < n
                                 THEN <<symbol(cell[c]), cell[c + 1] - cell[c]>>
                                 ELSE out[c]]
      /\ totalRuns' = IF n = 1 THEN Unset ELSE RunsTo[n - 1]
      /\ UNCHANGED <<impl, n, in, round, todo, mask, scanned, compacted>>
  BY DEF IInv, MaskRuns, progVars, RunsTo
<1>2. InputOK /\ MaxN \in Nat /\ n \in 1 .. MaxN /\ R \in 1 .. n /\ n - 1 \in 0 .. n - 1
  BY <1>1, TypeInput, RIs DEF InputOK
<1> HIDE DEF writes, symbol
<1>3. ASSUME NEW p \in writes
      PROVE  p[1] \in 0 .. R /\ p[2] = Start(p[1]) /\ p[2] \in 0 .. n
  <2>1. PICK id \in 0 .. n - 1 : p \in MaskCompacted(RunsTo, id)
    BY DEF writes
  <2>2. p \in Compacted(RunsTo, id)
    BY <2>1, MaskCompactedIs
  <2> QED
    BY <1>2, <2>2, CompactedIs
<1>4. ASSUME NEW c \in Cells, \E p \in writes : p[1] = c
      PROVE  cell[c] = Start(c) /\ cell[c] \in 0 .. n
  <2> DEFINE q == CHOOSE p \in writes : p[1] = c
  <2>1. q \in writes /\ q[1] = c
    BY <1>4
  <2>2. cell[c] = q[2]
    BY <1>4
  <2> HIDE DEF q
  <2> QED
    BY <2>1, <2>2, <1>3
<1>5. ASSUME NEW c \in Cells PROVE cell[c] \in {Unset} \cup 0 .. n
  <2>1. CASE \E p \in writes : p[1] = c
    BY <1>4, <2>1
  <2>2. CASE ~ \E p \in writes : p[1] = c
    BY <2>2
  <2> QED
    BY <2>1, <2>2
<1> HIDE DEF cell
<1>6. TypeOK'
  <2>1. ASSUME NEW c \in Cells PROVE out'[c] \in (Symbols \cup {Unset}) \X Int
    <3>1. CASE c < n
      <4>1. c + 1 \in Cells
        BY <1>2, <3>1 DEF Cells
      <4>2. cell[c] \in Int /\ cell[c + 1] \in Int
        BY <1>2, <1>5, <4>1 DEF Unset
      <4>3. symbol(cell[c]) \in Symbols \cup {Unset}
        BY <1>2 DEF symbol, InputOK
      <4> QED
        BY <1>1, <3>1, <4>2, <4>3
    <3>2. CASE ~ (c < n)
      BY <1>1, <3>2 DEF TypeOK
    <3> QED
      BY <3>1, <3>2
  <2>2. out' \in [Cells -> (Symbols \cup {Unset}) \X Int]
    BY <1>1, <2>1
  <2>3. totalRuns' \in {Unset} \cup 1 .. MaxN
    <3>1. RunsTo[n - 1] \in 1 .. MaxN
      BY <1>2 DEF R
    <3> QED
      BY <1>1, <3>1
  <2> QED
    BY <1>1, <2>2, <2>3 DEF TypeOK, Items, Cells, Sizes
<1>7. ASSUME ~ LastRunMissed PROVE (EncodedTo(n))'
  <2>1. n # 1 /\ in[n - 1] = in[n - 2]
    BY <1>1, <1>7 DEF LastRunMissed
  <2>2. n - 1 # 0 /\ (n - 1) - 1 = n - 2
    BY <1>2, <2>1
  <2>3. MaskBit(n - 1) # 1
    BY <2>1, <2>2 DEF MaskBit
  <2>4. ASSUME NEW c \in 0 .. R PROVE cell[c] = Start(c)
    <3>1. \E p \in writes : p[1] = c
      <4>1. CASE c = R
        <5>1. <<R, n>> \in MaskCompacted(RunsTo, n - 1)
          <6>1. (n - 1) + 1 = n /\ RunsTo[n - 1] = R
            BY <1>2 DEF R
          <6> QED
            BY <2>2, <6>1, Zenon DEF MaskCompacted
        <5>2. <<R, n>> \in writes
          BY <1>2, <5>1 DEF writes
        <5> QED
          BY <4>1, <5>2
      <4>2. CASE c # R
        <5> DEFINE id == Start(c)
        <5>1. c \in 0 .. R - 1
          BY <1>2, <4>2
        <5>2. id \in 0 .. n - 1 /\ MaskBit(id) = 1 /\ <<c, id>> \in Compacted(RunsTo, id)
          BY <1>2, <5>1, StartIs, CompactedAll
        <5> HIDE DEF id
        <5>3. id # n - 1
          BY <2>3, <5>2
        <5>4. <<c, id>> \in MaskCompacted(RunsTo, id)
          BY <5>2, <5>3, Zenon DEF MaskCompacted, Compacted
        <5>5. <<c, id>> \in writes
          BY <5>2, <5>4 DEF writes
        <5> QED
          BY <5>5
      <4> QED
        BY <4>1, <4>2
    <3>2. c \in Cells
      BY <1>2 DEF Cells
    <3> QED
      BY <3>1, <3>2, <1>4
  <2>5. ASSUME NEW c \in 0 .. R - 1
        PROVE  out'[c] = <<in[Start(c)], (IF c = R - 1 THEN n ELSE Start(c + 1)) - Start(c)>>
    <3>1. c \in Cells /\ c < n /\ c \in 0 .. R /\ c + 1 \in 0 .. R
      BY <1>2 DEF Cells
    <3>2. cell[c] = Start(c) /\ cell[c + 1] = Start(c + 1)
      BY <2>4, <3>1
    <3>3. symbol(cell[c]) = in[Start(c)]
      BY <1>2, <3>2, StartIs DEF symbol
    <3>4. c = R - 1 => Start(c + 1) = n
      BY <1>2, StartOfEnd
    <3>5. out'[c] = <<symbol(cell[c]), cell[c + 1] - cell[c]>>
      BY <1>1, <3>1
    <3> QED
      BY <3>2, <3>3, <3>4, <3>5
  <2>6. totalRuns' = R
    BY <1>1, <2>1 DEF R
  <2>7. R' = R /\ \A c : (Start(c))' = Start(c)
    BY <1>1, SameInput
  <2> QED
    BY <1>1, <2>5, <2>6, <2>7 DEF EncodedTo
<1>8. DoneRight'
  <2>1. LastRunMissed => LastRunMissed'
    BY <1>1 DEF LastRunMissed
  <2> QED
    BY <1>7, <2>1 DEF DoneRight
<1>9. IdleOutside'
  BY <1>1 DEF IdleOutside, Finished, Items, Kernels
<1>10. MaskRight' /\ ScanRight' /\ CompactRight' /\ LostCell'
  BY <1>1 DEF MaskRight, ScanRight, CompactRight, LostCell, Kernels
<1>11. ScatterRight' /\ AcceptedIsLossless' /\ CountsKept'
  BY <1>1 DEF ScatterRight, AcceptedIsLossless, CountsKept
<1> QED
  BY <1>6, <1>8, <1>9, <1>10, <1>11 DEF IInv

LEMMA Stutter ==
    ASSUME IInv, UNCHANGED vars
    PROVE  IInv'
<1>1. UNCHANGED <<impl, round, n, in, phase, todo, mask, scanned, compacted, totalRuns, out>>
  BY DEF vars, progVars, buffers
<1>2. /\ RunsTo' = RunsTo /\ R' = R /\ (CompactCells)' = CompactCells
      /\ \A c : (Start(c))' = Start(c)
      /\ \A id : (MaskBit(id))' = MaskBit(id)
      /\ \A id : (Compacted(RunsTo, id))' = Compacted(RunsTo, id)
  BY <1>1, SameInput
<1>3. TypeOK' /\ IdleOutside' /\ LostCell' /\ CountsKept'
  BY <1>1 DEF IInv, TypeOK, IdleOutside, LostCell, CountsKept, Finished, Items, Cells, Sizes
<1>4. \A id : (Pending(id))' <=> Pending(id)
  BY <1>1 DEF Pending, Items
<1>5. MaskRight' /\ ScanRight'
  BY <1>1, <1>2, <1>4 DEF IInv, MaskRight, ScanRight
<1>6. CompactRight'
  <2>1. \A id : (Stored(id))' <=> Stored(id)
    BY <1>1, <1>2 DEF Stored
  <2> QED
    BY <1>1, <1>4, <2>1 DEF IInv, CompactRight
<1>7. ScatterRight'
  BY <1>1, <1>2, <1>4 DEF IInv, ScatterRight, Items
<1>8. DoneRight'
  <2>1. (EncodedTo(n))' <=> EncodedTo(n)
    BY <1>1, <1>2 DEF EncodedTo
  <2>2. (EncodedTo(Unset))' <=> EncodedTo(Unset)
    BY <1>1, <1>2 DEF EncodedTo, Unset
  <2>3. LastRunMissed' <=> LastRunMissed
    BY <1>1 DEF LastRunMissed
  <2> QED
    BY <1>1, <1>2, <2>1, <2>2, <2>3 DEF IInv, DoneRight
<1>9. AcceptedIsLossless'
  <2>1. Restored' = Restored
    BY <1>1 DEF Restored, Run, Runs
  <2> QED
    BY <1>1, <2>1 DEF IInv, AcceptedIsLossless
<1> QED
  BY <1>3, <1>5, <1>6, <1>7, <1>8, <1>9 DEF IInv

LEMMA StepIInv == IInv /\ [Next]_vars => IInv'
<1> SUFFICES ASSUME IInv, [Next]_vars PROVE IInv'
  OBVIOUS
<1>1. CASE StartMaskCuda \/ StartMaskOpencl
  BY <1>1, StartMaskStep
<1>2. CASE Scan
  BY <1>2, ScanStep
<1>3. CASE StartScatter
  BY <1>3, StartScatterStep
<1>4. CASE SetupFails \/ DeviceFails \/ Profiled
  BY <1>4, HostStep
<1>5. CASE ReadBack \/ CopyBack
  BY <1>5, BackStep
<1>6. CASE Verify
  BY <1>6, VerifyStep
<1>7. ASSUME NEW w \in Items, NEW id \in Cells, MaskStep(w, id) PROVE IInv'
  BY <1>7, MaskStepStep
<1>8. ASSUME NEW w \in Items, NEW id \in Cells, CompactStep(w, id) PROVE IInv'
  BY <1>8, CompactStepStep
<1>9. ASSUME NEW w \in Items, NEW id \in Cells, ScatterStep(w, id) PROVE IInv'
  BY <1>9, ScatterStepStep
<1>10. CASE Serial
  BY <1>10, SerialStep
<1>11. CASE MaskRuns
  BY <1>11, MaskRunsStep
<1>12. CASE NextInput
  BY <1>12, NextInputStep
<1>13. CASE UNCHANGED vars
  BY <1>13, Stutter
<1> QED
  BY <1>1, <1>2, <1>3, <1>4, <1>5, <1>6, <1>7, <1>8, <1>9, <1>10, <1>11, <1>12, <1>13 DEF Next

THEOREM Invariant == Spec => []IInv
<1>1. Init => IInv
  BY InitIInv
<1>2. IInv /\ [Next]_vars => IInv'
  BY StepIInv
<1> QED
  BY <1>1, <1>2, PTL DEF Spec

-----------------------------------------------------------------------------
(* The theorems.                                                           *)

\* Every variable stays in its range, no work-item takes a position behind the
\* input, and no run is counted that the input does not have.
THEOREM TypeCorrect == Spec => []TypeOK
<1>1. IInv => TypeOK
  BY DEF IInv
<1> QED
  BY <1>1, Invariant, PTL

\* Of every input whose run starts fit into the buffer, the kernels make, in
\* any order of their work-items and whatever the last input has left in the
\* buffers, an encoding that restores to the input; so do the serial encoders,
\* but for the last run that main.cpp's misses.
THEOREM EncodersLossless == Spec => []LosslessIfFits
<1>1. IInv => LosslessIfFits
  <2> SUFFICES ASSUME IInv, Fits, ~ LastRunMissed, phase = "done" PROVE Lossless
    BY DEF LosslessIfFits, Lossless
  <2>1. TypeOK /\ DoneRight
    BY DEF IInv
  <2>2. InputOK /\ MaxN \in Nat
    BY <2>1, TypeInput
  <2>3. R < CompactCells
    BY <2>2, SerialIs DEF Fits, NumRuns, Shape, R
  <2>4. ~ (impl = "opencl" /\ R = n)
    BY <2>2, <2>3, RIs DEF CompactCells, InputOK
  <2>5. EncodedTo(n)
    BY <2>1, <2>4 DEF DoneRight
  <2> QED
    BY <2>1, <2>5, EncodedLossless
<1> QED
  BY <1>1, Invariant, PTL

\* The verification accepts nothing that does not decompress to the input, not
\* an encoding with a lost end, nor the results of another input after a failure.
THEOREM VerificationSound == Spec => []AcceptedIsLossless
<1>1. IInv => AcceptedIsLossless
  BY DEF IInv
<1> QED
  BY <1>1, Invariant, PTL
=============================================================================
