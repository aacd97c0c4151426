------------------------------ MODULE BwtCuda ------------------------------
(***************************************************************************)
(* Bwt with the CUDA program (src/Burrows-Wheeler/Cuda), which transforms  *)
(* a file as one block.                                                    *)
(*                                                                         *)
(* The rotations are sorted by a bucket of BucketBytes bytes first, then   *)
(* in rounds by the next one: bucket_index[i] is the place where the group *)
(* of rotations begins that are equal so far and of which one is at place  *)
(* i, and n + 1 if that rotation needs no more sorting.  Between two sorts *)
(* BuildMatches and then WalkMatches or InnerWalkMatches find the groups,  *)
(* one thread for each place.  The threads of a kernel run in any order,   *)
(* those of one block of BLOCK_LEN meet at __syncthreads(), and a kernel   *)
(* ends before the next one starts.  A walk is one step of its thread: it  *)
(* writes what a walk that overlaps it writes as well.  Sorting, gathering *)
(* and pushing back are one step: only when two threads push to one place  *)
(* (DoPush) does their order count.                                        *)
(*                                                                         *)
(* Not modelled: what a walk reads behind the last place of its arrays,    *)
(* which is outside what the program has allocated (it stops there), and   *)
(* a failing CUDA call, which the program does not notice.                 *)
(***************************************************************************)
EXTENDS Bwt, TLC

CONSTANTS BucketBytes,  \* BUCKET_T_DATA_SIZE
          BLOCK_LEN

ASSUME BwtCudaAssumption == {BucketBytes, BLOCK_LEN} \subseteq Nat \ {0}

VARIABLES
    prog,            \* "read", "kernels", "sorted"
    k,               \* rounds begun
    thread,          \* steps the thread of each place has done in this round
    bucket,          \* [place -> [bIndex, data]]
    rotation_idx, bucket_index, prev_bucket_index

device == <<bucket, rotation_idx, bucket_index, prev_bucket_index>>
cudaVars == <<prog, k, thread, device>>
allVars == <<vars, cudaVars>>

n == Len(input)
Places == 0 .. n - 1
Sorted == n + 1
PrevPlace(i) == ((i + n) - 1) % n
NextPlace(i) == (i + 1) % n

\* The r-th bucket of the rotation that begins at p.
Bucket(p, r) == [j \in 1 .. BucketBytes |-> Sym(input, p, r * BucketBytes + j - 1)]

\* operator<, which counts bIndex, and operator==, which does not.
Less(a, b) ==
    \/ a.bIndex < b.bIndex
    \/ /\ a.bIndex = b.bIndex
       /\ \E j \in 1 .. BucketBytes :
            /\ a.data[j] < b.data[j]
            /\ \A h \in 1 .. j - 1 : a.data[h] = b.data[h]
Same(i, j) == bucket[i].data = bucket[j].data

\* thrust::stable_sort_by_key of a sequence of [key, at, ...] in the order of
\* their places (at): equal keys keep that order.
StableSort(s) == SortSeq(s, LAMBDA a, b : \/ Less(a.key, b.key)
                                          \/ ~Less(b.key, a.key) /\ a.at < b.at)

CudaInit ==
    /\ Init
    /\ prog = "read" /\ k = 0
    /\ thread = <<>> /\ bucket = <<>> /\ rotation_idx = <<>>
    /\ bucket_index = <<>> /\ prev_bucket_index = <<>>

\* Read the file; the first Buckets kernel and the first sort.
FirstSort ==
    /\ variant = "cuda" /\ prog = "read"
    /\ LET s == StableSort([m \in 1 .. n |->
                    [key |-> [bIndex |-> 0, data |-> Bucket(m - 1, 0)], at |-> m - 1]])
       IN  /\ bucket' = [i \in Places |-> s[i + 1].key]
           /\ rotation_idx' = [i \in Places |-> s[i + 1].at]
    /\ bucket_index' = [i \in Places |-> 0]
    /\ prev_bucket_index' = [i \in Places |-> 0]
    /\ thread' = [i \in Places |-> 0]
    /\ prog' = "kernels" /\ k' = 1 /\ pos' = n
    /\ UNCHANGED <<variant, input, phase, work, file, out>>

-----------------------------------------------------------------------------
(* The kernels between two sorts. *)

BlockOf(i) == {j \in Places : j \div BLOCK_LEN = i \div BLOCK_LEN}

\* Thread i does its step s, which `others` have to be ready for.
ThreadStep(i, s, others) ==
    /\ prog = "kernels" /\ thread[i] = s
    /\ \A j \in others : thread[j] >= s
    /\ thread' = [thread EXCEPT ![i] = s + 1]
    /\ UNCHANGED <<vars, prog, k, rotation_idx, prev_bucket_index>>

\* The places in `marks` get these group numbers.
Mark(marks) ==
    /\ bucket_index' = marks @@ bucket_index
    /\ bucket' = [j \in Places |->
                    IF j \in DOMAIN marks THEN [bucket[j] EXCEPT !.bIndex = marks[j]]
                    ELSE bucket[j]]
MarkSorted(i) == Mark(i :> Sorted)
Unmarked == UNCHANGED <<bucket, bucket_index>>

\* A place whose bucket is that of its left neighbour forms a group with it
\* for now; one that differs from both is sorted.
BuildMatches(i) ==
    /\ ThreadStep(i, 0, {})
    /\ IF prev_bucket_index[i] = Sorted THEN MarkSorted(i)
       ELSE IF i > 0 /\ Same(PrevPlace(i), i) THEN Mark(i :> i @@ PrevPlace(i) :> PrevPlace(i))
       ELSE IF ~Same(NextPlace(i), i) THEN MarkSorted(i)
       ELSE Unmarked

\* Mistake: one sorted neighbour will do.
BetweenSortedEither(i) == Sorted \in {bucket_index[PrevPlace(i)], bucket_index[NextPlace(i)]}
BetweenSorted(i) == {bucket_index[PrevPlace(i)], bucket_index[NextPlace(i)]} = {Sorted}

BuildBetween(i) ==
    /\ ThreadStep(i, 1, BlockOf(i))
    /\ IF BetweenSorted(i) THEN MarkSorted(i) ELSE Unmarked

\* The places from i on, as long as all are in S.
Stretch(i, S) == {j \in i .. n - 1 : i .. j \subseteq S}

\* First round: from the left edge of a group to its right end.
WalkMatches(i) ==
    /\ k = 1
    /\ ThreadStep(i, 2, Places)
    /\ LET joining == {i} \cup {j \in Places : Same(i, j) /\ bucket_index[j] # Sorted}
       IN  IF bucket_index[i] # Sorted /\ ~Same(i, PrevPlace(i))
           THEN Mark([j \in Stretch(i, joining) \ {i} |-> i])
           ELSE Unmarked

SameGroup(i, j) == Same(i, j) /\ prev_bucket_index[i] = prev_bucket_index[j]

\* Later rounds: from the left edge of what is left of an old group to its
\* right end, into groups of equal buckets.
InnerWalkMatches(i) ==
    LET old == {j \in Places : prev_bucket_index[j] = prev_bucket_index[i]}
        edge == PrevPlace(i) \notin old \/ bucket_index[PrevPlace(i)] = Sorted
        Start(j) == CHOOSE s \in i .. j :
                        /\ \A h \in s .. j : SameGroup(h, j)
                        /\ s = i \/ ~SameGroup(s - 1, j)
    IN  /\ k > 1
        /\ ThreadStep(i, 2, Places)
        /\ IF prev_bucket_index[i] = Sorted THEN MarkSorted(i)
           ELSE IF NextPlace(i) \in old /\ edge /\ bucket_index[i] # Sorted
           THEN Mark([j \in Stretch(i, old) |-> Start(j)])
           ELSE Unmarked

-----------------------------------------------------------------------------
(* The loop. *)

Walked == prog = "kernels" /\ \A i \in Places : thread[i] = 3
Unsorted == {i \in Places : bucket_index[i] < n}    \* still_valid, and not doCopy
GoesOn == Unsorted # {} /\ k < (n \div BucketBytes) + 1

\* CalcPushPositions: where the m-th of the gathered goes.
PushPosition(s, m) ==
    LET start == CHOOSE a \in 1 .. m :
                    /\ \A b \in a .. m : s[b].index = s[m].index
                    /\ a = 1 \/ s[a - 1].index # s[m].index
    IN  s[m].index + (m - start)

\* Buckets, remove_copy_if, the sort, CalcPushPositions and DoPush.
Round ==
    LET fresh == [i \in Places |->
                    IF bucket_index[i] = Sorted THEN bucket[i]
                    ELSE [bucket[i] EXCEPT !.data = Bucket(rotation_idx[i], k)]]
        s == StableSort([m \in 1 .. Cardinality(Unsorted) |->
                LET i == CHOOSE i \in Unsorted : Cardinality(Unsorted \cap 0 .. i) = m
                IN  [key |-> fresh[i], at |-> i, rot |-> rotation_idx[i],
                     index |-> bucket_index[i]]])
        to == [m \in DOMAIN s |-> PushPosition(s, m)]
        targets == Range(to) \cap Places
        last == {W \in SUBSET DOMAIN s :    \* of those that push to a place
                    {to[m] : m \in W} = Range(to) /\ Cardinality(W) = Cardinality(Range(to))}
        From(W, i) == s[CHOOSE m \in W : to[m] = i]
    IN  /\ Walked /\ GoesOn
        /\ \E W, V \in last :
            /\ bucket' = [i \in targets |-> From(W, i).key] @@ fresh
            /\ rotation_idx' = [i \in targets |-> From(V, i).rot] @@ rotation_idx
        /\ prev_bucket_index' = bucket_index
        /\ thread' = [i \in Places |-> 0]
        /\ k' = k + 1
        /\ UNCHANGED <<vars, prog, bucket_index>>

CopyBack ==
    /\ Walked /\ ~GoesOn
    /\ prog' = "sorted"
    /\ work' = <<[Fresh EXCEPT !.stage = "sorted", !.block = input,
                               !.rotationIdx = [m \in 1 .. n |-> rotation_idx[m - 1]]]>>
    /\ UNCHANGED <<variant, input, phase, pos, file, out, k, thread, device>>

\* The last place with rotation 0 is recorded.
FirstIndex == IF \E i \in Places : rotation_idx[i] = 0
              THEN CHOOSE i \in Places : /\ rotation_idx[i] = 0
                                         /\ \A j \in i + 1 .. n - 1 : rotation_idx[j] # 0
              ELSE 0

WriteEnc ==
    /\ prog = "sorted" /\ work # <<>> /\ work[1].stage = "sorted"
    /\ file' = IntBytes(FirstIndex) \o LastColumn(input, work[1].rotationIdx)
    /\ work' = [work EXCEPT ![1].stage = "written"]
    /\ UNCHANGED <<variant, input, phase, pos, out, cudaVars>>

CudaNext ==
    \/ Next /\ UNCHANGED cudaVars
    \/ FirstSort \/ Round \/ CopyBack \/ WriteEnc
    \/ \E i \in DOMAIN thread :
        BuildMatches(i) \/ BuildBetween(i) \/ WalkMatches(i) \/ InnerWalkMatches(i)

CudaSpec == CudaInit /\ [][CudaNext]_allVars
=============================================================================
