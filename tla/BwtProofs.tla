------------------------------ MODULE BwtProofs ------------------------------
(***************************************************************************)
(* Proofs about Bwt, for blocks and files of any size over any alphabet:   *)
(* the sort sorts, and the reversal gives back the input, in the serial    *)
(* forms and in the OpenCL one, whatever order the work-items run in.      *)
(***************************************************************************)
EXTENDS Bwt, FiniteSetTheorems, SequenceTheorems, WellFoundedInduction, TLAPS

-----------------------------------------------------------------------------
(* Counting.  Both a pass of the radix sort and the way back number the    *)
(* places 1 .. n of a sequence in the order of their keys, equal keys in   *)
(* the order of their places.                                              *)

Precedes(key, j, k) == key[j] < key[k] \/ (key[j] = key[k] /\ j < k)

UpTo(key, n, k) == {j \in 1 .. n : j = k \/ Precedes(key, j, k)}
Rank(key, n, k) == Cardinality(UpTo(key, n, k))

LEMMA RankType ==
    ASSUME NEW n \in Nat, NEW key \in [1 .. n -> Int], NEW k \in 1 .. n
    PROVE  Rank(key, n, k) \in 1 .. n /\ IsFiniteSet(UpTo(key, n, k))
<1>1. IsFiniteSet(1 .. n) /\ Cardinality(1 .. n) = n
  BY FS_Interval
<1>2. UpTo(key, n, k) \in SUBSET (1 .. n) /\ k \in UpTo(key, n, k)
  BY DEF UpTo
<1>3. /\ IsFiniteSet(UpTo(key, n, k))
      /\ Rank(key, n, k) <= n
  BY <1>1, <1>2, FS_Subset DEF Rank
<1>4. Rank(key, n, k) \in Nat /\ Rank(key, n, k) # 0
  <2>1. Rank(key, n, k) \in Nat
    BY <1>3, FS_CardinalityType DEF Rank
  <2> QED
    BY <2>1, <1>2, <1>3, FS_EmptySet DEF Rank
<1> QED
  BY <1>3, <1>4

LEMMA RankRises ==
    ASSUME NEW n \in Nat, NEW key \in [1 .. n -> Int],
           NEW j \in 1 .. n, NEW k \in 1 .. n, Precedes(key, j, k)
    PROVE  Rank(key, n, j) < Rank(key, n, k)
<1>1. UpTo(key, n, j) \in SUBSET UpTo(key, n, k)
  BY DEF UpTo, Precedes
<1>2. k \in UpTo(key, n, k) /\ k \notin UpTo(key, n, j)
  BY DEF UpTo, Precedes
<1>3. /\ IsFiniteSet(UpTo(key, n, k))
      /\ Rank(key, n, j) \in Nat /\ Rank(key, n, k) \in Nat
  <2>1. Rank(key, n, j) \in 1 .. n
    BY RankType
  <2>2. Rank(key, n, k) \in 1 .. n /\ IsFiniteSet(UpTo(key, n, k))
    BY RankType
  <2> QED
    BY <2>1, <2>2
<1>4. /\ Rank(key, n, j) <= Rank(key, n, k)
      /\ Rank(key, n, k) = Rank(key, n, j) => UpTo(key, n, k) = UpTo(key, n, j)
  BY <1>1, <1>3, FS_Subset DEF Rank
<1> QED
  BY <1>2, <1>3, <1>4

\* So the numbers tell what comes first, and
LEMMA RankTells ==
    ASSUME NEW n \in Nat, NEW key \in [1 .. n -> Int],
           NEW j \in 1 .. n, NEW k \in 1 .. n
    PROVE  /\ Rank(key, n, j) < Rank(key, n, k) => Precedes(key, j, k)
           /\ Rank(key, n, j) = Rank(key, n, k) => j = k
<1>1. Precedes(key, j, k) \/ Precedes(key, k, j) \/ j = k
  BY DEF Precedes
<1>2. Precedes(key, j, k) => Rank(key, n, j) < Rank(key, n, k)
  BY RankRises
<1>3. Precedes(key, k, j) => Rank(key, n, k) < Rank(key, n, j)
  BY RankRises
<1>4. Rank(key, n, j) \in Int /\ Rank(key, n, k) \in Int
  BY RankType
<1> QED
  BY <1>1, <1>2, <1>3, <1>4

\* every number is given out.
LEMMA RankOnto ==
    ASSUME NEW n \in Nat, NEW key \in [1 .. n -> Int], NEW p \in 1 .. n
    PROVE  \E k \in 1 .. n : Rank(key, n, k) = p
<1> DEFINE f == [k \in 1 .. n |-> Rank(key, n, k)]
<1>1. f \in [1 .. n -> 1 .. n]
  BY RankType
<1>2. \A j, k \in 1 .. n : f[j] = f[k] => j = k
  BY RankTells
<1>3. f \in Injection(1 .. n, 1 .. n)
  BY <1>1, <1>2 DEF Injection, IsInjective
<1>4. IsFiniteSet(1 .. n)
  BY FS_Interval
<1>5. f \in Surjection(1 .. n, 1 .. n)
  BY <1>3, <1>4, FS_Injection
<1> QED
  BY <1>5 DEF Surjection

\* The number is that of the smaller keys and of the equal ones up to there.
LEMMA RankIs ==
    ASSUME NEW n \in Nat, NEW key \in [1 .. n -> Int], NEW k \in 1 .. n
    PROVE  Rank(key, n, k) = Cardinality({j \in 1 .. n : key[j] < key[k]})
                                + Cardinality({j \in 1 .. k : key[j] = key[k]})
<1> DEFINE S == {j \in 1 .. n : key[j] < key[k]}
           T == {j \in 1 .. k : key[j] = key[k]}
<1>1. UpTo(key, n, k) = S \cup T /\ S \cap T = {}
  BY DEF UpTo, Precedes
<1>2. IsFiniteSet(S) /\ IsFiniteSet(T)
  <2>1. IsFiniteSet(1 .. n) /\ S \in SUBSET (1 .. n) /\ T \in SUBSET (1 .. n)
    BY FS_Interval
  <2> QED
    BY <2>1, FS_Subset
<1>3. Cardinality(S \cup T) = Cardinality(S) + Cardinality(T)
  <2>1. Cardinality(S \cap T) = 0
    BY <1>1, FS_EmptySet
  <2>2. Cardinality(S) \in Nat /\ Cardinality(T) \in Nat
    BY <1>2, FS_CardinalityType
  <2> HIDE DEF S, T
  <2>3. Cardinality(S \cup T) = Cardinality(S) + Cardinality(T) - Cardinality(S \cap T)
    BY <1>2, FS_Union
  <2> QED
    BY <2>1, <2>2, <2>3
<1> QED
  BY <1>1, <1>3 DEF Rank
-----------------------------------------------------------------------------
(* A pass of the radix sort.                                               *)

\* What stands in work while a file is transformed, and an order of its rows.
IsBlock(b) == b \in Seq(Symbols) /\ b # <<>>
IsOrder(b, order) == order \in [DOMAIN b -> 0 .. Len(b) - 1] /\ IsInjective(order)

LEMMA ModIs ==
    ASSUME NEW n \in Nat \ {0}, NEW x \in 0 .. n + n - 1
    PROVE  x % n = IF x < n THEN x ELSE x - n
OBVIOUS

\* The place of a symbol in a block.
Place(b, p, d) == IF p + d < Len(b) THEN p + d + 1 ELSE (p + d + 1) - Len(b)

LEMMA BlockFacts ==
    ASSUME NEW b, IsBlock(b)
    PROVE  /\ Len(b) \in Nat \ {0} /\ DOMAIN b = 1 .. Len(b)
           /\ b \in [1 .. Len(b) -> Symbols] /\ Symbols \subseteq Nat
           /\ b \in [1 .. Len(b) -> Int]
<1>1. b \in Seq(Symbols) /\ b # <<>>
  BY DEF IsBlock
<1>2. Len(b) \in Nat /\ DOMAIN b = 1 .. Len(b) /\ b \in [1 .. Len(b) -> Symbols]
  BY <1>1
<1>3. Len(b) # 0
  BY <1>1, <1>2, EmptySeq
<1>4. Symbols \subseteq Nat
  BY BwtAssumption DEF Symbols
<1>5. b \in [1 .. Len(b) -> Int]
  <2>1. ASSUME NEW k \in 1 .. Len(b) PROVE b[k] \in Int
    <3>1. b[k] \in Symbols
      BY <1>2
    <3>2. \A s \in Symbols : s \in Nat
      BY <1>4
    <3>3. b[k] \in Nat
      BY <3>1, <3>2
    <3> QED
      BY <3>3
  <2>2. b = [k \in 1 .. Len(b) |-> b[k]]
    BY <1>2
  <2> QED
    BY <2>1, <2>2
<1> QED
  BY <1>2, <1>3, <1>4, <1>5

LEMMA SymIs ==
    ASSUME NEW b, IsBlock(b), NEW p \in 0 .. Len(b) - 1, NEW d \in 0 .. Len(b)
    PROVE  /\ Sym(b, p, d) = b[Place(b, p, d)]
           /\ Place(b, p, d) \in 1 .. Len(b)
           /\ Sym(b, p, d) \in Symbols /\ Sym(b, p, d) \in Nat
<1>1. Len(b) \in Nat \ {0} /\ b \in [1 .. Len(b) -> Symbols] /\ Symbols \subseteq Nat
  BY BlockFacts
<1> DEFINE n == Len(b)
<1>2. n \in Nat \ {0} /\ p \in 0 .. n - 1 /\ d \in 0 .. n
  BY <1>1
<1> HIDE DEF n
<1>3. p + d \in 0 .. n + n - 1
  BY <1>2
<1>4. (p + d) % n = IF p + d < n THEN p + d ELSE (p + d) - n
  BY <1>2, <1>3, ModIs
<1>5. ((p + d) % n) + 1 = IF p + d < n THEN p + d + 1 ELSE (p + d + 1) - n
  BY <1>2, <1>4
<1>6. ((p + d) % n) + 1 \in 1 .. n
  BY <1>2, <1>5
<1> USE DEF n
<1>7. Place(b, p, d) = ((p + d) % n) + 1
  BY <1>5 DEF Place
<1> QED
  BY <1>1, <1>6, <1>7 DEF Sym

\* Of the rotations each has its own symbol at distance d.
LEMMA PlacesDiffer ==
    ASSUME NEW b, IsBlock(b), NEW d \in 0 .. Len(b),
           NEW p \in 0 .. Len(b) - 1, NEW q \in 0 .. Len(b) - 1,
           Place(b, p, d) = Place(b, q, d)
    PROVE  p = q
<1>1. Len(b) \in Nat \ {0}
  BY BlockFacts
<1> QED
  BY <1>1 DEF Place

\* An order names every rotation.
LEMMA OrderOnto ==
    ASSUME NEW b, IsBlock(b), NEW order, IsOrder(b, order), NEW p \in 0 .. Len(b) - 1
    PROVE  \E k \in 1 .. Len(b) : order[k] = p
<1> DEFINE n == Len(b)
<1>1. n \in Nat \ {0} /\ order \in [1 .. n -> 0 .. n - 1] /\ IsInjective(order)
  BY BlockFacts DEF IsOrder
<1> HIDE DEF n
<1>2. /\ IsFiniteSet(0 .. n - 1) /\ Cardinality(0 .. n - 1) = n
      /\ IsFiniteSet(1 .. n) /\ Cardinality(1 .. n) = n
  <2>1. /\ IsFiniteSet(0 .. n - 1)
        /\ Cardinality(0 .. n - 1) = IF 0 > n - 1 THEN 0 ELSE (n - 1) - 0 + 1
    BY <1>1, FS_Interval
  <2>2. IsFiniteSet(1 .. n) /\ Cardinality(1 .. n) = IF 1 > n THEN 0 ELSE n - 1 + 1
    BY <1>1, FS_Interval
  <2> QED
    BY <1>1, <2>1, <2>2
<1>3. order \in Injection(1 .. n, 0 .. n - 1)
  BY <1>1 DEF Injection
<1>4. order \in Surjection(1 .. n, 0 .. n - 1)
  BY <1>2, <1>3, FS_Injection
<1> QED
  BY <1>4 DEF Surjection, n

Keys(b, order, d) == [k \in DOMAIN b |-> Sym(b, order[k], d)]

LEMMA KeysType ==
    ASSUME NEW b, IsBlock(b), NEW order, IsOrder(b, order), NEW d \in 0 .. Len(b)
    PROVE  /\ Keys(b, order, d) \in [1 .. Len(b) -> Int]
           /\ \A k \in 1 .. Len(b) : /\ order[k] \in 0 .. Len(b) - 1
                                     /\ Keys(b, order, d)[k] = Sym(b, order[k], d)
<1>1. DOMAIN b = 1 .. Len(b)
  BY BlockFacts
<1>2. ASSUME NEW k \in 1 .. Len(b)
      PROVE  order[k] \in 0 .. Len(b) - 1 /\ Sym(b, order[k], d) \in Int
  <2>1. order[k] \in 0 .. Len(b) - 1
    BY <1>1 DEF IsOrder
  <2>2. Sym(b, order[k], d) \in Nat
    BY <2>1, SymIs
  <2> QED
    BY <2>1, <2>2
<1> QED
  BY <1>1, <1>2 DEF Keys

\* offsetTable: as many rotations have a smaller symbol at distance d as there
\* are smaller symbols in the block.
LEMMA Smaller ==
    ASSUME NEW b, IsBlock(b), NEW order, IsOrder(b, order), NEW d \in 0 .. Len(b),
           NEW c \in Int
    PROVE  Cardinality({p \in DOMAIN b : b[p] < c})
              = Cardinality({k \in 1 .. Len(b) : Keys(b, order, d)[k] < c})
<1> DEFINE n == Len(b)
           key == Keys(b, order, d)
           at(k) == Place(b, order[k], d)
           S == {k \in 1 .. n : key[k] < c}
           T == {p \in DOMAIN b : b[p] < c}
           h == [k \in S |-> at(k)]
<1>1. DOMAIN b = 1 .. n /\ n \in Nat
  BY BlockFacts
<1>2. ASSUME NEW k \in 1 .. n
      PROVE  order[k] \in 0 .. n - 1 /\ at(k) \in 1 .. n /\ key[k] = b[at(k)]
  <2>1. order[k] \in 0 .. n - 1 /\ key[k] = Sym(b, order[k], d)
    BY KeysType
  <2> QED
    BY <2>1, SymIs
<1>3. h \in [S -> T]
  BY <1>1, <1>2
<1>4. IsInjective(h)
  <2> SUFFICES ASSUME NEW j \in S, NEW k \in S, at(j) = at(k) PROVE j = k
    BY DEF IsInjective
  <2>1. order[j] = order[k]
    <3>1. j \in 1 .. n /\ k \in 1 .. n
      OBVIOUS
    <3>2. order[j] \in 0 .. n - 1 /\ order[k] \in 0 .. n - 1
      BY <1>2, <3>1
    <3>3. Place(b, order[j], d) = Place(b, order[k], d)
      OBVIOUS
    <3> QED
      BY <3>2, <3>3, PlacesDiffer
  <2> QED
    BY <2>1, <1>1 DEF IsOrder, IsInjective
<1>5. \A p \in T : \E k \in S : h[k] = p
  <2> SUFFICES ASSUME NEW p \in T PROVE \E k \in S : at(k) = p
    OBVIOUS
  <2>1. p \in 1 .. n /\ b[p] < c /\ d \in 0 .. n
    BY <1>1
  <2> DEFINE q == IF p - 1 - d < 0 THEN (p + n) - (1 + d) ELSE p - (1 + d)
  <2>2. q \in 0 .. n - 1 /\ Place(b, q, d) = p
    <3>1. n = Len(b)
      OBVIOUS
    <3> HIDE DEF n
    <3>2. q \in 0 .. n - 1 /\ (IF q + d < n THEN q + d + 1 ELSE (q + d + 1) - n) = p
      BY <2>1, <1>1
    <3> QED
      BY <3>1, <3>2 DEF Place
  <2> HIDE DEF q
  <2>3. PICK k \in 1 .. n : order[k] = q
    BY <2>2, OrderOnto
  <2>4. at(k) = p /\ key[k] = b[p]
    BY <2>2, <2>3, <1>2
  <2> QED
    BY <2>1, <2>3, <2>4
<1>6. IsFiniteSet(S)
  <2>1. IsFiniteSet(1 .. n) /\ S \in SUBSET (1 .. n)
    BY <1>1, FS_Interval
  <2> QED
    BY <2>1, FS_Subset
<1>7. ExistsBijection(S, T)
  BY <1>3, <1>4, <1>5 DEF ExistsBijection, Bijection, Injection, Surjection
<1> HIDE DEF S, T
<1>8. Cardinality(T) = Cardinality(S)
  BY <1>6, <1>7, FS_Bijection
<1> QED
  BY <1>8 DEF S, T
\* A pass deals the rotations out by the rank of their symbols: it puts each
\* somewhere, and those with equal symbols stay in their order.
Dealt(b, order, d, to) ==
    \E from \in [1 .. Len(b) -> 1 .. Len(b)] :
        /\ IsInjective(from)
        /\ \A p \in 1 .. Len(b) : to[p] = order[from[p]]
        /\ \A p, q \in 1 .. Len(b) :
            p < q => Precedes(Keys(b, order, d), from[p], from[q])

LEMMA PassDeals ==
    ASSUME NEW b, IsBlock(b), NEW order, IsOrder(b, order), NEW d \in 0 .. Len(b)
    PROVE  IsOrder(b, Pass(b, order, d)) /\ Dealt(b, order, d, Pass(b, order, d))
<1> DEFINE n == Len(b)
           key == Keys(b, order, d)
           place(k) == Cardinality({p \in DOMAIN b : b[p] < Sym(b, order[k], d)})
                          + Cardinality({m \in 1 .. k : Sym(b, order[m], d) = Sym(b, order[k], d)})
           from == [p \in 1 .. n |-> CHOOSE k \in 1 .. n : Rank(key, n, k) = p]
           to == Pass(b, order, d)
<1>1. n \in Nat /\ DOMAIN b = 1 .. n
  BY BlockFacts
<1>2. key \in [1 .. n -> Int]
  BY KeysType
<1>3. ASSUME NEW k \in 1 .. n PROVE place(k) = Rank(key, n, k)
  <2>1. key[k] = Sym(b, order[k], d) /\ key[k] \in Int
    BY KeysType
  <2>2. Cardinality({p \in DOMAIN b : b[p] < key[k]})
           = Cardinality({m \in 1 .. n : key[m] < key[k]})
    BY <2>1, Smaller
  <2>3. {m \in 1 .. k : Sym(b, order[m], d) = Sym(b, order[k], d)}
           = {m \in 1 .. k : key[m] = key[k]}
    <3>1. \A m \in 1 .. k : m \in 1 .. n
      BY <1>1
    <3>2. \A m \in 1 .. n : key[m] = Sym(b, order[m], d)
      BY KeysType
    <3> HIDE DEF key
    <3> QED
      BY <3>1, <3>2
  <2>4. Rank(key, n, k) = Cardinality({j \in 1 .. n : key[j] < key[k]})
                             + Cardinality({j \in 1 .. k : key[j] = key[k]})
    BY <1>1, <1>2, RankIs
  <2> QED
    BY <2>1, <2>2, <2>3, <2>4
<1>4. ASSUME NEW p \in 1 .. n PROVE from[p] \in 1 .. n /\ Rank(key, n, from[p]) = p
  <2>1. \E k \in 1 .. n : Rank(key, n, k) = p
    BY <1>1, <1>2, RankOnto
  <2> QED
    BY <2>1
<1>5. \A p \in 1 .. n : to[p] = order[from[p]] /\ to \in [1 .. n -> 0 .. n - 1]
  <2>1. to = [p \in 1 .. n |-> order[CHOOSE k \in 1 .. n : place(k) = p]]
    BY <1>1 DEF Pass
  <2> HIDE DEF place, to, key
  <2>2. ASSUME NEW p \in 1 .. n
        PROVE  (CHOOSE k \in 1 .. n : place(k) = p) = from[p]
    BY <1>3
  <2>3. \A p \in 1 .. n : order[from[p]] \in 0 .. n - 1
    BY <1>1, <1>4 DEF IsOrder
  <2> HIDE DEF from
  <2>4. ASSUME NEW p \in 1 .. n PROVE to[p] = order[from[p]]
    <3>1. to[p] = order[CHOOSE k \in 1 .. n : place(k) = p]
      BY <2>1
    <3> QED
      BY <2>2, <3>1
  <2>5. to \in [1 .. n -> 0 .. n - 1]
    BY <2>1, <2>3, <2>4
  <2> QED
    BY <2>4, <2>5
<1> HIDE DEF key, to, from
<1>6. ASSUME NEW p \in 1 .. n, NEW q \in 1 .. n, from[p] = from[q] PROVE p = q
  BY <1>4, <1>6
<1>7. from \in [1 .. n -> 1 .. n] /\ IsInjective(from)
  <2>1. from = [p \in 1 .. n |-> from[p]]
    BY DEF from
  <2> QED
    BY <2>1, <1>4, <1>6 DEF IsInjective
<1>8. ASSUME NEW p \in 1 .. n, NEW q \in 1 .. n, p < q
      PROVE  Precedes(key, from[p], from[q])
  <2>1. Rank(key, n, from[p]) < Rank(key, n, from[q])
    BY <1>4, <1>8
  <2> QED
    BY <1>1, <1>2, <1>4, <2>1, RankTells
<1>9. IsInjective(to)
  <2>1. ASSUME NEW p \in 1 .. n, NEW q \in 1 .. n, to[p] = to[q] PROVE p = q
    <3>1. order[from[p]] = order[from[q]]
      BY <1>5, <2>1
    <3>2. from[p] = from[q]
      BY <3>1, <1>1, <1>4 DEF IsOrder, IsInjective
    <3> QED
      BY <3>2, <1>6
  <2>2. DOMAIN to = 1 .. n \/ n = 0
    BY <1>1, <1>5
  <2>3. n # 0
    BY BlockFacts
  <2> QED
    BY <2>1, <2>2, <2>3 DEF IsInjective
<1>10. to \in [1 .. n -> 0 .. n - 1]
  <2>1. 1 \in 1 .. n
    BY BlockFacts
  <2> QED
    BY <2>1, <1>5
<1>11. IsOrder(b, to)
  BY <1>1, <1>9, <1>10 DEF IsOrder
<1>12. Dealt(b, order, d, to)
  BY <1>5, <1>7, <1>8 DEF Dealt, key
<1> QED
  BY <1>11, <1>12 DEF to

\* The radix sort puts the rotations into the order of their first two symbols.
LEMMA RadixSorts ==
    ASSUME NEW b, IsBlock(b)
    PROVE  /\ IsOrder(b, RadixSorted(b))
           /\ \A p, q \in 1 .. Len(b) :
                p < q =>
                    \/ Sym(b, RadixSorted(b)[p], 0) < Sym(b, RadixSorted(b)[q], 0)
                    \/ /\ Sym(b, RadixSorted(b)[p], 0) = Sym(b, RadixSorted(b)[q], 0)
                       /\ Sym(b, RadixSorted(b)[p], 1) <= Sym(b, RadixSorted(b)[q], 1)
<1> DEFINE n == Len(b)
           o0 == [p \in DOMAIN b |-> p - 1]
           o1 == Pass(b, o0, 1)
           o2 == Pass(b, o1, 0)
<1>1. n \in Nat \ {0} /\ DOMAIN b = 1 .. n /\ 0 \in 0 .. n /\ 1 \in 0 .. n
  BY BlockFacts
<1>2. IsOrder(b, o0)
  BY <1>1 DEF IsOrder, IsInjective
<1> HIDE DEF o0
<1>3. IsOrder(b, o1) /\ Dealt(b, o0, 1, o1)
  BY <1>1, <1>2, PassDeals
<1> HIDE DEF o1
<1>4. IsOrder(b, o2) /\ Dealt(b, o1, 0, o2)
  BY <1>1, <1>3, PassDeals
<1> HIDE DEF o2
<1>5. PICK f \in [1 .. n -> 1 .. n] :
          /\ \A p \in 1 .. n : o1[p] = o0[f[p]]
          /\ \A p, q \in 1 .. n : p < q => Precedes(Keys(b, o0, 1), f[p], f[q])
  BY <1>3 DEF Dealt
<1>6. PICK g \in [1 .. n -> 1 .. n] :
          /\ \A p \in 1 .. n : o2[p] = o1[g[p]]
          /\ \A p, q \in 1 .. n : p < q => Precedes(Keys(b, o1, 0), g[p], g[q])
  BY <1>4 DEF Dealt
<1>7. ASSUME NEW k \in 1 .. n
      PROVE  /\ Keys(b, o1, 0)[k] = Sym(b, o1[k], 0)
             /\ Keys(b, o0, 1)[k] = Sym(b, o0[k], 1)
  BY <1>1, <1>2, <1>3, KeysType
<1>8. ASSUME NEW p \in 1 .. n, NEW q \in 1 .. n, p < q
      PROVE  Sym(b, o1[p], 1) <= Sym(b, o1[q], 1)
  <2>1. Precedes(Keys(b, o0, 1), f[p], f[q])
    BY <1>5, <1>8
  <2>2. f[p] \in 1 .. n /\ f[q] \in 1 .. n
    BY <1>5
  <2>3. Keys(b, o0, 1)[f[p]] = Sym(b, o1[p], 1) /\ Keys(b, o0, 1)[f[q]] = Sym(b, o1[q], 1)
    BY <1>5, <1>7, <2>2
  <2>4. Keys(b, o0, 1)[f[p]] \in Int /\ Keys(b, o0, 1)[f[q]] \in Int
    <3>1. Keys(b, o0, 1) \in [1 .. n -> Int]
      BY <1>1, <1>2, KeysType
    <3> QED
      BY <2>2, <3>1
  <2> QED
    BY <2>1, <2>3, <2>4 DEF Precedes
<1>9. ASSUME NEW p \in 1 .. n, NEW q \in 1 .. n, p < q
      PROVE  \/ Sym(b, o2[p], 0) < Sym(b, o2[q], 0)
             \/ /\ Sym(b, o2[p], 0) = Sym(b, o2[q], 0)
                /\ Sym(b, o2[p], 1) <= Sym(b, o2[q], 1)
  <2>1. Precedes(Keys(b, o1, 0), g[p], g[q])
    BY <1>6, <1>9
  <2>2. g[p] \in 1 .. n /\ g[q] \in 1 .. n
    BY <1>6
  <2>3. Keys(b, o1, 0)[g[p]] = Sym(b, o2[p], 0) /\ Keys(b, o1, 0)[g[q]] = Sym(b, o2[q], 0)
    BY <1>6, <1>7, <2>2
  <2>4. g[p] < g[q] => Sym(b, o1[g[p]], 1) <= Sym(b, o1[g[q]], 1)
    BY <1>8, <2>2
  <2> QED
    BY <2>1, <2>3, <2>4, <1>6 DEF Precedes
<1>10. o2 = RadixSorted(b)
  BY DEF o0, o1, o2, RadixSorted
<1> QED
  BY <1>4, <1>9, <1>10
-----------------------------------------------------------------------------
(* The order of the rotations.                                             *)

LEMMA LeastExists ==
    ASSUME NEW S \in SUBSET Nat, S # {}
    PROVE  \E x \in S : \A y \in S : x <= y
<1> DEFINE L == {p \in Nat \X Nat : p[1] < p[2]}
<1>1. IsWellFoundedOn(L, Nat)
  BY NatLessThanWellFounded DEF OpToRel
<1> HIDE DEF L
<1>2. PICK x \in S : \A y \in S : ~ (<<y, x>> \in L)
  BY <1>1, WFMin
<1>3. \A y \in S : x <= y
  <2> SUFFICES ASSUME NEW y \in S PROVE x <= y
    OBVIOUS
  <2>1. x \in Nat /\ y \in Nat
    OBVIOUS
  <2>2. ASSUME y < x PROVE FALSE
    <3>1. <<y, x>> \in L
      BY <2>1, <2>2 DEF L
    <3> QED
      BY <3>1, <1>2
  <2> QED
    BY <2>1, <2>2
<1> QED
  BY <1>3

Agree(b, r, s, d) == \A e \in 0 .. d - 1 : Sym(b, r, e) = Sym(b, s, e)
Alike(b, r, s) == Agree(b, r, s, Len(b))

\* Two rotations that differ do so at a first distance.
LEMMA FirstDifference ==
    ASSUME NEW b, NEW r, NEW s, NEW d \in Nat, ~ Agree(b, r, s, d)
    PROVE  \E e \in 0 .. d - 1 : Agree(b, r, s, e) /\ Sym(b, r, e) # Sym(b, s, e)
<1> DEFINE D == {e \in 0 .. d - 1 : Sym(b, r, e) # Sym(b, s, e)}
<1>1. D # {} /\ D \in SUBSET Nat
  BY DEF Agree
<1>2. PICK e \in D : \A h \in D : e <= h
  BY <1>1, LeastExists
<1>3. ASSUME NEW h \in 0 .. e - 1 PROVE Sym(b, r, h) = Sym(b, s, h)
  <2>1. h \in 0 .. d - 1 /\ ~ (e <= h)
    BY <1>2
  <2> QED
    BY <2>1, <1>2
<1> QED
  BY <1>2, <1>3 DEF Agree

LEMMA LeqAt ==
    ASSUME NEW b, NEW r, NEW s, NEW d \in 0 .. Len(b) - 1,
           RotationLeq(b, r, s), Agree(b, r, s, d)
    PROVE  Sym(b, r, d) <= Sym(b, s, d)
BY DEF RotationLeq, Agree

LEMMA LeqTransitive ==
    ASSUME NEW b, IsBlock(b), NEW r \in 0 .. Len(b) - 1, NEW s \in 0 .. Len(b) - 1,
           NEW t \in 0 .. Len(b) - 1, RotationLeq(b, r, s), RotationLeq(b, s, t)
    PROVE  RotationLeq(b, r, t)
<1>0. Len(b) \in Nat \ {0}
  BY BlockFacts
<1>1. ASSUME NEW d \in 0 .. Len(b) - 1
      PROVE  Sym(b, r, d) \in Nat /\ Sym(b, s, d) \in Nat /\ Sym(b, t, d) \in Nat
  <2>1. d \in 0 .. Len(b)
    BY <1>0
  <2> QED
    BY <2>1, SymIs
<1>2. ASSUME NEW d \in 0 .. Len(b) - 1, Agree(b, r, t, d)
      PROVE  Sym(b, r, d) <= Sym(b, t, d)
  <2>1. CASE Agree(b, r, s, d)
    <3>1. Agree(b, s, t, d)
      BY <2>1, <1>2 DEF Agree
    <3>2. Sym(b, r, d) <= Sym(b, s, d) /\ Sym(b, s, d) <= Sym(b, t, d)
      BY <2>1, <3>1, LeqAt
    <3>3. Sym(b, r, d) \in Nat /\ Sym(b, s, d) \in Nat /\ Sym(b, t, d) \in Nat
      BY <1>1
    <3> QED
      BY <3>2, <3>3
  <2>2. CASE ~ Agree(b, r, s, d)
    <3>1. PICK e \in 0 .. d - 1 : Agree(b, r, s, e) /\ Sym(b, r, e) # Sym(b, s, e)
      <4>1. d \in Nat
        BY <1>0
      <4> QED
        BY <4>1, <2>2, FirstDifference
    <3>2. e \in 0 .. Len(b) - 1 /\ Agree(b, r, t, e) /\ Sym(b, r, e) = Sym(b, t, e)
      BY <1>0, <1>2 DEF Agree
    <3>3. Agree(b, s, t, e)
      BY <3>1, <3>2 DEF Agree
    <3>4. Sym(b, r, e) <= Sym(b, s, e) /\ Sym(b, s, e) <= Sym(b, t, e)
      BY <3>1, <3>2, <3>3, LeqAt
    <3>5. Sym(b, r, e) \in Nat /\ Sym(b, s, e) \in Nat /\ Sym(b, t, e) \in Nat
      BY <3>2, <1>1
    <3> QED
      BY <3>1, <3>2, <3>4, <3>5
  <2> QED
    BY <2>1, <2>2
<1> QED
  BY <1>2 DEF RotationLeq, Agree

LEMMA LeqAntisymmetric ==
    ASSUME NEW b, IsBlock(b), NEW r \in 0 .. Len(b) - 1, NEW s \in 0 .. Len(b) - 1,
           RotationLeq(b, r, s), RotationLeq(b, s, r)
    PROVE  Alike(b, r, s)
<1> SUFFICES ASSUME ~ Alike(b, r, s) PROVE FALSE
  OBVIOUS
<1>0. Len(b) \in Nat \ {0}
  BY BlockFacts
<1>1. PICK e \in 0 .. Len(b) - 1 : Agree(b, r, s, e) /\ Sym(b, r, e) # Sym(b, s, e)
  BY <1>0, FirstDifference DEF Alike
<1>2. Agree(b, s, r, e)
  BY <1>1 DEF Agree
<1>3. Sym(b, r, e) <= Sym(b, s, e) /\ Sym(b, s, e) <= Sym(b, r, e)
  BY <1>1, <1>2, LeqAt
<1>4. Sym(b, r, e) \in Nat /\ Sym(b, s, e) \in Nat
  <2>1. e \in 0 .. Len(b)
    BY <1>0
  <2> QED
    BY <2>1, SymIs
<1> QED
  BY <1>1, <1>3, <1>4

LEMMA LeqReflexive ==
    ASSUME NEW b, IsBlock(b), NEW r \in 0 .. Len(b) - 1
    PROVE  RotationLeq(b, r, r)
<1>1. ASSUME NEW d \in 0 .. Len(b) - 1 PROVE Sym(b, r, d) <= Sym(b, r, d)
  <2>1. d \in 0 .. Len(b)
    BY BlockFacts
  <2>2. Sym(b, r, d) \in Nat
    BY <2>1, SymIs
  <2> QED
    BY <2>2
<1> QED
  BY <1>1 DEF RotationLeq

\* Rows in the order of the rotations: each row and the next one, and so any two.
Neighbours(b, order) ==
    \A k \in 1 .. Len(b) - 1 : RotationLeq(b, order[k], order[k + 1])
Rising(b, order) ==
    \A j, k \in 1 .. Len(b) : j <= k => RotationLeq(b, order[j], order[k])

LEMMA NeighboursRise ==
    ASSUME NEW b, IsBlock(b), NEW order, IsOrder(b, order), Neighbours(b, order)
    PROVE  Rising(b, order)
<1> DEFINE n == Len(b)
<1>1. n \in Nat \ {0} /\ \A k \in 1 .. n : order[k] \in 0 .. n - 1
  BY BlockFacts DEF IsOrder
<1> SUFFICES ASSUME NEW j \in 1 .. n
             PROVE  \A k \in 1 .. n : j <= k => RotationLeq(b, order[j], order[k])
  BY DEF Rising
<1> DEFINE Bad == {k \in j .. n : ~ RotationLeq(b, order[j], order[k])}
<1>2. Bad = {}
  <2> SUFFICES ASSUME Bad # {} PROVE FALSE
    OBVIOUS
  <2>1. PICK k \in Bad : \A h \in Bad : k <= h
    <3>1. Bad \in SUBSET Nat
      BY <1>1
    <3> QED
      BY <3>1, LeastExists
  <2>2. k \in j .. n /\ ~ RotationLeq(b, order[j], order[k])
    OBVIOUS
  <2>3. k # j
    BY <2>2, <1>1, LeqReflexive
  <2>4. k - 1 \in j .. n /\ k - 1 \notin Bad
    <3>1. k - 1 \in j .. n /\ ~ (k <= k - 1)
      BY <2>2, <2>3, <1>1
    <3> HIDE DEF Bad
    <3> QED
      BY <2>1, <3>1
  <2>5. RotationLeq(b, order[j], order[k - 1])
    BY <2>4
  <2>6. RotationLeq(b, order[k - 1], order[k])
    <3>1. k - 1 \in 1 .. Len(b) - 1 /\ k - 1 + 1 = k
      BY <1>1, <2>2, <2>4
    <3>2. RotationLeq(b, order[k - 1], order[k - 1 + 1])
      BY <3>1 DEF Neighbours
    <3> QED
      BY <3>1, <3>2
  <2>7. order[j] \in 0 .. n - 1 /\ order[k - 1] \in 0 .. n - 1 /\ order[k] \in 0 .. n - 1
    BY <1>1, <2>2, <2>4
  <2> QED
    BY <2>2, <2>5, <2>6, <2>7, LeqTransitive
<1>3. ASSUME NEW k \in 1 .. n, j <= k PROVE RotationLeq(b, order[j], order[k])
  <2>1. k \in j .. n
    BY <1>1, <1>3
  <2> QED
    BY <2>1, <1>2
<1> QED
  BY <1>3

\* What qsort makes of the radix sort's groups is the order of the rotations.
LEMMA GroupsSorted ==
    ASSUME NEW b, IsBlock(b), NEW sorted \in GroupSorts(b, RadixSorted(b))
    PROVE  IsOrder(b, sorted) /\ Neighbours(b, sorted)
<1> DEFINE n == Len(b)
           o == RadixSorted(b)
<1>1. /\ sorted \in [DOMAIN b -> 0 .. n - 1] /\ IsInjective(sorted)
      /\ \A k \in DOMAIN b, d \in 0 .. 1 : Sym(b, sorted[k], d) = Sym(b, o[k], d)
      /\ \A k \in 1 .. n - 1 :
          (\A d \in 0 .. 1 : Sym(b, sorted[k], d) = Sym(b, sorted[k + 1], d))
              => ComparePresorted(b, sorted[k], sorted[k + 1])
  BY DEF GroupSorts
<1>2. n \in Nat \ {0} /\ DOMAIN b = 1 .. n
  BY BlockFacts
<1>3. ASSUME NEW k \in 1 .. n - 1
      PROVE  RotationLeq(b, sorted[k], sorted[k + 1])
  <2> DEFINE r == sorted[k]
             s == sorted[k + 1]
  <2>1. k \in 1 .. n /\ k + 1 \in 1 .. n /\ k < k + 1
    BY <1>2
  <2>2. r \in 0 .. n - 1 /\ s \in 0 .. n - 1
    BY <2>1, <1>1, <1>2
  <2>3. /\ Sym(b, r, 0) = Sym(b, o[k], 0) /\ Sym(b, r, 1) = Sym(b, o[k], 1)
        /\ Sym(b, s, 0) = Sym(b, o[k + 1], 0) /\ Sym(b, s, 1) = Sym(b, o[k + 1], 1)
    BY <2>1, <1>1, <1>2
  <2>4. \/ Sym(b, r, 0) < Sym(b, s, 0)
        \/ Sym(b, r, 0) = Sym(b, s, 0) /\ Sym(b, r, 1) <= Sym(b, s, 1)
    BY <2>1, <2>3, RadixSorts
  <2>5. Sym(b, r, 0) \in Nat /\ Sym(b, s, 0) \in Nat
    <3>1. 0 \in 0 .. Len(b)
      BY <1>2
    <3> QED
      BY <2>2, <3>1, SymIs
  <2>6. (\A d \in 0 .. 1 : Sym(b, r, d) = Sym(b, s, d)) => ComparePresorted(b, r, s)
    BY <1>1
  <2> HIDE DEF r, s
  <2>7. ASSUME NEW d \in 0 .. n - 1, \A e \in 0 .. d - 1 : Sym(b, r, e) = Sym(b, s, e)
        PROVE  Sym(b, r, d) <= Sym(b, s, d)
    <3>1. CASE d = 0
      BY <3>1, <2>4, <2>5
    <3>2. CASE d = 1
      <4>1. Sym(b, r, 0) = Sym(b, s, 0)
        BY <2>7, <3>2
      <4> QED
        BY <4>1, <2>4, <2>5, <3>2
    <3>3. CASE d \notin {0, 1}
      <4>1. d \in 2 .. n - 1 /\ 0 \in 0 .. d - 1 /\ 1 \in 0 .. d - 1
        BY <3>3, <1>2
      <4>2. \A h \in 0 .. 1 : Sym(b, r, h) = Sym(b, s, h)
        BY <4>1, <2>7
      <4>3. ComparePresorted(b, r, s)
        BY <4>2, <2>6
      <4>4. \A e \in 2 .. d - 1 : Sym(b, r, e) = Sym(b, s, e)
        BY <4>1, <2>7
      <4> QED
        BY <4>1, <4>3, <4>4 DEF ComparePresorted
    <3> QED
      BY <3>1, <3>2, <3>3
  <2>8. RotationLeq(b, r, s)
    BY <2>7 DEF RotationLeq
  <2> QED
    BY <2>8 DEF r, s
<1>4. IsOrder(b, sorted)
  BY <1>1, <1>2 DEF IsOrder
<1> QED
  BY <1>3, <1>4 DEF Neighbours
-----------------------------------------------------------------------------
(* The way from a row to that of the rotation one symbol further back.     *)

\* Two risings of the same rotations are alike in every row: below a row of
\* one that is less, as many rotations of the other would not find a place.
LEMMA SameListing ==
    ASSUME NEW b, IsBlock(b), NEW f, IsOrder(b, f), Rising(b, f),
           NEW g, IsOrder(b, g), Rising(b, g), NEW q \in 1 .. Len(b)
    PROVE  RotationLeq(b, f[q], g[q])
<1> DEFINE n == Len(b)
<1> SUFFICES ASSUME ~ RotationLeq(b, f[q], g[q]) PROVE FALSE
  OBVIOUS
<1>1. /\ n \in Nat \ {0}
      /\ \A k \in 1 .. n : f[k] \in 0 .. n - 1 /\ g[k] \in 0 .. n - 1
  BY BlockFacts DEF IsOrder
<1> DEFINE at == [r \in 1 .. q |-> CHOOSE k \in 1 .. n : f[k] = g[r]]
<1>2. ASSUME NEW r \in 1 .. q
      PROVE  at[r] \in 1 .. n /\ f[at[r]] = g[r]
  <2>1. r \in 1 .. n /\ g[r] \in 0 .. n - 1
    BY <1>1
  <2>2. \E k \in 1 .. n : f[k] = g[r]
    <3>1. \A p \in 0 .. n - 1 : \E k \in 1 .. n : f[k] = p
      BY OrderOnto
    <3> QED
      BY <2>1, <3>1
  <2> QED
    BY <2>2
<1> HIDE DEF at
<1>3. ASSUME NEW r \in 1 .. q
      PROVE  at[r] \in 1 .. q - 1
  <2> SUFFICES ASSUME q <= at[r] PROVE FALSE
    <3>1. at[r] \in 1 .. n
      BY <1>2
    <3> QED
      BY <3>1, <1>1
  <2>1. at[r] \in 1 .. n /\ r \in 1 .. n /\ r <= q
    BY <1>1, <1>2
  <2>2. RotationLeq(b, f[q], f[at[r]]) /\ RotationLeq(b, g[r], g[q])
    BY <2>1 DEF Rising
  <2>3. f[at[r]] = g[r]
    BY <1>2
  <2>4. f[q] \in 0 .. n - 1 /\ g[r] \in 0 .. n - 1 /\ g[q] \in 0 .. n - 1
    BY <1>1, <2>1
  <2>5. RotationLeq(b, f[q], g[r])
    BY <2>2, <2>3
  <2> QED
    BY <2>2, <2>4, <2>5, LeqTransitive
<1>4. at \in [1 .. q -> 1 .. q - 1]
  <2>1. at = [r \in 1 .. q |-> at[r]]
    BY DEF at
  <2> QED
    BY <1>3, <2>1
<1>5. /\ IsFiniteSet(1 .. q) /\ IsFiniteSet(1 .. q - 1)
      /\ Cardinality(1 .. q - 1) < Cardinality(1 .. q)
  <2>1. q \in Int /\ 1 <= q
    BY <1>1
  <2>2. IsFiniteSet(1 .. q) /\ Cardinality(1 .. q) = IF 1 > q THEN 0 ELSE q - 1 + 1
    BY <2>1, FS_Interval
  <2>3. /\ IsFiniteSet(1 .. q - 1)
        /\ Cardinality(1 .. q - 1) = IF 1 > q - 1 THEN 0 ELSE (q - 1) - 1 + 1
    BY <2>1, FS_Interval
  <2> QED
    BY <2>1, <2>2, <2>3
<1>6. PICK x, y \in 1 .. q : x # y /\ at[x] = at[y]
  BY <1>4, <1>5, FS_PigeonHole
<1>7. g[x] = g[y]
  BY <1>2, <1>6
<1>8. x \in 1 .. n /\ y \in 1 .. n
  BY <1>1
<1> QED
  BY <1>6, <1>7, <1>8, BlockFacts DEF IsOrder, IsInjective

\* The rotation one symbol further back.
Back(b, p) == IF p = 0 THEN Len(b) - 1 ELSE p - 1

LEMMA BackIs ==
    ASSUME NEW b, IsBlock(b), NEW p \in 0 .. Len(b) - 1
    PROVE  /\ Back(b, p) \in 0 .. Len(b) - 1
           /\ Sym(b, Back(b, p), 0) = Sym(b, p, Len(b) - 1)
           /\ \A d \in 1 .. Len(b) - 1 : Sym(b, Back(b, p), d) = Sym(b, p, d - 1)
<1> DEFINE n == Len(b)
<1>1. n \in Nat \ {0}
  BY BlockFacts
<1>2. Back(b, p) \in 0 .. n - 1
  BY <1>1 DEF Back
<1>3. Sym(b, Back(b, p), 0) = Sym(b, p, n - 1)
  <2>1. Place(b, Back(b, p), 0) = Place(b, p, n - 1)
    BY <1>1 DEF Place, Back
  <2>2. 0 \in 0 .. n /\ n - 1 \in 0 .. n
    BY <1>1
  <2> QED
    BY <2>1, <2>2, <1>2, SymIs
<1>4. ASSUME NEW d \in 1 .. n - 1
      PROVE  Sym(b, Back(b, p), d) = Sym(b, p, d - 1)
  <2>1. Place(b, Back(b, p), d) = Place(b, p, d - 1)
    BY <1>1 DEF Place, Back
  <2>2. d \in 0 .. n /\ d - 1 \in 0 .. n
    BY <1>1
  <2> QED
    BY <2>1, <2>2, <1>2, SymIs
<1> QED
  BY <1>2, <1>3, <1>4

LEMMA LastColumnIs ==
    ASSUME NEW b, IsBlock(b), NEW order, IsOrder(b, order)
    PROVE  /\ LastColumn(b, order) \in [1 .. Len(b) -> Symbols]
           /\ LastColumn(b, order) \in [1 .. Len(b) -> Int]
           /\ \A k \in 1 .. Len(b) :
                /\ order[k] \in 0 .. Len(b) - 1
                /\ LastColumn(b, order)[k] = Sym(b, order[k], Len(b) - 1)
<1>1. DOMAIN b = 1 .. Len(b) /\ Len(b) - 1 \in 0 .. Len(b)
  BY BlockFacts
<1>2. ASSUME NEW k \in 1 .. Len(b)
      PROVE  /\ order[k] \in 0 .. Len(b) - 1
             /\ Sym(b, order[k], Len(b) - 1) \in Symbols
             /\ Sym(b, order[k], Len(b) - 1) \in Int
  <2>1. order[k] \in 0 .. Len(b) - 1
    BY <1>1 DEF IsOrder
  <2>2. /\ Sym(b, order[k], Len(b) - 1) \in Nat
        /\ Sym(b, order[k], Len(b) - 1) \in Symbols
    BY <1>1, <2>1, SymIs
  <2> QED
    BY <2>1, <2>2
<1> QED
  BY <1>1, <1>2 DEF LastColumn

\* The symbols before the rotations come first, then the rotations.
LEMMA BackRises ==
    ASSUME NEW b, IsBlock(b), NEW order, IsOrder(b, order), Rising(b, order),
           NEW j \in 1 .. Len(b), NEW k \in 1 .. Len(b),
           Precedes(LastColumn(b, order), j, k)
    PROVE  RotationLeq(b, Back(b, order[j]), Back(b, order[k]))
<1> DEFINE n == Len(b)
           r == Back(b, order[j])
           s == Back(b, order[k])
<1>1. n \in Nat \ {0}
  BY BlockFacts
<1>2. /\ order[j] \in 0 .. n - 1 /\ order[k] \in 0 .. n - 1
      /\ LastColumn(b, order)[j] = Sym(b, order[j], n - 1)
      /\ LastColumn(b, order)[k] = Sym(b, order[k], n - 1)
  BY LastColumnIs
<1>3. /\ r \in 0 .. n - 1 /\ s \in 0 .. n - 1
      /\ Sym(b, r, 0) = Sym(b, order[j], n - 1)
      /\ Sym(b, s, 0) = Sym(b, order[k], n - 1)
      /\ \A d \in 1 .. n - 1 : /\ Sym(b, r, d) = Sym(b, order[j], d - 1)
                               /\ Sym(b, s, d) = Sym(b, order[k], d - 1)
  BY <1>2, BackIs
<1>4. \/ Sym(b, r, 0) < Sym(b, s, 0)
      \/ Sym(b, r, 0) = Sym(b, s, 0) /\ j < k
  BY <1>2, <1>3 DEF Precedes
<1>5. Sym(b, r, 0) \in Nat /\ Sym(b, s, 0) \in Nat
  <2>1. 0 \in 0 .. Len(b)
    BY <1>1
  <2> QED
    BY <2>1, <1>3, SymIs
<1> HIDE DEF r, s
<1>6. ASSUME NEW d \in 0 .. n - 1, \A e \in 0 .. d - 1 : Sym(b, r, e) = Sym(b, s, e)
      PROVE  Sym(b, r, d) <= Sym(b, s, d)
  <2>1. CASE d = 0
    BY <2>1, <1>4, <1>5
  <2>2. CASE d # 0
    <3>1. d \in 1 .. n - 1 /\ d - 1 \in 0 .. n - 1 /\ 0 \in 0 .. d - 1
      BY <2>2, <1>1
    <3>2. Sym(b, r, 0) = Sym(b, s, 0)
      BY <3>1, <1>6
    <3>3. j <= k
      BY <3>2, <1>1, <1>4, <1>5
    <3>4. RotationLeq(b, order[j], order[k])
      BY <3>3 DEF Rising
    <3>5. ASSUME NEW e \in 0 .. d - 1 - 1
          PROVE  Sym(b, order[j], e) = Sym(b, order[k], e)
      <4>1. e + 1 \in 1 .. n - 1 /\ e + 1 \in 0 .. d - 1 /\ e + 1 - 1 = e
        BY <3>1, <1>1
      <4>2. Sym(b, r, e + 1) = Sym(b, s, e + 1)
        BY <4>1, <1>6
      <4>3. /\ Sym(b, r, e + 1) = Sym(b, order[j], e + 1 - 1)
            /\ Sym(b, s, e + 1) = Sym(b, order[k], e + 1 - 1)
        BY <4>1, <1>3
      <4> QED
        BY <4>1, <4>2, <4>3
    <3>6. Sym(b, order[j], d - 1) <= Sym(b, order[k], d - 1)
      BY <3>1, <3>4, <3>5 DEF RotationLeq
    <3> QED
      BY <3>1, <3>6, <1>3
  <2> QED
    BY <2>1, <2>2
<1>7. RotationLeq(b, r, s)
  BY <1>6 DEF RotationLeq
<1> QED
  BY <1>7 DEF r, s

\* The rank of a row by its last symbol is the row of the rotation one symbol
\* further back, or of one that is alike.
LEMMA RankGoesBack ==
    ASSUME NEW b, IsBlock(b), NEW order, IsOrder(b, order), Rising(b, order),
           NEW k \in 1 .. Len(b)
    PROVE  Alike(b, order[Rank(LastColumn(b, order), Len(b), k)], Back(b, order[k]))
<1> DEFINE n == Len(b)
           last == LastColumn(b, order)
           inv == [q \in 1 .. n |-> CHOOSE j \in 1 .. n : Rank(last, n, j) = q]
           g == [q \in 1 .. n |-> Back(b, order[inv[q]])]
           m == Rank(last, n, k)
<1>1. n \in Nat \ {0} /\ DOMAIN b = 1 .. n
  BY BlockFacts
<1>2. last \in [1 .. n -> Int] /\ \A j \in 1 .. n : order[j] \in 0 .. n - 1
  BY LastColumnIs
<1>3. ASSUME NEW q \in 1 .. n PROVE inv[q] \in 1 .. n /\ Rank(last, n, inv[q]) = q
  <2>1. \E j \in 1 .. n : Rank(last, n, j) = q
    BY <1>1, <1>2, RankOnto, SMTT(30)
  <2> QED
    BY <2>1
<1> HIDE DEF inv
<1>4. ASSUME NEW q \in 1 .. n
      PROVE  g[q] = Back(b, order[inv[q]]) /\ g[q] \in 0 .. n - 1
  <2>1. order[inv[q]] \in 0 .. n - 1
    BY <1>2, <1>3
  <2> QED
    BY <2>1, BackIs
<1>5. g \in [DOMAIN b -> 0 .. n - 1]
  BY <1>1, <1>4
<1> HIDE DEF g
<1>6. ASSUME NEW q \in 1 .. n, NEW r \in 1 .. n, g[q] = g[r] PROVE q = r
  <2>1. inv[q] \in 1 .. n /\ inv[r] \in 1 .. n
    BY <1>3
  <2>2. order[inv[q]] \in 0 .. n - 1 /\ order[inv[r]] \in 0 .. n - 1
    BY <2>1, <1>2
  <2>3. Back(b, order[inv[q]]) = Back(b, order[inv[r]])
    BY <1>4, <1>6
  <2>4. order[inv[q]] = order[inv[r]]
    BY <2>2, <2>3, <1>1 DEF Back
  <2>5. inv[q] = inv[r]
    BY <2>1, <2>4, <1>1 DEF IsOrder, IsInjective
  <2> QED
    BY <2>5, <1>3
<1>7. IsOrder(b, g)
  BY <1>1, <1>5, <1>6 DEF IsOrder, IsInjective
<1>8. ASSUME NEW q \in 1 .. n, NEW r \in 1 .. n, q <= r
      PROVE  RotationLeq(b, g[q], g[r])
  <2>1. CASE q = r
    <3>1. g[q] \in 0 .. n - 1
      BY <1>4
    <3> QED
      BY <2>1, <3>1, LeqReflexive
  <2>2. CASE q # r
    <3>1. inv[q] \in 1 .. n /\ inv[r] \in 1 .. n
      BY <1>3
    <3>2. Rank(last, n, inv[q]) < Rank(last, n, inv[r])
      BY <2>2, <1>3, <1>8
    <3>3. Precedes(last, inv[q], inv[r])
      BY <3>1, <3>2, <1>1, <1>2, RankTells
    <3>4. RotationLeq(b, Back(b, order[inv[q]]), Back(b, order[inv[r]]))
      BY <3>1, <3>3, BackRises
    <3> QED
      BY <3>4, <1>4
  <2> QED
    BY <2>1, <2>2
<1>9. Rising(b, g)
  BY <1>8 DEF Rising
<1>10. m \in 1 .. n
  BY <1>1, <1>2, RankType
<1>11. inv[m] = k
  <2>1. inv[m] \in 1 .. n /\ Rank(last, n, inv[m]) = Rank(last, n, k)
    BY <1>3, <1>10
  <2> QED
    BY <2>1, <1>1, <1>2, RankTells
<1> HIDE DEF m
<1>12. RotationLeq(b, order[m], g[m]) /\ RotationLeq(b, g[m], order[m])
  BY <1>7, <1>9, <1>10, SameListing
<1>13. Alike(b, order[m], g[m])
  BY <1>2, <1>4, <1>10, <1>12, LeqAntisymmetric
<1>14. g[m] = Back(b, order[k])
  BY <1>4, <1>10, <1>11
<1> QED
  BY <1>13, <1>14 DEF m
\* pred[i] + count[last[i]] is that rank, counted from 0.
LEMMA PredIs ==
    ASSUME NEW n \in Nat \ {0}, NEW last \in [1 .. n -> Int], NEW i \in 0 .. n - 1
    PROVE  /\ Pred(last, i) = Rank(last, n, i + 1) - 1
           /\ Pred(last, i) \in 0 .. n - 1
<1> DEFINE k == i + 1
           S == {j \in 1 .. n : last[j] < last[k]}
           T == {j \in 1 .. i : last[j] = last[k]}
           U == {j \in 1 .. k : last[j] = last[k]}
<1>1. k \in 1 .. n /\ i \in Nat /\ n \in Nat
  OBVIOUS
<1>2. Rank(last, n, k) = Cardinality(S) + Cardinality(U)
  BY <1>1, RankIs
<1>3. U = T \cup {k} /\ k \notin T
  BY <1>1
<1>4. IsFiniteSet(S) /\ IsFiniteSet(T)
  <2>1. /\ IsFiniteSet(1 .. n) /\ S \in SUBSET (1 .. n)
        /\ IsFiniteSet(1 .. i) /\ T \in SUBSET (1 .. i)
    BY <1>1, FS_Interval
  <2> QED
    BY <2>1, FS_Subset
<1>5. Pred(last, i) = Cardinality(T) + Cardinality(S)
  <2>1. DOMAIN last = 1 .. n
    OBVIOUS
  <2> QED
    BY <2>1 DEF Pred
<1>6. Rank(last, n, k) \in 1 .. n
  BY <1>1, RankType
<1> HIDE DEF S, T, U, k
<1>7. Cardinality(U) = Cardinality(T) + 1
  BY <1>3, <1>4, FS_AddElement
<1>8. Cardinality(S) \in Nat /\ Cardinality(T) \in Nat
  BY <1>4, FS_CardinalityType
<1>9. Pred(last, i) = Rank(last, n, k) - 1 /\ Pred(last, i) \in 0 .. n - 1
  BY <1>2, <1>5, <1>6, <1>7, <1>8
<1> QED
  BY <1>9 DEF k

\* Being alike, and one symbol further back.
LEMMA AlikeBack ==
    ASSUME NEW b, IsBlock(b), NEW p \in 0 .. Len(b) - 1, NEW q \in 0 .. Len(b) - 1,
           Alike(b, p, q)
    PROVE  Alike(b, Back(b, p), Back(b, q))
<1>1. Len(b) \in Nat \ {0}
  BY BlockFacts
<1>2. ASSUME NEW d \in 0 .. Len(b) - 1
      PROVE  Sym(b, Back(b, p), d) = Sym(b, Back(b, q), d)
  <2>1. CASE d = 0
    <3>1. Sym(b, p, Len(b) - 1) = Sym(b, q, Len(b) - 1)
      BY <1>1 DEF Alike, Agree
    <3> QED
      BY <2>1, <3>1, BackIs
  <2>2. CASE d # 0
    <3>1. d \in 1 .. Len(b) - 1 /\ d - 1 \in 0 .. Len(b) - 1
      BY <2>2, <1>1
    <3>2. Sym(b, p, d - 1) = Sym(b, q, d - 1)
      BY <3>1 DEF Alike, Agree
    <3> QED
      BY <3>1, <3>2, BackIs
  <2> QED
    BY <2>1, <2>2
<1> QED
  BY <1>2 DEF Alike, Agree

LEMMA AlikeTransitive ==
    ASSUME NEW b, NEW p, NEW q, NEW r, Alike(b, p, q), Alike(b, q, r)
    PROVE  Alike(b, p, r)
BY DEF Alike, Agree

\* There is a sequence of elements of T that begins with a and goes on by g.
Recursion(T, a, N, g) ==
    \E f \in [0 .. N -> T] : f[0] = a /\ \A k \in 1 .. N : f[k] = g[<<k, f[k - 1]>>]

LEMMA RecursionExists ==
    ASSUME NEW T, NEW a, NEW N, NEW g,
           a \in T, N \in Nat, g \in [(1 .. N) \X T -> T]
    PROVE  Recursion(T, a, N, g)
<1> DEFINE Upto(f, k) == f[0] = a /\ \A j \in 1 .. k : f[j] = g[<<j, f[j - 1]>>]
           Bad == {k \in 0 .. N : \A f \in [0 .. k -> T] : ~ Upto(f, k)}
<1>1. Bad = {}
  <2> SUFFICES ASSUME Bad # {} PROVE FALSE
    OBVIOUS
  <2>1. PICK k \in Bad : \A j \in Bad : k <= j
    <3>1. Bad \in SUBSET Nat
      OBVIOUS
    <3> QED
      BY <3>1, LeastExists
  <2>2. k # 0
    <3>1. [j \in 0 .. 0 |-> a] \in [0 .. 0 -> T] /\ Upto([j \in 0 .. 0 |-> a], 0)
      OBVIOUS
    <3> QED
      BY <3>1
  <2>3. k - 1 \in 0 .. N /\ k - 1 \notin Bad
    <3>1. k \in 0 .. N
      OBVIOUS
    <3> HIDE DEF Bad
    <3>2. k - 1 \in 0 .. N /\ ~ (k <= k - 1)
      BY <3>1, <2>2
    <3> QED
      BY <3>2, <2>1
  <2>4. PICK f \in [0 .. k - 1 -> T] : Upto(f, k - 1)
    BY <2>3
  <2> DEFINE h == [j \in 0 .. k |-> IF j = k THEN g[<<k, f[k - 1]>>] ELSE f[j]]
  <2>5. k \in 1 .. N
    BY <2>1, <2>2
  <2>6. h \in [0 .. k -> T]
    <3>1. <<k, f[k - 1]>> \in (1 .. N) \X T
      BY <2>5, <2>4
    <3>2. g[<<k, f[k - 1]>>] \in T
      BY <3>1
    <3> QED
      BY <3>2, <2>5
  <2>7. Upto(h, k)
    <3>1. h[0] = a
      BY <2>4, <2>5
    <3>2. ASSUME NEW j \in 1 .. k PROVE h[j] = g[<<j, h[j - 1]>>]
      <4>1. h[j - 1] = f[j - 1]
        BY <2>5
      <4>2. CASE j = k
        BY <4>1, <4>2, <2>5
      <4>3. CASE j # k
        <5>1. j \in 1 .. k - 1
          BY <4>3, <2>5
        <5>2. h[j] = f[j]
          BY <4>3, <2>5
        <5> QED
          BY <5>1, <5>2, <4>1, <2>4
      <4> QED
        BY <4>2, <4>3
    <3> QED
      BY <3>1, <3>2
  <2> QED
    BY <2>6, <2>7, <2>1
<1>2. N \notin Bad
  BY <1>1
<1> QED
  BY <1>2 DEF Recursion
-----------------------------------------------------------------------------
(* The reversal of a block.                                                *)

\* The rows that BWReverseXform goes through, as Unrotated defines them.
IsWay(row, last, s0Idx) ==
    row = [j \in 1 .. Len(last) |->
              IF j = Len(last) THEN s0Idx ELSE Pred(last, row[j + 1])]

LEMMA WayExists ==
    ASSUME NEW n \in Nat \ {0}, NEW last \in [1 .. n -> Int], Len(last) = n,
           NEW s0Idx \in 0 .. n - 1
    PROVE  \E row : IsWay(row, last, s0Idx)
<1> DEFINE T == 0 .. n - 1
           g == [p \in (1 .. n - 1) \X T |-> Pred(last, p[2])]
<1>1. g \in [(1 .. n - 1) \X T -> T]
  <2>1. \A i \in T : Pred(last, i) \in T
    BY PredIs
  <2>2. \A p \in (1 .. n - 1) \X T : p[2] \in T
    OBVIOUS
  <2> HIDE DEF T
  <2> QED
    BY <2>1, <2>2
<1>2. n - 1 \in Nat /\ s0Idx \in T
  OBVIOUS
<1> HIDE DEF g, T
<1>3. Recursion(T, s0Idx, n - 1, g)
  BY <1>1, <1>2, RecursionExists, Zenon
<1>4. PICK f \in [0 .. n - 1 -> T] :
          f[0] = s0Idx /\ \A k \in 1 .. n - 1 : f[k] = g[<<k, f[k - 1]>>]
  BY <1>3 DEF Recursion
<1>5. ASSUME NEW k \in 1 .. n - 1 PROVE f[k] = Pred(last, f[k - 1])
  <2>1. k - 1 \in 0 .. n - 1
    OBVIOUS
  <2>2. f[k - 1] \in T
    BY <2>1
  <2>3. g[<<k, f[k - 1]>>] = Pred(last, f[k - 1])
    BY <2>2 DEF g
  <2> QED
    BY <2>3, <1>4
<1> DEFINE row == [j \in 1 .. n |-> f[n - j]]
<1>6. ASSUME NEW j \in 1 .. n
      PROVE  row[j] = IF j = n THEN s0Idx ELSE Pred(last, row[j + 1])
  <2>1. CASE j = n
    <3>1. n - j = 0
      BY <2>1
    <3> QED
      BY <3>1, <2>1, <1>4
  <2>2. CASE j # n
    <3>1. n - j \in 1 .. n - 1 /\ n - (j + 1) = (n - j) - 1 /\ j + 1 \in 1 .. n
      BY <2>2
    <3>2. f[n - j] = Pred(last, f[(n - j) - 1])
      BY <3>1, <1>5
    <3>3. row[j + 1] = f[n - (j + 1)] /\ row[j] = f[n - j]
      BY <3>1
    <3> QED
      BY <3>1, <3>2, <3>3, <2>2
  <2> QED
    BY <2>1, <2>2
<1>7. row = [j \in 1 .. n |-> IF j = n THEN s0Idx ELSE Pred(last, row[j + 1])]
  <2> DEFINE r2 == [j \in 1 .. n |-> IF j = n THEN s0Idx ELSE Pred(last, row[j + 1])]
  <2>1. \A j \in 1 .. n : r2[j] = row[j]
    BY <1>6
  <2>2. DOMAIN row = 1 .. n /\ DOMAIN r2 = 1 .. n
    OBVIOUS
  <2>3. row = [j \in 1 .. n |-> row[j]] /\ r2 = [j \in 1 .. n |-> r2[j]]
    OBVIOUS
  <2> HIDE DEF row, r2
  <2>4. row = r2
    BY <2>1, <2>3
  <2> QED
    BY <2>4 DEF r2
<1> HIDE DEF row
<1>8. IsWay(row, last, s0Idx)
  BY <1>7 DEF IsWay
<1> QED
  BY <1>8

\* The position at which the block is when e more symbols are to be written.
At(b, e) == IF e = 0 THEN 0 ELSE Len(b) - e

\* On the way, each row is that of the rotation at the symbol last written,
\* or one alike: in a periodic block there are several.
LEMMA WayIsBack ==
    ASSUME NEW b, IsBlock(b), NEW order, IsOrder(b, order), Rising(b, order),
           NEW s0Idx \in 0 .. Len(b) - 1, order[s0Idx + 1] = 0,
           NEW row, IsWay(row, LastColumn(b, order), s0Idx),
           NEW e \in 0 .. Len(b) - 1
    PROVE  /\ row[Len(b) - e] \in 0 .. Len(b) - 1
           /\ Alike(b, order[row[Len(b) - e] + 1], At(b, e))
<1> DEFINE n == Len(b)
           last == LastColumn(b, order)
           Good(d) == row[n - d] \in 0 .. n - 1 /\ Alike(b, order[row[n - d] + 1], At(b, d))
           Bad == {d \in 0 .. n - 1 : ~ Good(d)}
<1>1. n \in Nat \ {0}
  BY BlockFacts
<1>2. /\ last \in [1 .. n -> Int] /\ Len(last) = n
      /\ \A k \in 1 .. n : order[k] \in 0 .. n - 1
  <2>1. last \in [1 .. n -> Symbols]
    BY LastColumnIs
  <2>2. Len(last) = n
    <3> HIDE DEF last, n
    <3>1. last \in Seq(Symbols) /\ DOMAIN last = 1 .. n
      BY <2>1, <1>1
    <3> QED
      BY <3>1, <1>1
  <2> QED
    BY <2>2, LastColumnIs
<1>3. ASSUME NEW j \in 1 .. n
      PROVE  row[j] = IF j = n THEN s0Idx ELSE Pred(last, row[j + 1])
  <2>1. row = [i \in 1 .. n |-> IF i = n THEN s0Idx ELSE Pred(last, row[i + 1])]
    BY <1>2 DEF IsWay
  <2> HIDE DEF last, n
  <2> QED
    BY <2>1
<1>4. Good(0)
  <2>1. n \in 1 .. n /\ n - 0 = n
    BY <1>1
  <2>2. row[n] = s0Idx
    BY <2>1, <1>3
  <2>3. Alike(b, 0, 0)
    BY DEF Alike, Agree
  <2>4. At(b, 0) = 0
    BY DEF At
  <2> QED
    BY <2>1, <2>2, <2>3, <2>4
<1>5. ASSUME NEW d \in 1 .. n - 1, Good(d - 1) PROVE Good(d)
  <2> DEFINE i == row[(n - d) + 1]
  <2>1. n - d \in 1 .. n /\ n - d # n /\ n - (d - 1) = (n - d) + 1
    BY <1>1
  <2>2. i \in 0 .. n - 1 /\ Alike(b, order[i + 1], At(b, d - 1))
    BY <1>5, <2>1
  <2>3. row[n - d] = Pred(last, i)
    BY <1>3, <2>1
  <2>4. Pred(last, i) = Rank(last, n, i + 1) - 1 /\ Pred(last, i) \in 0 .. n - 1
    <3> HIDE DEF i, last, n
    <3> QED
      BY <1>1, <1>2, <2>2, PredIs
  <2>5. i + 1 \in 1 .. n
    BY <2>2, <1>1
  <2> HIDE DEF i
  <2>6. Alike(b, order[Rank(last, n, i + 1)], Back(b, order[i + 1]))
    BY <2>5, RankGoesBack
  <2>7. At(b, d - 1) \in 0 .. n - 1 /\ Back(b, At(b, d - 1)) = At(b, d)
    BY <1>1 DEF At, Back
  <2>8. Alike(b, Back(b, order[i + 1]), At(b, d))
    <3>1. order[i + 1] \in 0 .. n - 1
      BY <2>5, <1>2
    <3>2. Alike(b, Back(b, order[i + 1]), Back(b, At(b, d - 1)))
      BY <2>2, <2>7, <3>1, AlikeBack
    <3> QED
      BY <2>7, <3>2
  <2>9. Alike(b, order[Rank(last, n, i + 1)], At(b, d))
    BY <2>6, <2>8, AlikeTransitive
  <2>10. Rank(last, n, i + 1) = row[n - d] + 1
    <3>1. Rank(last, n, i + 1) \in 1 .. n
      BY <1>1, <1>2, <2>5, RankType
    <3> HIDE DEF last, n
    <3> QED
      BY <2>3, <2>4, <3>1
  <2> QED
    BY <2>3, <2>4, <2>9, <2>10
<1>6. Bad = {}
  <2> SUFFICES ASSUME Bad # {} PROVE FALSE
    OBVIOUS
  <2>1. PICK d \in Bad : \A h \in Bad : d <= h
    <3>1. Bad \in SUBSET Nat
      OBVIOUS
    <3> QED
      BY <3>1, LeastExists
  <2>2. d \in 0 .. n - 1 /\ ~ Good(d)
    OBVIOUS
  <2> HIDE DEF Good
  <2>3. d # 0
    BY <2>2, <1>4
  <2>4. d \in 1 .. n - 1 /\ d - 1 \in 0 .. n - 1 /\ ~ (d <= d - 1)
    BY <2>2, <2>3, <1>1
  <2>5. d - 1 \notin Bad
    <3> HIDE DEF Bad
    <3> QED
      BY <2>1, <2>4
  <2>6. Good(d - 1)
    BY <2>4, <2>5
  <2> QED
    BY <2>2, <2>4, <2>6, <1>5
<1> HIDE DEF Good
<1>7. Good(e)
  BY <1>6
<1> QED
  BY <1>7 DEF Good

\* From the last column and the row of the block comes the block.
LEMMA UnrotatedIs ==
    ASSUME NEW b, IsBlock(b), NEW order, IsOrder(b, order), Rising(b, order)
    PROVE  /\ S0Index(order) \in 0 .. Len(b) - 1
           /\ Unrotated(LastColumn(b, order), S0Index(order)) = b
<1> DEFINE n == Len(b)
           last == LastColumn(b, order)
           s == S0Index(order)
           row == CHOOSE row : IsWay(row, last, s)
<1>1. n \in Nat \ {0} /\ DOMAIN b = 1 .. n /\ b \in [1 .. n -> Symbols]
  BY BlockFacts
<1>2. s \in 0 .. n - 1 /\ order[s + 1] = 0
  <2>1. DOMAIN order = 1 .. n /\ 0 \in 0 .. n - 1
    BY <1>1 DEF IsOrder
  <2>2. \E k \in 1 .. n : order[k] = 0
    BY <2>1, OrderOnto
  <2> DEFINE k == CHOOSE k \in 1 .. n : order[k] = 0
  <2>3. k \in 1 .. n /\ order[k] = 0
    BY <2>2
  <2>4. s = k - 1
    BY <2>1 DEF S0Index
  <2> HIDE DEF k, s
  <2> QED
    BY <2>3, <2>4, <1>1
<1>3. last \in [1 .. n -> Symbols] /\ last \in [1 .. n -> Int]
      /\ \A k \in 1 .. n : /\ order[k] \in 0 .. n - 1
                           /\ last[k] = Sym(b, order[k], n - 1)
  BY LastColumnIs
<1> HIDE DEF s, last
<1>4. Len(last) = n
  <2> HIDE DEF n
  <2>1. last \in Seq(Symbols) /\ DOMAIN last = 1 .. n
    BY <1>1, <1>3
  <2> QED
    BY <2>1, <1>1
<1>5. IsWay(row, last, s)
  <2>1. \E r : IsWay(r, last, s)
    BY <1>1, <1>2, <1>3, <1>4, WayExists
  <2> QED
    BY <2>1
<1>6. Unrotated(last, s) = [j \in 1 .. n |-> last[row[j] + 1]]
  BY <1>4, Zenon DEF Unrotated, IsWay
<1> HIDE DEF row
<1>7. ASSUME NEW j \in 1 .. n PROVE last[row[j] + 1] = b[j]
  <2>1. n - j \in 0 .. n - 1 /\ n - (n - j) = j
    BY <1>1
  <2>2. row[j] \in 0 .. n - 1 /\ Alike(b, order[row[j] + 1], At(b, n - j))
    <3>1. IsWay(row, LastColumn(b, order), s)
      BY <1>5 DEF last
    <3>2. /\ row[n - (n - j)] \in 0 .. n - 1
          /\ Alike(b, order[row[n - (n - j)] + 1], At(b, n - j))
      BY <1>2, <2>1, <3>1, WayIsBack
    <3> QED
      BY <2>1, <3>2
  <2>3. row[j] + 1 \in 1 .. n
    BY <2>2, <1>1
  <2>4. last[row[j] + 1] = Sym(b, At(b, n - j), n - 1)
    <3>1. n - 1 \in 0 .. n - 1
      BY <1>1
    <3>2. Sym(b, order[row[j] + 1], n - 1) = Sym(b, At(b, n - j), n - 1)
      BY <2>2, <3>1 DEF Alike, Agree
    <3> QED
      BY <2>3, <3>2, <1>3
  <2> DEFINE p == At(b, n - j)
  <2>5. p = (IF j = n THEN 0 ELSE j) /\ p \in 0 .. n - 1 /\ n - 1 \in 0 .. n
    <3>1. p = IF n - j = 0 THEN 0 ELSE n - (n - j)
      BY DEF At
    <3> HIDE DEF n, p
    <3> QED
      BY <1>1, <3>1
  <2>6. Place(b, p, n - 1) = j
    <3>1. Place(b, p, n - 1) = IF p + (n - 1) < n THEN p + (n - 1) + 1
                               ELSE (p + (n - 1) + 1) - n
      BY DEF Place
    <3> HIDE DEF n, p
    <3> QED
      BY <1>1, <2>5, <3>1
  <2>7. Sym(b, At(b, n - j), n - 1) = b[Place(b, At(b, n - j), n - 1)]
    BY <2>5, SymIs
  <2> QED
    BY <2>4, <2>6, <2>7
<1>8. b = [j \in 1 .. n |-> b[j]]
  BY <1>1
<1>9. Unrotated(last, s) = b
  <2> DEFINE u == Unrotated(last, s)
  <2>1. \A j \in 1 .. n : u[j] = b[j]
    BY <1>6, <1>7
  <2>2. u = [j \in 1 .. n |-> u[j]]
    BY <1>6
  <2> HIDE DEF u
  <2>3. u = b
    BY <2>1, <2>2, <1>8
  <2> QED
    BY <2>3 DEF u
<1> QED
  BY <1>2, <1>9 DEF s, last
-----------------------------------------------------------------------------
(* Move-to-front coding.                                                   *)

\* A list of all symbols.
Listings == {l \in [1 .. MaxSymbol + 1 -> Symbols] :
                \A c \in Symbols : \E j \in Symbols : l[j + 1] = c}

LEMMA SymbolFacts == MaxSymbol \in Nat /\ Symbols = 0 .. MaxSymbol
BY BwtAssumption DEF Symbols

LEMMA AlphabeticListing == AlphabeticList \in Listings
<1>1. \A j \in Symbols : AlphabeticList[j + 1] = j
  BY SymbolFacts DEF AlphabeticList
<1>2. AlphabeticList \in [1 .. MaxSymbol + 1 -> Symbols]
  BY SymbolFacts DEF AlphabeticList
<1> QED
  BY <1>1, <1>2 DEF Listings

LEMMA ToFrontIs ==
    ASSUME NEW l \in Listings, NEW j \in Symbols
    PROVE  /\ ToFront(l, j) \in Listings
           /\ ToFront(l, j) = [k \in 1 .. MaxSymbol + 1 |->
                                  IF k = 1 THEN l[j + 1]
                                  ELSE IF k <= j + 1 THEN l[k - 1] ELSE l[k]]
<1> DEFINE m == MaxSymbol + 1
           new == [k \in 1 .. m |-> IF k = 1 THEN l[j + 1]
                                    ELSE IF k <= j + 1 THEN l[k - 1] ELSE l[k]]
<1>1. /\ m \in Nat \ {0} /\ j + 1 \in 1 .. m /\ j \in Nat
      /\ \A c \in Symbols : c + 1 \in 1 .. m
      /\ \A k \in 1 .. m : k - 1 \in Symbols
  BY SymbolFacts
<1>2. l \in [1 .. m -> Symbols] /\ \A c \in Symbols : \E i \in Symbols : l[i + 1] = c
  BY DEF Listings
<1>3. l \in Seq(Symbols) /\ Len(l) = m
  <2> HIDE DEF m
  <2>1. l \in Seq(Symbols) /\ DOMAIN l = 1 .. m
    BY <1>1, <1>2
  <2> QED
    BY <2>1, <1>1
<1> HIDE DEF m
<1>4. ToFront(l, j) = new
  <2> DEFINE s == SubSeq(l, 1, j)
             t == SubSeq(l, j + 2, m)
  <2>1. /\ s \in Seq(Symbols) /\ Len(s) = j /\ \A k \in 1 .. j : s[k] = l[k]
        /\ t \in Seq(Symbols) /\ Len(t) = m - (j + 1)
        /\ \A k \in 1 .. m - (j + 1) : t[k] = l[k + (j + 1)]
    BY <1>1, <1>3
  <2>2. ToFront(l, j) = <<l[j + 1]>> \o (s \o t)
    <3>1. (j + 1) - 1 = j /\ (j + 1) + 1 = j + 2
      BY <1>1
    <3>2. RemoveAt(l, j + 1) = SubSeq(l, 1, (j + 1) - 1) \o SubSeq(l, (j + 1) + 1, Len(l))
      BY Zenon DEF RemoveAt
    <3>3. SubSeq(l, 1, (j + 1) - 1) = s /\ SubSeq(l, (j + 1) + 1, Len(l)) = t
      BY <3>1, <1>3
    <3> HIDE DEF s, t
    <3>4. RemoveAt(l, j + 1) = s \o t
      BY <3>2, <3>3
    <3> QED
      BY <3>4, Zenon DEF ToFront
  <2>3. l[j + 1] \in Symbols
    BY <1>1, <1>2
  <2> HIDE DEF s, t
  <2> DEFINE u == s \o t
             v == <<l[j + 1]>> \o u
  <2>4. /\ u \in Seq(Symbols) /\ Len(u) = m - 1
        /\ \A k \in 1 .. m - 1 : u[k] = IF k <= j THEN l[k] ELSE l[k + 1]
    <3>1. u \in Seq(Symbols) /\ Len(u) = Len(s) + Len(t)
      BY <2>1
    <3>2. Len(u) = m - 1
      BY <2>1, <3>1, <1>1
    <3>3. ASSUME NEW k \in 1 .. m - 1
          PROVE  u[k] = IF k <= j THEN l[k] ELSE l[k + 1]
      <4>1. CASE k <= j
        <5>1. k \in 1 .. Len(s)
          BY <4>1, <2>1, <1>1
        <5>2. u[k] = s[k]
          BY <5>1, <2>1
        <5> QED
          BY <4>1, <5>1, <5>2, <2>1
      <4>2. CASE ~ (k <= j)
        <5>1. k - j \in 1 .. m - (j + 1) /\ (k - j) + (j + 1) = k + 1
          BY <4>2, <1>1
        <5>2. k \in Len(s) + 1 .. Len(s) + Len(t) /\ k - Len(s) = k - j
          BY <4>2, <2>1, <1>1
        <5>3. u[k] = t[k - j]
          BY <5>2, <2>1
        <5>4. t[k - j] = l[(k - j) + (j + 1)]
          BY <5>1, <2>1
        <5> QED
          BY <4>2, <5>1, <5>3, <5>4
      <4> QED
        BY <4>1, <4>2
    <3> QED
      BY <3>1, <3>2, <3>3
  <2> HIDE DEF u
  <2>5. /\ v \in Seq(Symbols) /\ Len(v) = m
        /\ v[1] = l[j + 1] /\ \A k \in 2 .. m : v[k] = u[k - 1]
    BY <2>3, <2>4, <1>1
  <2> HIDE DEF v
  <2>6. ASSUME NEW k \in 1 .. m PROVE v[k] = new[k]
    <3>1. CASE k = 1
      BY <3>1, <2>5
    <3>2. CASE k # 1
      <4>1. k \in 2 .. m /\ k - 1 \in 1 .. m - 1 /\ k - 1 + 1 = k
        BY <3>2, <1>1
      <4>2. v[k] = IF k - 1 <= j THEN l[k - 1] ELSE l[k - 1 + 1]
        BY <4>1, <2>4, <2>5
      <4>3. new[k] = IF k <= j + 1 THEN l[k - 1] ELSE l[k]
        BY <3>2
      <4>4. (k - 1 <= j) <=> (k <= j + 1)
        BY <1>1
      <4> QED
        BY <4>1, <4>2, <4>3, <4>4
    <3> QED
      BY <3>1, <3>2
  <2>7. v = new
    <3>1. v = [k \in 1 .. m |-> v[k]]
      BY <2>5
    <3>2. new = [k \in 1 .. m |-> new[k]]
      OBVIOUS
    <3> HIDE DEF new
    <3> QED
      BY <3>1, <3>2, <2>6
  <2>8. ToFront(l, j) = v
    BY <2>2 DEF u, v
  <2> QED
    BY <2>7, <2>8
<1>5. new \in [1 .. m -> Symbols]
  <2>1. ASSUME NEW k \in 1 .. m PROVE new[k] \in Symbols
    <3>1. k # 1 => k - 1 \in 1 .. m
      BY <1>1
    <3>2. l[j + 1] \in Symbols /\ l[k] \in Symbols /\ (k # 1 => l[k - 1] \in Symbols)
      BY <1>1, <1>2, <3>1
    <3> QED
      BY <3>2
  <2> QED
    BY <2>1
<1>6. ASSUME NEW c \in Symbols PROVE \E i \in Symbols : new[i + 1] = c
  <2>1. PICK i \in Symbols : l[i + 1] = c
    BY <1>2
  <2>2. i \in Nat /\ i + 1 \in 1 .. m
    BY <1>1, SymbolFacts
  <2>3. CASE i = j
    <3>1. 0 \in Symbols /\ 0 + 1 \in 1 .. m
      BY SymbolFacts, <1>1
    <3>2. new[0 + 1] = c
      BY <3>1, <2>1, <2>3
    <3> QED
      BY <3>1, <3>2
  <2>4. CASE i < j
    <3>1. i + 1 \in Symbols /\ i + 1 + 1 \in 1 .. m
      BY <2>4, <2>2, SymbolFacts, <1>1
    <3>2. new[i + 1 + 1] = c
      <4>1. i + 1 + 1 # 1 /\ i + 1 + 1 <= j + 1 /\ i + 1 + 1 - 1 = i + 1
        BY <2>2, <2>4, <1>1
      <4> DEFINE h == i + 1 + 1
      <4>2. h \in 1 .. m /\ h # 1 /\ h <= j + 1 /\ h - 1 = i + 1
        BY <3>1, <4>1, <2>2
      <4> HIDE DEF h
      <4>3. new[h] = l[h - 1]
        BY <4>2
      <4>4. new[h] = c
        BY <4>2, <4>3, <2>1
      <4> QED
        BY <4>4 DEF h
    <3> QED
      BY <3>1, <3>2
  <2>5. CASE j < i
    <3>1. new[i + 1] = c
      <4>1. i + 1 # 1 /\ ~ (i + 1 <= j + 1)
        BY <2>2, <2>5, <1>1
      <4> QED
        BY <4>1, <2>1, <2>2
    <3> QED
      BY <3>1
  <2> QED
    BY <2>2, <2>3, <2>4, <2>5, <1>1
<1> HIDE DEF new
<1>7. new \in Listings
  BY <1>5, <1>6 DEF Listings, m
<1> QED
  BY <1>4, <1>7 DEF m, new

LEMMA FoundIs ==
    ASSUME NEW l \in Listings, NEW c \in Symbols
    PROVE  Found(l, c) \in Symbols /\ l[Found(l, c) + 1] = c
<1>1. \E j \in Symbols : l[j + 1] = c
  BY DEF Listings
<1> QED
  BY <1>1 DEF Found

\* The lists of DoMTF and of UndoMTF, as they define them.
IsCoding(list, last) ==
    list = [k \in 0 .. Len(last) |->
              IF k = 0 THEN AlphabeticList
              ELSE LET l == list[k - 1] IN ToFront(l, Found(l, last[k]))]
IsDecoding(list, encoded) ==
    list = [k \in 0 .. Len(encoded) |->
              IF k = 0 THEN AlphabeticList ELSE ToFront(list[k - 1], encoded[k])]

LEMMA CodingExists ==
    ASSUME NEW last \in Seq(Symbols)
    PROVE  \E list : IsCoding(list, last) /\ list \in [0 .. Len(last) -> Listings]
<1> DEFINE n == Len(last)
           g == [p \in (1 .. n) \X Listings |-> ToFront(p[2], Found(p[2], last[p[1]]))]
<1>1. n \in Nat /\ \A k \in 1 .. n : last[k] \in Symbols
  OBVIOUS
<1>2. g \in [(1 .. n) \X Listings -> Listings]
  <2>1. ASSUME NEW p \in (1 .. n) \X Listings
        PROVE  ToFront(p[2], Found(p[2], last[p[1]])) \in Listings
    <3>1. p[1] \in 1 .. n /\ p[2] \in Listings
      OBVIOUS
    <3>2. Found(p[2], last[p[1]]) \in Symbols
      BY <3>1, <1>1, FoundIs
    <3> QED
      BY <3>1, <3>2, ToFrontIs
  <2> QED
    BY <2>1
<1> HIDE DEF n, g
<1>3. Recursion(Listings, AlphabeticList, n, g)
  BY <1>1, <1>2, AlphabeticListing, RecursionExists, Zenon
<1>4. PICK f \in [0 .. n -> Listings] :
          f[0] = AlphabeticList /\ \A k \in 1 .. n : f[k] = g[<<k, f[k - 1]>>]
  BY <1>3 DEF Recursion
<1> DEFINE f2 == [k \in 0 .. n |->
              IF k = 0 THEN AlphabeticList ELSE ToFront(f[k - 1], Found(f[k - 1], last[k]))]
<1>5. ASSUME NEW k \in 0 .. n PROVE f[k] = f2[k]
  <2>1. CASE k = 0
    BY <2>1, <1>4
  <2>2. CASE k # 0
    <3>1. k \in 1 .. n /\ k - 1 \in 0 .. n
      BY <2>2, <1>1
    <3>2. f[k - 1] \in Listings
      BY <3>1
    <3>3. f[k] = g[<<k, f[k - 1]>>]
      BY <3>1, <1>4
    <3>4. <<k, f[k - 1]>> \in (1 .. n) \X Listings
      BY <3>1, <3>2
    <3>5. g[<<k, f[k - 1]>>] = ToFront(f[k - 1], Found(f[k - 1], last[k]))
      BY <3>4 DEF g
    <3> QED
      BY <2>2, <3>3, <3>5
  <2> QED
    BY <2>1, <2>2
<1>6. f = f2
  <2>1. f = [k \in 0 .. n |-> f[k]] /\ f2 = [k \in 0 .. n |-> f2[k]]
    OBVIOUS
  <2> HIDE DEF f2
  <2> QED
    BY <2>1, <1>5
<1>7. IsCoding(f, last)
  BY <1>6 DEF IsCoding, n
<1> QED
  BY <1>7 DEF n

\* Decoding undoes the coding: the two lists are the same all the way.
LEMMA MTFRestores ==
    ASSUME NEW last \in Seq(Symbols)
    PROVE  /\ DoMTF(last) \in Seq(Symbols) /\ Len(DoMTF(last)) = Len(last)
           /\ UndoMTF(DoMTF(last)) = last
<1> DEFINE n == Len(last)
           enc == DoMTF(last)
           ld == CHOOSE list : IsCoding(list, last)
           lu == CHOOSE list : IsDecoding(list, enc)
<1>1. n \in Nat /\ \A k \in 1 .. n : last[k] \in Symbols
  OBVIOUS
<1>2. IsCoding(ld, last)
  <2>1. \E list : IsCoding(list, last)
    BY CodingExists
  <2> QED
    BY <2>1
<1>3. enc = [k \in 1 .. n |-> Found(ld[k - 1], last[k])]
  BY Zenon DEF DoMTF, IsCoding
<1> HIDE DEF ld, n
<1>4. /\ ld = [k \in 0 .. n |->
                IF k = 0 THEN AlphabeticList
                ELSE ToFront(ld[k - 1], Found(ld[k - 1], last[k]))]
  BY <1>2 DEF IsCoding, n
<1>5. ld[0] = AlphabeticList
  BY <1>1, <1>4
<1>6. ASSUME NEW k \in 1 .. n
      PROVE  ld[k] = ToFront(ld[k - 1], Found(ld[k - 1], last[k]))
  <2>1. k \in 0 .. n /\ k # 0
    BY <1>1
  <2> QED
    BY <2>1, <1>4
<1>7. \A k \in 0 .. n : ld[k] \in Listings
  <2> DEFINE Bad == {k \in 0 .. n : ld[k] \notin Listings}
  <2> SUFFICES ASSUME Bad # {} PROVE FALSE
    OBVIOUS
  <2>1. PICK k \in Bad : \A h \in Bad : k <= h
    <3>1. Bad \in SUBSET Nat
      BY <1>1
    <3> QED
      BY <3>1, LeastExists
  <2>2. k \in 0 .. n /\ ld[k] \notin Listings
    OBVIOUS
  <2>3. k # 0
    BY <2>2, <1>5, AlphabeticListing
  <2>4. k \in 1 .. n /\ k - 1 \in 0 .. n /\ ~ (k <= k - 1)
    BY <2>2, <2>3, <1>1
  <2>5. k - 1 \notin Bad
    <3> HIDE DEF Bad
    <3> QED
      BY <2>1, <2>4
  <2>6. ld[k - 1] \in Listings
    BY <2>4, <2>5
  <2>7. Found(ld[k - 1], last[k]) \in Symbols
    BY <2>4, <2>6, <1>1, FoundIs
  <2>8. ToFront(ld[k - 1], Found(ld[k - 1], last[k])) \in Listings
    BY <2>6, <2>7, ToFrontIs
  <2> QED
    BY <2>2, <2>4, <2>8, <1>6
<1>8. ASSUME NEW k \in 1 .. n
      PROVE  /\ enc[k] = Found(ld[k - 1], last[k]) /\ enc[k] \in Symbols
             /\ ld[k - 1][enc[k] + 1] = last[k]
  <2>1. enc[k] = Found(ld[k - 1], last[k])
    BY <1>3
  <2>2. k - 1 \in 0 .. n
    BY <1>1
  <2>3. ld[k - 1] \in Listings /\ last[k] \in Symbols
    BY <2>2, <1>1, <1>7
  <2> QED
    BY <2>1, <2>3, FoundIs
<1>9. enc \in Seq(Symbols) /\ Len(enc) = n
  <2>1. DOMAIN enc = 1 .. n /\ enc = [k \in 1 .. n |-> enc[k]]
    BY <1>3
  <2> HIDE DEF enc
  <2>2. enc \in [1 .. n -> Symbols]
    BY <2>1, <1>8
  <2>3. enc \in Seq(Symbols)
    BY <2>2, <1>1
  <2> QED
    BY <2>1, <2>3, <1>1
<1> HIDE DEF enc
<1>10. IsDecoding(ld, enc)
  <2> DEFINE l2 == [k \in 0 .. n |->
                IF k = 0 THEN AlphabeticList ELSE ToFront(ld[k - 1], enc[k])]
  <2>1. \A k \in 0 .. n : ld[k] = l2[k]
    <3> SUFFICES ASSUME NEW k \in 0 .. n PROVE ld[k] = l2[k]
      OBVIOUS
    <3>1. CASE k = 0
      BY <3>1, <1>5
    <3>2. CASE k # 0
      <4>1. k \in 1 .. n
        BY <3>2, <1>1
      <4> QED
        BY <4>1, <3>2, <1>6, <1>8
    <3> QED
      BY <3>1, <3>2
  <2>2. ld = [k \in 0 .. n |-> ld[k]]
    BY <1>4
  <2>3. l2 = [k \in 0 .. n |-> l2[k]]
    OBVIOUS
  <2> HIDE DEF l2
  <2>4. ld = l2
    BY <2>1, <2>2, <2>3
  <2> QED
    BY <2>4, <1>9 DEF IsDecoding, l2
<1>11. IsDecoding(lu, enc)
  BY <1>10
<1>12. UndoMTF(enc) = [k \in 1 .. n |-> lu[k - 1][enc[k] + 1]]
  BY <1>9, Zenon DEF UndoMTF, IsDecoding
<1> HIDE DEF lu
<1>13. /\ lu[0] = AlphabeticList
       /\ \A k \in 1 .. n : lu[k] = ToFront(lu[k - 1], enc[k])
  <2>1. lu = [k \in 0 .. n |-> IF k = 0 THEN AlphabeticList ELSE ToFront(lu[k - 1], enc[k])]
    BY <1>9, <1>11 DEF IsDecoding
  <2>2. 0 \in 0 .. n /\ \A k \in 1 .. n : k \in 0 .. n /\ k # 0
    BY <1>1
  <2> QED
    BY <2>1, <2>2
<1>14. \A k \in 0 .. n : lu[k] = ld[k]
  <2> DEFINE Bad == {k \in 0 .. n : lu[k] # ld[k]}
  <2> SUFFICES ASSUME Bad # {} PROVE FALSE
    OBVIOUS
  <2>1. PICK k \in Bad : \A h \in Bad : k <= h
    <3>1. Bad \in SUBSET Nat
      BY <1>1
    <3> QED
      BY <3>1, LeastExists
  <2>2. k \in 0 .. n /\ lu[k] # ld[k]
    OBVIOUS
  <2>3. k # 0
    BY <2>2, <1>5, <1>13
  <2>4. k \in 1 .. n /\ k - 1 \in 0 .. n /\ ~ (k <= k - 1)
    BY <2>2, <2>3, <1>1
  <2>5. k - 1 \notin Bad
    <3> HIDE DEF Bad
    <3> QED
      BY <2>1, <2>4
  <2>6. lu[k - 1] = ld[k - 1]
    BY <2>4, <2>5
  <2> QED
    BY <2>2, <2>4, <2>6, <1>6, <1>8, <1>13
<1>15. UndoMTF(enc) = last
  <2> DEFINE u == UndoMTF(enc)
  <2>1. ASSUME NEW k \in 1 .. n PROVE u[k] = last[k]
    <3>1. k - 1 \in 0 .. n
      BY <1>1
    <3> QED
      BY <3>1, <1>8, <1>12, <1>14
  <2>2. u = [k \in 1 .. n |-> u[k]]
    BY <1>12
  <2>3. last = [k \in 1 .. n |-> last[k]]
    BY DEF n
  <2> HIDE DEF u
  <2>4. u = last
    BY <2>1, <2>2, <2>3
  <2> QED
    BY <2>4 DEF u
<1> QED
  BY <1>9, <1>15 DEF enc, n
-----------------------------------------------------------------------------
(* The inductive invariant.  A block is known by its number, and so is the *)
(* frame it is in: the file and its blocks are told by how far they are.   *)

Blk(k) == k * BlockSize
Idx(k) == k * IntSize

\* Block i of the input, empty behind its end, and the input up to block k.
BlockAt(i) == Read(input, Blk(i - 1), BlockSize)
UpToBlock(k) == SubSeq(input, 1, IF Blk(k) <= Len(input) THEN Blk(k) ELSE Len(input))

\* The two parts of frame i, and the block it stands for.
HeaderAt(i) == Read(file, Blk(i - 1) + Idx(i - 1), IntSize)
CodedAt(i) == Read(file, Blk(i - 1) + Idx(i - 1) + IntSize, BlockSize)
Plain(last) == IF variant = "mtf" THEN UndoMTF(last) ELSE last
Coded(last) == IF variant = "mtf" THEN DoMTF(last) ELSE last

FrameOK(i) ==
    /\ Len(HeaderAt(i)) = IntSize /\ HeaderAt(i)[1] \in 0 .. BlockSize
    /\ Plain(CodedAt(i)) \in Blocks
    /\ Unrotated(Plain(CodedAt(i)), HeaderAt(i)[1]) = BlockAt(i)

\* The file holds the first k blocks.
FramesOK(k) ==
    /\ Len(file) = Idx(k) + Len(UpToBlock(k))
    /\ \A i \in 1 .. k : FrameOK(i)

Entries == [stage : Stages, block : Seq(Nat), rotationIdx : Seq(Nat),
            last : Seq(Nat), s0Idx : Nat]

Types ==
    /\ variant \in Variants /\ input \in Inputs
    /\ phase \in {"transform", "reverse", "done", "failed", "undefined"}
    /\ work \in Seq(Entries) /\ file \in Seq(Nat)

\* What the host has written are the first w blocks; the serial program has
\* not begun another block before.
WrittenUpTo(w) ==
    /\ \A i \in 1 .. Len(work) : work[i].stage = "written" <=> i <= w
    /\ variant # "opencl" => \A i \in 1 .. Len(work) - 1 : i <= w

Transformed(e) ==
    /\ e.stage \in {"read", "radix", "sorted", "last", "written"}
    /\ e.stage = "read" => e.rotationIdx = <<>>
    /\ e.stage = "radix" => e.rotationIdx = RadixSorted(e.block)
    /\ e.stage \in {"sorted", "last", "written"} =>
          IsOrder(e.block, e.rotationIdx) /\ Neighbours(e.block, e.rotationIdx)
    /\ IF e.stage \in {"last", "written"}
         THEN LET last == LastColumn(e.block, e.rotationIdx)
              IN  /\ e.s0Idx = S0Index(e.rotationIdx)
                  /\ e.last = Coded(last)
         ELSE e.s0Idx = 0 /\ e.last = <<>>

TransformInv ==
    /\ out = <<>>
    /\ variant = "cuda" => work = <<>>
    /\ Len(work) > 0 => Blk(Len(work) - 1) < Len(input)
    /\ pos = Len(UpToBlock(Len(work)))
    /\ \A i \in 1 .. Len(work) : work[i].block = BlockAt(i) /\ Transformed(work[i])
    /\ \E w \in 0 .. Len(work) : WrittenUpTo(w) /\ FramesOK(w)

\* Frame i as it was read: behind the last one there is nothing.
Framed(i) ==
    /\ work[i].stage \in {"framed", "unrotated", "written"}
    /\ work[i].rotationIdx = <<>>
    /\ work[i].s0Idx \in 0 .. BlockSize
    /\ IF i <= NoOfBlocks(input)
         THEN work[i].last = Plain(CodedAt(i)) /\ work[i].s0Idx = HeaderAt(i)[1]
         ELSE work[i].last = <<>>
    /\ work[i].block = IF work[i].stage = "framed" THEN <<>> ELSE BlockAt(i)

ReverseInv ==
    /\ variant # "cuda"
    /\ FramesOK(NoOfBlocks(input))
    /\ variant # "opencl" => Len(work) <= NoOfBlocks(input)
    /\ pos = IF Len(work) < NoOfBlocks(input) THEN Blk(Len(work)) + Idx(Len(work))
             ELSE Len(file)
    /\ \A i \in 1 .. Len(work) : Framed(i)
    /\ \E w \in 0 .. Len(work) : WrittenUpTo(w) /\ out = UpToBlock(w)

IInv ==
    /\ Types
    /\ phase = "transform" => TransformInv
    /\ phase \in {"reverse", "done"} => ReverseInv
    /\ TransformInv \/ ReverseInv
    /\ phase = "done" => out = input
-----------------------------------------------------------------------------
(* Blocks and frames.                                                      *)

LEMMA Sizes == BlockSize \in Nat \ {0} /\ IntSize \in Nat \ {0}
BY BwtAssumption

LEMMA TimesNext ==
    ASSUME NEW s \in Nat, NEW k \in Nat
    PROVE  k * s \in Nat /\ (k + 1) * s = k * s + s /\ 0 * s = 0
OBVIOUS

LEMMA TimesRises ==
    ASSUME NEW s \in Nat, NEW j \in Nat, NEW k \in Nat, j <= k
    PROVE  j * s <= k * s
<1>1. ASSUME NEW d \in Nat PROVE d * s >= 0
  OBVIOUS
<1>2. (k - j) * s >= 0
  <2>1. k - j \in Nat
    OBVIOUS
  <2> QED
    BY <1>1, <2>1
<1>3. (k - j) * s = k * s - j * s
  OBVIOUS
<1>4. k * s \in Int /\ j * s \in Int
  OBVIOUS
<1> QED
  BY <1>2, <1>3, <1>4

LEMMA Steps ==
    ASSUME NEW k \in Nat
    PROVE  /\ Blk(k) \in Nat /\ Blk(k + 1) = Blk(k) + BlockSize /\ Blk(0) = 0
           /\ Idx(k) \in Nat /\ Idx(k + 1) = Idx(k) + IntSize /\ Idx(0) = 0
<1>1. BlockSize \in Nat /\ IntSize \in Nat
  BY Sizes
<1> QED
  BY <1>1, TimesNext DEF Blk, Idx

LEMMA StepsRise ==
    ASSUME NEW j \in Nat, NEW k \in Nat, j <= k
    PROVE  Blk(j) <= Blk(k) /\ Idx(j) <= Idx(k)
<1>1. BlockSize \in Nat /\ IntSize \in Nat
  BY Sizes
<1> QED
  BY <1>1, TimesRises DEF Blk, Idx

LEMMA DivisionUp ==
    ASSUME NEW s \in Nat \ {0}, NEW m \in Nat
    PROVE  LET q == ((m + s) - 1) \div s
           IN  q \in Int /\ q * s >= m /\ (q - 1) * s < m
<1> DEFINE x == (m + s) - 1
           q == x \div s
<1>1. x \in Nat /\ x = (m + s) - 1
  OBVIOUS
<1> HIDE DEF x
<1>2. q \in Int /\ q * s <= x /\ x < q * s + s
  BY <1>1
<1> HIDE DEF q
<1>3. (q - 1) * s = q * s - s /\ q * s \in Int
  BY <1>2
<1> QED
  BY <1>1, <1>2, <1>3 DEF q, x

\* How many blocks there are: as many as cover the file.
LEMMA BlocksCover ==
    ASSUME NEW f, Len(f) \in Nat
    PROVE  /\ NoOfBlocks(f) \in Nat
           /\ Blk(NoOfBlocks(f)) >= Len(f)
           /\ \A k \in Nat : k < NoOfBlocks(f) => Blk(k) < Len(f)
           /\ \A k \in Nat : Blk(k) >= Len(f) /\ (k > 0 => Blk(k - 1) < Len(f))
                                => k = NoOfBlocks(f)
<1> DEFINE m == Len(f)
           n == NoOfBlocks(f)
<1>1. BlockSize \in Nat \ {0} /\ m \in Nat
  BY Sizes
<1>2. n = ((m + BlockSize) - 1) \div BlockSize
  <2>1. m + BlockSize - 1 = (m + BlockSize) - 1
    BY <1>1
  <2> QED
    BY <2>1 DEF NoOfBlocks
<1>3. n \in Int /\ n * BlockSize >= m /\ (n - 1) * BlockSize < m
  BY <1>1, <1>2, DivisionUp
<1> HIDE DEF n, m
<1>4. n >= 0
  <2> SUFFICES ASSUME n <= -1 PROVE FALSE
    BY <1>3
  <2>1. -n \in Nat /\ -n >= 1
    BY <1>3
  <2>2. (-n) * BlockSize >= 1 * BlockSize
    BY <2>1, <1>1, TimesRises
  <2>3. (-n) * BlockSize = -(n * BlockSize) /\ n * BlockSize \in Int
    BY <1>1, <1>3
  <2> QED
    BY <1>1, <1>3, <2>2, <2>3
<1>5. ASSUME NEW k \in Nat, k < n PROVE Blk(k) < m
  <2>1. k <= n - 1 /\ n - 1 \in Nat
    BY <1>3, <1>5
  <2>2. k * BlockSize <= (n - 1) * BlockSize
    BY <2>1, <1>1, TimesRises
  <2>3. k * BlockSize \in Int /\ (n - 1) * BlockSize \in Int
    BY <1>1, <2>1
  <2> QED
    BY <1>1, <1>3, <2>2, <2>3 DEF Blk
<1>6. ASSUME NEW k \in Nat, Blk(k) >= m, k > 0 => Blk(k - 1) < m PROVE k = n
  <2>1. ~ (k < n)
    <3>1. Blk(k) \in Nat
      BY Steps
    <3> QED
      BY <1>1, <1>5, <1>6, <3>1
  <2>2. ~ (n < k)
    <3> SUFFICES ASSUME n < k PROVE FALSE
      OBVIOUS
    <3>1. k - 1 \in Nat /\ n \in Nat /\ n <= k - 1 /\ k > 0
      BY <1>3, <1>4
    <3>2. Blk(n) <= Blk(k - 1) /\ Blk(n) \in Nat /\ Blk(k - 1) \in Nat
      BY <3>1, StepsRise, Steps
    <3>3. Blk(n) >= m
      BY <1>3 DEF Blk
    <3> QED
      BY <1>1, <1>6, <3>1, <3>2, <3>3
  <2> QED
    BY <1>3, <2>1, <2>2
<1> QED
  BY <1>3, <1>4, <1>5, <1>6 DEF Blk, m, n

\* What fread returns: as much as there is, from where it stood.
IsRead(S, f, at, size) ==
    /\ Read(f, at, size) \in Seq(S)
    /\ Len(Read(f, at, size)) = IF at + size < Len(f) THEN size
                                ELSE IF at < Len(f) THEN Len(f) - at ELSE 0
    /\ \A k \in 1 .. Len(Read(f, at, size)) : Read(f, at, size)[k] = f[at + k]

LEMMA ReadIsRead ==
    ASSUME NEW S, NEW f \in Seq(S), NEW at \in Nat, NEW size \in Nat
    PROVE  IsRead(S, f, at, size)
<1> DEFINE to == IF at + size < Len(f) THEN at + size ELSE Len(f)
           r == SubSeq(f, at + 1, to)
<1>1. Len(f) \in Nat /\ to \in Nat /\ to <= Len(f)
  OBVIOUS
<1>2. /\ r \in Seq(S)
      /\ Len(r) = IF at + 1 <= to THEN to - at ELSE 0
      /\ \A k \in 1 .. Len(r) : r[k] = f[at + k]
  <2> HIDE DEF to
  <2>1. at + 1 \in 1 .. Len(f) + 1 /\ to \in 0 .. Len(f) => r \in Seq(S)
    BY <1>1
  <2>2. CASE at + 1 <= to
    <3>1. /\ r \in Seq(S) /\ Len(r) = (to - (at + 1)) + 1
          /\ \A k \in 1 .. (to - (at + 1)) + 1 : r[k] = f[(at + 1) + k - 1]
      BY <1>1, <2>2, SubSeqProperties
    <3>2. Len(r) = to - at
      BY <1>1, <2>2, <3>1
    <3>3. \A k \in 1 .. to - at : r[k] = f[at + k]
      <4>1. \A k \in 1 .. to - at : r[k] = r[k] /\ (at + 1) + k - 1 = at + k
        OBVIOUS
      <4> QED
        BY <1>1, <2>2, <3>1, <4>1
    <3> QED
      BY <2>2, <3>1, <3>2, <3>3
  <2>3. CASE ~ (at + 1 <= to)
    <3>1. r = <<>> /\ Len(r) = 0
      BY <1>1, <2>3
    <3> HIDE DEF r
    <3>2. r \in Seq(S) /\ \A k \in 1 .. Len(r) : r[k] = f[at + k]
      <4>1. <<>> \in Seq(S)
        OBVIOUS
      <4> QED
        BY <3>1, <4>1
    <3> QED
      BY <2>3, <3>1, <3>2
  <2> QED
    BY <2>2, <2>3
<1>3. Read(f, at, size) = r
  BY DEF Read
<1>4. (IF at + 1 <= to THEN to - at ELSE 0)
         = IF at + size < Len(f) THEN size ELSE IF at < Len(f) THEN Len(f) - at ELSE 0
  BY <1>1
<1> QED
  BY <1>2, <1>3, <1>4 DEF IsRead

LEMMA AllThere ==
    ASSUME NEW l \in Nat, NEW at \in Nat, NEW size \in Nat, at + size <= l
    PROVE  (IF at + size < l THEN size ELSE IF at < l THEN l - at ELSE 0) = size
OBVIOUS

LEMMA ReadExtended ==
    ASSUME NEW S, NEW f \in Seq(S), NEW g \in Seq(S), NEW at \in Nat, NEW size \in Nat,
           at + size <= Len(f)
    PROVE  Read(f \o g, at, size) = Read(f, at, size)
<1> DEFINE h == f \o g
           r == Read(f, at, size)
           q == Read(h, at, size)
<1>1. /\ h \in Seq(S) /\ Len(h) = Len(f) + Len(g) /\ Len(f) \in Nat /\ Len(g) \in Nat
      /\ \A k \in 1 .. Len(f) : h[k] = f[k]
  OBVIOUS
<1> HIDE DEF h
<1>2. /\ r \in Seq(S) /\ Len(r) = size /\ \A k \in 1 .. Len(r) : r[k] = f[at + k]
  <2>1. (IF at + size < Len(f) THEN size ELSE IF at < Len(f) THEN Len(f) - at ELSE 0) = size
    BY <1>1, AllThere
  <2> QED
    BY <2>1, ReadIsRead DEF IsRead
<1>3. /\ q \in Seq(S) /\ Len(q) = size /\ \A k \in 1 .. Len(q) : q[k] = h[at + k]
  <2>1. (IF at + size < Len(h) THEN size ELSE IF at < Len(h) THEN Len(h) - at ELSE 0) = size
    <3>1. Len(h) \in Nat /\ at + size <= Len(h)
      BY <1>1
    <3> QED
      BY <3>1, AllThere, Zenon
  <2>2. /\ q \in Seq(S)
        /\ Len(q) = IF at + size < Len(h) THEN size ELSE IF at < Len(h) THEN Len(h) - at ELSE 0
        /\ \A k \in 1 .. Len(q) : q[k] = h[at + k]
    <3>1. h \in Seq(S)
      BY <1>1
    <3>2. IsRead(S, h, at, size)
      BY <3>1, ReadIsRead
    <3> QED
      BY <3>2 DEF IsRead
  <2> HIDE DEF q
  <2> QED
    BY <2>1, <2>2
<1> HIDE DEF r, q
<1>4. ASSUME NEW k \in 1 .. Len(q) PROVE q[k] = r[k]
  <2>1. at + k \in 1 .. Len(f)
    BY <1>1, <1>3
  <2> QED
    BY <2>1, <1>1, <1>2, <1>3
<1>5. q = r
  BY <1>2, <1>3, <1>4, SeqEqual
<1> QED
  BY <1>5 DEF q, r, h
LEMMA InputFacts ==
    ASSUME input \in Inputs
    PROVE  input \in Seq(Symbols) /\ Len(input) \in Nat
BY BwtAssumption DEF Symbols

LEMMA BlocksAre ==
    ASSUME NEW s
    PROVE  s \in Blocks <=> s \in Seq(Symbols) /\ Len(s) <= BlockSize
<1>1. ASSUME s \in Blocks PROVE s \in Seq(Symbols) /\ Len(s) <= BlockSize
  <2>1. PICK n \in 0 .. BlockSize : s \in [1 .. n -> Symbols]
    BY <1>1 DEF Blocks
  <2>2. n \in Nat /\ n <= BlockSize
    BY Sizes
  <2>3. s \in Seq(Symbols) /\ DOMAIN s = 1 .. n
    BY <2>1, <2>2
  <2>4. Len(s) = n
    BY <2>2, <2>3
  <2> QED
    BY <2>2, <2>3, <2>4
<1>2. ASSUME s \in Seq(Symbols), Len(s) <= BlockSize PROVE s \in Blocks
  <2>1. Len(s) \in Nat /\ s \in [1 .. Len(s) -> Symbols]
    BY <1>2
  <2>2. Len(s) \in 0 .. BlockSize
    BY <2>1, <1>2, Sizes
  <2> QED
    BY <2>1, <2>2 DEF Blocks
<1> QED
  BY <1>1, <1>2

LEMMA NothingIsBlock == <<>> \in Blocks
<1>1. PICK s : s = <<>> /\ s \in Seq(Symbols) /\ Len(s) = 0
  <2>1. <<>> \in Seq(Symbols) /\ \A s \in Seq(Symbols) : s = <<>> <=> Len(s) = 0
    BY EmptySeq
  <2> QED
    BY <2>1
<1>2. Len(s) <= BlockSize
  BY <1>1, Sizes
<1>3. s \in Blocks
  BY <1>1, <1>2, BlocksAre
<1> QED
  BY <1>1, <1>3

LEMMA BlockAtIs ==
    ASSUME input \in Inputs, NEW i \in Nat \ {0}
    PROVE  /\ BlockAt(i) \in Seq(Symbols)
           /\ Len(BlockAt(i)) = IF Blk(i) < Len(input) THEN BlockSize
                                ELSE IF Blk(i - 1) < Len(input) THEN Len(input) - Blk(i - 1)
                                ELSE 0
           /\ Len(BlockAt(i)) \in 0 .. BlockSize
           /\ \A k \in 1 .. Len(BlockAt(i)) : BlockAt(i)[k] = input[Blk(i - 1) + k]
           /\ IF Blk(i - 1) < Len(input) THEN IsBlock(BlockAt(i)) ELSE BlockAt(i) = <<>>
           /\ BlockAt(i) \in Blocks
<1> DEFINE b == BlockAt(i)
<1>1. input \in Seq(Symbols) /\ Len(input) \in Nat
  BY InputFacts
<1>2. BlockSize \in Nat \ {0}
  BY Sizes
<1>3. i - 1 \in Nat /\ i - 1 + 1 = i
  OBVIOUS
<1>4. Blk(i - 1) \in Nat /\ Blk(i) \in Nat /\ Blk(i) = Blk(i - 1) + BlockSize
  <2>1. Blk(i - 1 + 1) = Blk(i - 1) + BlockSize /\ Blk(i - 1) \in Nat
    BY <1>3, Steps
  <2> QED
    BY <1>2, <1>3, <2>1
<1>5. /\ b \in Seq(Symbols)
      /\ Len(b) = IF Blk(i - 1) + BlockSize < Len(input) THEN BlockSize
                  ELSE IF Blk(i - 1) < Len(input) THEN Len(input) - Blk(i - 1) ELSE 0
      /\ \A k \in 1 .. Len(b) : b[k] = input[Blk(i - 1) + k]
  <2>1. BlockSize \in Nat /\ Blk(i - 1) \in Nat /\ input \in Seq(Symbols)
    BY <1>1, <1>2, <1>4
  <2> DEFINE p == Blk(i - 1)
             r == Read(input, p, BlockSize)
  <2>2. b = r
    BY DEF BlockAt
  <2> HIDE DEF p
  <2>3. /\ r \in Seq(Symbols)
        /\ Len(r) = IF p + BlockSize < Len(input) THEN BlockSize
                    ELSE IF p < Len(input) THEN Len(input) - p ELSE 0
        /\ \A k \in 1 .. Len(r) : r[k] = input[p + k]
    <3>1. p \in Nat
      BY <2>1 DEF p
    <3>2. IsRead(Symbols, input, p, BlockSize)
      BY <2>1, <3>1, ReadIsRead
    <3> QED
      BY <3>2 DEF IsRead
  <2> HIDE DEF b, r
  <2> QED
    BY <2>2, <2>3 DEF p
<1> HIDE DEF b
<1>6. /\ Len(b) = IF Blk(i) < Len(input) THEN BlockSize
                  ELSE IF Blk(i - 1) < Len(input) THEN Len(input) - Blk(i - 1) ELSE 0
      /\ Len(b) \in 0 .. BlockSize
      /\ Blk(i - 1) < Len(input) => Len(b) # 0
  BY <1>1, <1>2, <1>4, <1>5
<1>7. IF Blk(i - 1) < Len(input) THEN IsBlock(b) ELSE b = <<>>
  <2>1. CASE Blk(i - 1) < Len(input)
    <3>1. b # <<>>
      BY <2>1, <1>6
    <3> QED
      BY <2>1, <3>1, <1>5 DEF IsBlock
  <2>2. CASE ~ (Blk(i - 1) < Len(input))
    <3>1. Len(b) = 0
      BY <2>2, <1>2, <1>1, <1>4, <1>5
    <3>2. b = <<>>
      BY <3>1, <1>5, EmptySeq
    <3> QED
      BY <2>2, <3>2
  <2> QED
    BY <2>1, <2>2
<1>8. b \in Blocks
  BY <1>2, <1>5, <1>6, BlocksAre
<1> QED
  BY <1>5, <1>6, <1>7, <1>8 DEF b

LEMMA UpToBlockIs ==
    ASSUME input \in Inputs, NEW k \in Nat
    PROVE  /\ UpToBlock(k) \in Seq(Symbols)
           /\ Len(UpToBlock(k)) = IF Blk(k) <= Len(input) THEN Blk(k) ELSE Len(input)
           /\ \A j \in 1 .. Len(UpToBlock(k)) : UpToBlock(k)[j] = input[j]
           /\ IsPrefix(UpToBlock(k), input)
           /\ Blk(k) >= Len(input) => UpToBlock(k) = input
<1> DEFINE n == IF Blk(k) <= Len(input) THEN Blk(k) ELSE Len(input)
           u == UpToBlock(k)
<1>1. input \in Seq(Symbols) /\ Len(input) \in Nat
  BY InputFacts
<1>2. Blk(k) \in Nat
  BY Steps
<1>3. n \in 0 .. Len(input)
  BY <1>1, <1>2
<1>4. u = SubSeq(input, 1, n)
  BY DEF UpToBlock
<1> HIDE DEF n, u
<1>5. u \in Seq(Symbols) /\ Len(u) = n /\ \A j \in 1 .. n : u[j] = input[j]
  BY <1>1, <1>3, <1>4
<1>6. IsPrefix(u, input)
  <2>1. SubSeq(input, 1, Len(u)) = u
    BY <1>4, <1>5
  <2>2. Len(u) <= Len(input)
    BY <1>3, <1>5, <1>1
  <2>3. u = SubSeq(u, 1, Len(u))
    BY <1>5
  <2> QED
    BY <2>1, <2>2, <2>3 DEF IsPrefix
<1>7. ASSUME Blk(k) >= Len(input) PROVE u = input
  <2>1. n = Len(input)
    BY <1>1, <1>2, <1>7 DEF n
  <2> QED
    BY <2>1, <1>1, <1>5, SeqEqual
<1> QED
  BY <1>5, <1>6, <1>7 DEF n, u

LEMMA UpToNothing ==
    ASSUME input \in Inputs
    PROVE  UpToBlock(0) = <<>>
<1>1. Blk(0) = 0 /\ Len(input) \in Nat
  BY Steps, InputFacts
<1>2. Len(UpToBlock(0)) = 0 /\ UpToBlock(0) \in Seq(Symbols)
  BY <1>1, UpToBlockIs
<1> QED
  BY <1>2, EmptySeq

LEMMA UpToNext ==
    ASSUME input \in Inputs, NEW k \in Nat
    PROVE  /\ UpToBlock(k) \o BlockAt(k + 1) = UpToBlock(k + 1)
           /\ Len(UpToBlock(k + 1)) = Len(UpToBlock(k)) + Len(BlockAt(k + 1))
<1> DEFINE u == UpToBlock(k)
           b == BlockAt(k + 1)
           v == UpToBlock(k + 1)
           m == Len(input)
<1>1. m \in Nat /\ BlockSize \in Nat \ {0}
  BY InputFacts, Sizes
<1>2. k + 1 \in Nat \ {0} /\ k + 1 \in Nat /\ k + 1 - 1 = k
  OBVIOUS
<1>3. Blk(k) \in Nat /\ Blk(k + 1) = Blk(k) + BlockSize
  BY Steps
<1>4. /\ u \in Seq(Symbols) /\ Len(u) = (IF Blk(k) <= m THEN Blk(k) ELSE m)
      /\ \A j \in 1 .. Len(u) : u[j] = input[j]
  BY UpToBlockIs
<1>5. /\ v \in Seq(Symbols) /\ Len(v) = (IF Blk(k + 1) <= m THEN Blk(k + 1) ELSE m)
      /\ \A j \in 1 .. Len(v) : v[j] = input[j]
  BY <1>2, UpToBlockIs
<1>6. /\ b \in Seq(Symbols)
      /\ Len(b) = (IF Blk(k + 1) < m THEN BlockSize
                   ELSE IF Blk(k) < m THEN m - Blk(k) ELSE 0)
      /\ \A j \in 1 .. Len(b) : b[j] = input[Blk(k) + j]
  <2>1. (k + 1) - 1 = k
    OBVIOUS
  <2>2. /\ b \in Seq(Symbols)
        /\ Len(b) = (IF Blk(k + 1) < m THEN BlockSize
                     ELSE IF Blk((k + 1) - 1) < m THEN m - Blk((k + 1) - 1) ELSE 0)
        /\ \A j \in 1 .. Len(b) : b[j] = input[Blk((k + 1) - 1) + j]
    BY <1>2, BlockAtIs
  <2> QED
    BY <2>1, <2>2
<1> HIDE DEF u, b, v, m
<1>7. Len(v) = Len(u) + Len(b)
  BY <1>1, <1>3, <1>4, <1>5, <1>6
<1>8. /\ u \o b \in Seq(Symbols) /\ Len(u \o b) = Len(u) + Len(b)
      /\ \A j \in 1 .. Len(u) : (u \o b)[j] = u[j]
      /\ \A j \in Len(u) + 1 .. Len(u) + Len(b) : (u \o b)[j] = b[j - Len(u)]
      /\ Len(u) \in Nat /\ Len(b) \in Nat
  <2>1. u \in Seq(Symbols) /\ b \in Seq(Symbols)
    BY <1>4, <1>6
  <2> QED
    BY <2>1
<1>9. ASSUME NEW j \in 1 .. Len(u \o b) PROVE (u \o b)[j] = v[j]
  <2>1. CASE j <= Len(u)
    <3>1. j \in 1 .. Len(u) /\ j \in 1 .. Len(v)
      BY <2>1, <1>7, <1>8
    <3> QED
      BY <3>1, <1>4, <1>5, <1>8
  <2>2. CASE ~ (j <= Len(u))
    <3>1. /\ j \in Len(u) + 1 .. Len(u) + Len(b) /\ j \in 1 .. Len(v)
          /\ j - Len(u) \in 1 .. Len(b)
      BY <2>2, <1>7, <1>8
    <3>2. Len(u) = Blk(k)
      <4>1. Len(b) > 0
        BY <3>1, <1>8
      <4> QED
        BY <4>1, <1>1, <1>3, <1>4, <1>6
    <3>3. Blk(k) + (j - Len(u)) = j
      BY <3>1, <3>2, <1>3
    <3> QED
      BY <3>1, <3>3, <1>5, <1>6, <1>8
  <2> QED
    BY <2>1, <2>2
<1>10. u \o b = v
  BY <1>5, <1>7, <1>8, <1>9, SeqEqual
<1> QED
  BY <1>7, <1>10 DEF u, b, v
\* What is behind a part of a file can be read as it was written.
LEMMA ReadAppended ==
    ASSUME NEW S, NEW f \in Seq(S), NEW g \in Seq(S), NEW size \in Nat, Len(g) <= size
    PROVE  Read(f \o g, Len(f), size) = g
<1> DEFINE h == f \o g
           q == Read(h, Len(f), size)
<1>1. /\ h \in Seq(S) /\ Len(h) = Len(f) + Len(g) /\ Len(f) \in Nat /\ Len(g) \in Nat
      /\ \A k \in 1 .. Len(g) : Len(f) + k \in Len(f) + 1 .. Len(f) + Len(g)
                                  /\ (Len(f) + k) - Len(f) = k
  OBVIOUS
<1>2. \A k \in 1 .. Len(g) : h[Len(f) + k] = g[k]
  <2>1. \A k \in Len(f) + 1 .. Len(f) + Len(g) : h[k] = g[k - Len(f)]
    OBVIOUS
  <2> HIDE DEF h
  <2> QED
    BY <2>1, <1>1
<1> HIDE DEF h
<1>3. IsRead(S, h, Len(f), size)
  BY <1>1, ReadIsRead
<1>4. q \in Seq(S) /\ Len(q) = Len(g) /\ \A k \in 1 .. Len(q) : q[k] = h[Len(f) + k]
  <2>1. (IF Len(f) + size < Len(h) THEN size
         ELSE IF Len(f) < Len(h) THEN Len(h) - Len(f) ELSE 0) = Len(g)
    BY <1>1
  <2> QED
    BY <2>1, <1>3 DEF IsRead
<1> HIDE DEF q
<1>5. q = g
  BY <1>2, <1>4, SeqEqual
<1> QED
  BY <1>5 DEF q, h

LEMMA ReadBehind ==
    ASSUME NEW S, NEW f \in Seq(S), NEW at \in Nat, at >= Len(f), NEW size \in Nat
    PROVE  Read(f, at, size) = <<>>
<1>1. IsRead(S, f, at, size)
  BY ReadIsRead
<1>2. (IF at + size < Len(f) THEN size
       ELSE IF at < Len(f) THEN Len(f) - at ELSE 0) = 0
  OBVIOUS
<1>3. Read(f, at, size) \in Seq(S) /\ Len(Read(f, at, size)) = 0
  BY <1>1, <1>2 DEF IsRead
<1> QED
  BY <1>3, EmptySeq

-----------------------------------------------------------------------------
(* One block through its steps.                                            *)

LEMMA OrderType ==
    ASSUME NEW b, IsBlock(b), NEW order, IsOrder(b, order)
    PROVE  /\ order \in Seq(Nat) /\ DOMAIN order = 1 .. Len(b)
           /\ \A k \in DOMAIN order : order[k] \in 0 .. Len(b) - 1
<1>1. DOMAIN b = 1 .. Len(b) /\ Len(b) \in Nat \ {0}
  BY BlockFacts
<1>2. order \in [1 .. Len(b) -> 0 .. Len(b) - 1]
  BY <1>1 DEF IsOrder
<1>3. order \in [1 .. Len(b) -> Nat]
  BY <1>1, <1>2
<1>4. order \in Seq(Nat)
  BY <1>1, <1>3
<1> QED
  BY <1>2, <1>4

LEMMA ColumnType ==
    ASSUME NEW b, IsBlock(b), Len(b) <= BlockSize, NEW order, IsOrder(b, order)
    PROVE  /\ LastColumn(b, order) \in Seq(Symbols) /\ Len(LastColumn(b, order)) = Len(b)
           /\ LastColumn(b, order) \in Blocks
<1> DEFINE last == LastColumn(b, order)
<1>1. Len(b) \in Nat
  BY BlockFacts
<1>2. last \in [1 .. Len(b) -> Symbols]
  BY LastColumnIs
<1> HIDE DEF last
<1>3. last \in Seq(Symbols) /\ DOMAIN last = 1 .. Len(b)
  BY <1>1, <1>2
<1>4. Len(last) = Len(b)
  BY <1>1, <1>3
<1>5. last \in Blocks
  BY <1>3, <1>4, BlocksAre
<1> QED
  BY <1>3, <1>4, <1>5 DEF last

\* What is written stands for the last column.
LEMMA CodedIs ==
    ASSUME NEW last \in Blocks
    PROVE  /\ Coded(last) \in Blocks /\ Coded(last) \in Seq(Symbols)
           /\ Len(Coded(last)) = Len(last) /\ Plain(Coded(last)) = last
<1>1. last \in Seq(Symbols) /\ Len(last) <= BlockSize
  BY BlocksAre
<1>2. CASE variant = "mtf"
  <2>1. /\ DoMTF(last) \in Seq(Symbols) /\ Len(DoMTF(last)) = Len(last)
        /\ UndoMTF(DoMTF(last)) = last
    BY <1>1, MTFRestores
  <2>2. DoMTF(last) \in Blocks
    BY <2>1, <1>1, BlocksAre
  <2> QED
    BY <1>2, <2>1, <2>2 DEF Coded, Plain
<1>3. CASE variant # "mtf"
  BY <1>1, <1>3 DEF Coded, Plain
<1> QED
  BY <1>2, <1>3

LEMMA SymbolsAreNumbers ==
    ASSUME NEW s \in Seq(Symbols)
    PROVE  s \in Seq(Nat)
<1>1. Symbols \in SUBSET Nat
  BY SymbolFacts
<1>2. Len(s) \in Nat /\ s \in [1 .. Len(s) -> Symbols]
  OBVIOUS
<1>3. s \in [1 .. Len(s) -> Nat]
  BY <1>1, <1>2
<1> QED
  BY <1>2, <1>3

\* What is known of the block of an entry of `work` while the file is
\* transformed.
LEMMA EntryFacts ==
    ASSUME Types, TransformInv, NEW i \in DOMAIN work
    PROVE  /\ i \in 1 .. Len(work) /\ Len(work) \in Nat /\ work[i] \in Entries
           /\ work[i].block = BlockAt(i) /\ IsBlock(work[i].block)
           /\ Len(work[i].block) <= BlockSize /\ work[i].block \in Blocks
           /\ Transformed(work[i])
           /\ Blk(i - 1) < Len(input)
<1>1. work \in Seq(Entries) /\ input \in Inputs
  BY DEF Types
<1>2. i \in 1 .. Len(work) /\ Len(work) \in Nat /\ work[i] \in Entries
  BY <1>1
<1>3. work[i].block = BlockAt(i) /\ Transformed(work[i])
  BY <1>2 DEF TransformInv
<1>4. Blk(i - 1) < Len(input)
  <2>1. Len(work) > 0 /\ Len(work) - 1 \in Nat /\ i - 1 \in Nat /\ i - 1 <= Len(work) - 1
    BY <1>2
  <2>2. Blk(Len(work) - 1) < Len(input)
    BY <2>1 DEF TransformInv
  <2>3. Blk(i - 1) <= Blk(Len(work) - 1)
    BY <2>1, StepsRise
  <2>4. Blk(i - 1) \in Nat /\ Blk(Len(work) - 1) \in Nat
    BY <2>1, Steps
  <2>5. Len(input) \in Nat
    BY <1>1, InputFacts
  <2> QED
    BY <2>2, <2>3, <2>4, <2>5
<1>5. i \in Nat \ {0}
  BY <1>2
<1>6. IsBlock(BlockAt(i)) /\ Len(BlockAt(i)) \in 0 .. BlockSize /\ BlockAt(i) \in Blocks
  BY <1>1, <1>4, <1>5, BlockAtIs
<1>7. Len(BlockAt(i)) <= BlockSize
  BY <1>6
<1> QED
  BY <1>2, <1>3, <1>4, <1>6, <1>7
-----------------------------------------------------------------------------
(* Steps of the transform.                                                 *)

LEMMA BlocksKept ==
    ASSUME UNCHANGED input
    PROVE  \A k : BlockAt(k)' = BlockAt(k) /\ UpToBlock(k)' = UpToBlock(k)
BY DEF BlockAt, UpToBlock, Blk

LEMMA FramesKept ==
    ASSUME UNCHANGED <<variant, input, file>>
    PROVE  /\ \A k : HeaderAt(k)' = HeaderAt(k) /\ CodedAt(k)' = CodedAt(k)
           /\ \A s : Plain(s)' = Plain(s) /\ Coded(s)' = Coded(s)
           /\ \A k : FramesOK(k) => FramesOK(k)'
<1>1. \A k : HeaderAt(k)' = HeaderAt(k) /\ CodedAt(k)' = CodedAt(k)
  BY DEF HeaderAt, CodedAt, Blk, Idx
<1>2. \A s : Plain(s)' = Plain(s) /\ Coded(s)' = Coded(s)
  BY DEF Plain, Coded
<1>3. \A k : BlockAt(k)' = BlockAt(k) /\ UpToBlock(k)' = UpToBlock(k)
  BY BlocksKept
<1>4. \A k : FrameOK(k) => FrameOK(k)'
  BY <1>1, <1>2, <1>3 DEF FrameOK
<1>5. \A k : FramesOK(k) => FramesOK(k)'
  BY <1>3, <1>4 DEF FramesOK, Idx
<1> QED
  BY <1>1, <1>2, <1>5

\* A step that takes one block further and writes nothing.
LEMMA EntryStep ==
    ASSUME Types, TransformInv, NEW i \in DOMAIN work, NEW e \in Entries,
           work' = [work EXCEPT ![i] = e],
           UNCHANGED <<variant, input, phase, pos, file, out>>,
           e.block = work[i].block, Transformed(e),
           e.stage # "written", work[i].stage # "written"
    PROVE  Types' /\ TransformInv'
<1> DEFINE n == Len(work)
<1>1. work \in Seq(Entries) /\ i \in 1 .. n /\ n \in Nat
  BY DEF Types
<1>2. /\ work' \in Seq(Entries) /\ Len(work') = n
      /\ work'[i] = e /\ \A j \in 1 .. n : j # i => work'[j] = work[j]
  BY <1>1
<1>3. Types'
  BY <1>2 DEF Types
<1>4. \A k : BlockAt(k)' = BlockAt(k) /\ UpToBlock(k)' = UpToBlock(k)
  BY BlocksKept
<1>5. /\ \A s : Coded(s)' = Coded(s)
      /\ \A k : FramesOK(k) => FramesOK(k)'
  BY FramesKept
<1>6. \A f : Transformed(f) => Transformed(f)'
  BY <1>5 DEF Transformed
<1>7. \A j \in 1 .. n : (work[j].block = BlockAt(j))' /\ Transformed(work[j])'
  <2> SUFFICES ASSUME NEW j \in 1 .. n
               PROVE  work'[j].block = BlockAt(j) /\ Transformed(work[j])'
    BY <1>4
  <2>1. work[j].block = BlockAt(j) /\ Transformed(work[j])
    BY DEF TransformInv
  <2>2. PICK f : f = work'[j] /\ Transformed(f) /\ f.block = BlockAt(j)
    <3>1. CASE j = i
      <4>1. work'[j] = e
        BY <1>2, <3>1
      <4> QED
        BY <4>1, <2>1, <3>1
    <3>2. CASE j # i
      <4>1. work'[j] = work[j]
        BY <1>2, <3>2
      <4> QED
        BY <4>1, <2>1
    <3> QED
      BY <3>1, <3>2
  <2>3. Transformed(f)'
    BY <2>2, <1>6
  <2> QED
    BY <2>2, <2>3
<1>8. PICK w \in 0 .. n : WrittenUpTo(w) /\ FramesOK(w)
  BY DEF TransformInv
<1>9. WrittenUpTo(w)'
  BY <1>1, <1>2, <1>8 DEF WrittenUpTo
<1>10. variant' = "cuda" => work' = <<>>
  <2>1. work # <<>>
    BY <1>1
  <2> QED
    BY <2>1 DEF TransformInv
<1>11. /\ out' = <<>> /\ (Len(work') > 0 => Blk(Len(work') - 1) < Len(input'))
       /\ pos' = Len(UpToBlock(Len(work)))'
  BY <1>2 DEF TransformInv, UpToBlock, Blk
<1> HIDE DEF n
<1>12. TransformInv'
  <2>1. \E v \in 0 .. Len(work') : WrittenUpTo(v)' /\ FramesOK(v)'
    BY <1>2, <1>5, <1>8, <1>9
  <2> QED
    BY <1>2, <1>7, <1>10, <1>11, <2>1 DEF TransformInv, Blk, n
<1> QED
  BY <1>3, <1>12
LEMMA StaysInTransform ==
    ASSUME phase = "transform", UNCHANGED phase, Types', TransformInv'
    PROVE  IInv'
BY DEF IInv

LEMMA RadixSortKeeps ==
    ASSUME IInv, NEW i \in DOMAIN work, RadixSort(i)
    PROVE  IInv'
<1> DEFINE b == work[i].block
           e == [work[i] EXCEPT !.stage = "radix", !.rotationIdx = RadixSorted(b)]
<1>1. /\ phase = "transform" /\ work[i].stage = "read"
      /\ work' = [work EXCEPT ![i].stage = "radix", ![i].rotationIdx = RadixSorted(b)]
      /\ UNCHANGED <<variant, input, phase, pos, file, out>>
  BY DEF RadixSort
<1>2. Types /\ TransformInv
  BY <1>1 DEF IInv
<1>3. /\ work[i] \in Entries /\ IsBlock(b) /\ Transformed(work[i])
  BY <1>2, EntryFacts
<1>4. work' = [work EXCEPT ![i] = e]
  BY <1>1
<1>5. IsOrder(b, RadixSorted(b))
  BY <1>3, RadixSorts
<1>6. RadixSorted(b) \in Seq(Nat)
  BY <1>3, <1>5, OrderType
<1> HIDE DEF b
<1>7. e \in Entries /\ e.block = b /\ e.stage = "radix" /\ e.rotationIdx = RadixSorted(b)
      /\ e.s0Idx = work[i].s0Idx /\ e.last = work[i].last
  BY <1>3, <1>6 DEF Entries, Stages, b
<1>8. work[i].s0Idx = 0 /\ work[i].last = <<>>
  BY <1>1, <1>3 DEF Transformed
<1> HIDE DEF e
<1>9. Transformed(e)
  BY <1>7, <1>8 DEF Transformed
<1>10. Types' /\ TransformInv'
  <2>1. e.block = work[i].block /\ e.stage # "written" /\ work[i].stage # "written"
    BY <1>1, <1>7 DEF b
  <2> QED
    BY <1>1, <1>2, <1>4, <1>7, <1>9, <2>1, EntryStep
<1> QED
  BY <1>1, <1>10, StaysInTransform

LEMMA GroupSortKeeps ==
    ASSUME IInv, NEW i \in DOMAIN work, GroupSort(i)
    PROVE  IInv'
<1> DEFINE b == work[i].block
<1>1. PICK sorted \in GroupSorts(b, work[i].rotationIdx) :
          /\ phase = "transform" /\ work[i].stage = "radix"
          /\ work' = [work EXCEPT ![i].stage = "sorted", ![i].rotationIdx = sorted]
          /\ UNCHANGED <<variant, input, phase, pos, file, out>>
  BY DEF GroupSort, HostTurn
<1> DEFINE e == [work[i] EXCEPT !.stage = "sorted", !.rotationIdx = sorted]
<1>2. Types /\ TransformInv
  BY <1>1 DEF IInv
<1>3. /\ work[i] \in Entries /\ IsBlock(b) /\ Transformed(work[i])
  BY <1>2, EntryFacts
<1>4. work' = [work EXCEPT ![i] = e]
  BY <1>1
<1>5. IsOrder(b, sorted) /\ Neighbours(b, sorted)
  <2>1. work[i].rotationIdx = RadixSorted(b)
    BY <1>1, <1>3 DEF Transformed
  <2>2. sorted \in GroupSorts(b, RadixSorted(b))
    BY <1>1, <2>1
  <2> QED
    BY <1>3, <2>2, GroupsSorted
<1>6. sorted \in Seq(Nat)
  BY <1>3, <1>5, OrderType
<1> HIDE DEF b
<1>7. e \in Entries /\ e.block = b /\ e.stage = "sorted" /\ e.rotationIdx = sorted
      /\ e.s0Idx = work[i].s0Idx /\ e.last = work[i].last
  BY <1>3, <1>6 DEF Entries, Stages, b
<1>8. work[i].s0Idx = 0 /\ work[i].last = <<>>
  BY <1>1, <1>3 DEF Transformed
<1> HIDE DEF e
<1>9. Transformed(e)
  BY <1>5, <1>7, <1>8 DEF Transformed
<1>10. Types' /\ TransformInv'
  <2>1. e.block = work[i].block /\ e.stage # "written" /\ work[i].stage # "written"
    BY <1>1, <1>7 DEF b
  <2> QED
    BY <1>1, <1>2, <1>4, <1>7, <1>9, <2>1, EntryStep
<1> QED
  BY <1>1, <1>10, StaysInTransform

LEMMA TakeLastKeeps ==
    ASSUME IInv, NEW i \in DOMAIN work, TakeLast(i)
    PROVE  IInv'
<1> DEFINE b == work[i].block
           o == work[i].rotationIdx
           last == LastColumn(b, o)
           e == [work[i] EXCEPT !.stage = "last", !.s0Idx = S0Index(o),
                                !.last = Coded(last)]
<1>1. /\ phase = "transform" /\ work[i].stage = "sorted"
      /\ work' = [work EXCEPT ![i].stage = "last", ![i].s0Idx = S0Index(o),
                              ![i].last = Coded(last)]
      /\ UNCHANGED <<variant, input, phase, pos, file, out>>
  BY DEF TakeLast, Coded
<1>2. Types /\ TransformInv
  BY <1>1 DEF IInv
<1>3. /\ work[i] \in Entries /\ IsBlock(b) /\ Transformed(work[i])
      /\ Len(b) <= BlockSize
  BY <1>2, EntryFacts
<1>4. work' = [work EXCEPT ![i] = e]
  BY <1>1
<1>5. IsOrder(b, o) /\ Neighbours(b, o)
  BY <1>1, <1>3 DEF Transformed
<1>6. S0Index(o) \in Nat /\ Coded(last) \in Seq(Nat)
  <2>1. S0Index(o) \in 0 .. Len(b) - 1
    BY <1>3, <1>5, NeighboursRise, UnrotatedIs
  <2>2. last \in Blocks
    BY <1>3, <1>5, ColumnType
  <2>3. Coded(last) \in Seq(Symbols)
    BY <2>2, CodedIs
  <2>4. Len(b) \in Nat
    BY <1>3, BlockFacts
  <2> QED
    BY <2>1, <2>3, <2>4, SymbolsAreNumbers
<1> HIDE DEF b, o, last
<1>7. e \in Entries /\ e.block = b /\ e.stage = "last" /\ e.rotationIdx = o
      /\ e.s0Idx = S0Index(o) /\ e.last = Coded(last)
  BY <1>3, <1>6 DEF Entries, Stages, b, o
<1> HIDE DEF e
<1>9. Transformed(e)
  BY <1>5, <1>7 DEF Transformed, last
<1>10. Types' /\ TransformInv'
  <2>1. e.block = work[i].block /\ e.stage # "written" /\ work[i].stage # "written"
    BY <1>1, <1>7 DEF b
  <2> QED
    BY <1>1, <1>2, <1>4, <1>7, <1>9, <2>1, EntryStep
<1> QED
  BY <1>1, <1>10, StaysInTransform

LEMMA InitHolds ==
    ASSUME Init
    PROVE  IInv
<1>1. /\ variant \in Variants /\ input \in Inputs /\ phase = "transform" /\ pos = 0
      /\ work = <<>> /\ file = <<>> /\ out = <<>>
  BY DEF Init
<1>2. Types
  BY <1>1 DEF Types
<1>3. UpToBlock(0) = <<>>
  BY <1>1, UpToNothing
<1>4. WrittenUpTo(0) /\ FramesOK(0)
  <2>1. Idx(0) = 0
    BY Steps
  <2>2. FramesOK(0)
    BY <1>1, <1>3, <2>1 DEF FramesOK
  <2> QED
    BY <1>1, <2>2 DEF WrittenUpTo
<1>5. TransformInv
  <2>1. Len(work) = 0 /\ 0 \in 0 .. 0
    BY <1>1
  <2> QED
    BY <1>1, <1>3, <1>4, <2>1 DEF TransformInv
<1> QED
  BY <1>1, <1>2, <1>5 DEF IInv
LEMMA ReadBlockKeeps ==
    ASSUME IInv, ReadBlock
    PROVE  IInv'
<1> DEFINE n == Len(work)
           b == Read(input, pos, BlockSize)
           e == [Fresh EXCEPT !.block = b]
<1>1. /\ phase = "transform" /\ variant # "cuda" /\ pos # Len(input)
      /\ variant # "opencl" => All({"written"})
      /\ work' = Append(work, e) /\ pos' = pos + Len(b)
      /\ UNCHANGED <<variant, input, phase, file, out>>
  BY DEF ReadBlock, AllRead
<1>2. Types /\ TransformInv
  BY <1>1 DEF IInv
<1>3. /\ work \in Seq(Entries) /\ n \in Nat /\ input \in Inputs
      /\ n + 1 \in Nat \ {0} /\ (n + 1) - 1 = n /\ n + 1 \in Nat
  BY <1>2 DEF Types
<1>4. pos = Len(UpToBlock(n))
  BY <1>2 DEF TransformInv
<1>5. pos = Blk(n) /\ Blk(n) < Len(input) /\ Len(input) \in Nat /\ Blk(n) \in Nat
  <2>1. pos = IF Blk(n) <= Len(input) THEN Blk(n) ELSE Len(input)
    BY <1>3, <1>4, UpToBlockIs
  <2>2. Len(input) \in Nat /\ Blk(n) \in Nat
    BY <1>3, InputFacts, Steps
  <2> QED
    BY <1>1, <2>1, <2>2
<1>6. b = BlockAt(n + 1)
  BY <1>3, <1>5 DEF BlockAt
<1>7. b \in Seq(Nat)
  <2>1. BlockAt(n + 1) \in Seq(Symbols)
    BY <1>3, BlockAtIs
  <2> QED
    BY <1>6, <2>1, SymbolsAreNumbers
<1> HIDE DEF b
<1>8. /\ e \in Entries /\ e.block = b /\ e.stage = "read" /\ e.rotationIdx = <<>>
      /\ e.s0Idx = 0 /\ e.last = <<>>
  <2>1. <<>> \in Seq(Nat)
    OBVIOUS
  <2>2. e = [stage |-> "read", block |-> b, rotationIdx |-> <<>>, last |-> <<>>,
             s0Idx |-> 0]
    BY DEF Fresh
  <2> HIDE DEF e
  <2> QED
    BY <1>7, <2>1, <2>2 DEF Entries, Stages
<1> HIDE DEF e
<1>9. /\ work' \in Seq(Entries) /\ Len(work') = n + 1 /\ work'[n + 1] = e
      /\ \A j \in 1 .. n : work'[j] = work[j]
  BY <1>1, <1>3, <1>8
<1>10. Types'
  BY <1>1, <1>2, <1>9 DEF Types
<1>11. \A k : BlockAt(k)' = BlockAt(k) /\ UpToBlock(k)' = UpToBlock(k)
  BY <1>1, BlocksKept
<1>12. /\ \A s : Coded(s)' = Coded(s)
       /\ \A k : FramesOK(k) => FramesOK(k)'
  BY <1>1, FramesKept
<1>13. \A f : Transformed(f) => Transformed(f)'
  BY <1>12 DEF Transformed
<1>14. \A j \in 1 .. n + 1 : (work[j].block = BlockAt(j))' /\ Transformed(work[j])'
  <2> SUFFICES ASSUME NEW j \in 1 .. n + 1
               PROVE  work'[j].block = BlockAt(j) /\ Transformed(work[j])'
    BY <1>11
  <2>2. PICK f : f = work'[j] /\ Transformed(f) /\ f.block = BlockAt(j)
    <3>1. CASE j = n + 1
      <4>1. Transformed(e)
        BY <1>8 DEF Transformed
      <4> QED
        BY <4>1, <3>1, <1>6, <1>8, <1>9
    <3>2. CASE j # n + 1
      <4>1. j \in 1 .. n
        BY <3>2, <1>3
      <4>2. work[j].block = BlockAt(j) /\ Transformed(work[j])
        BY <4>1, <1>2 DEF TransformInv
      <4> QED
        BY <4>1, <4>2, <1>9
    <3> QED
      BY <3>1, <3>2
  <2>3. Transformed(f)'
    BY <2>2, <1>13
  <2> QED
    BY <2>2, <2>3
<1>15. PICK w \in 0 .. n : WrittenUpTo(w) /\ FramesOK(w)
  BY <1>2 DEF TransformInv
<1>16. WrittenUpTo(w)'
  <2>1. \A j \in 1 .. n + 1 : work'[j].stage = "written" <=> j <= w
    <3> SUFFICES ASSUME NEW j \in 1 .. n + 1
                 PROVE  work'[j].stage = "written" <=> j <= w
      OBVIOUS
    <3>1. CASE j = n + 1
      <4>1. ~ (j <= w)
        BY <3>1, <1>3
      <4> QED
        BY <4>1, <3>1, <1>8, <1>9
    <3>2. CASE j # n + 1
      <4>1. j \in 1 .. n
        BY <3>2, <1>3
      <4> QED
        BY <4>1, <1>9, <1>15 DEF WrittenUpTo
    <3> QED
      BY <3>1, <3>2
  <2>2. variant' # "opencl" => \A j \in 1 .. n : j <= w
    BY <1>1, <1>3, <1>15 DEF WrittenUpTo, All
  <2> QED
    BY <2>1, <2>2, <1>3, <1>9 DEF WrittenUpTo
<1>17. pos' = Len(UpToBlock(n + 1))
  BY <1>1, <1>3, <1>4, <1>6, UpToNext
<1> HIDE DEF n
<1>18. pos' = Len(UpToBlock(Len(work)))'
  <2>1. UpToBlock(Len(work))' = UpToBlock(n + 1)
    BY <1>1, <1>9 DEF UpToBlock
  <2> QED
    BY <2>1, <1>17
<1>19. \E v \in 0 .. Len(work') : WrittenUpTo(v)' /\ FramesOK(v)'
  BY <1>3, <1>9, <1>12, <1>15, <1>16
<1>20. Blk(Len(work') - 1) < Len(input')
  BY <1>1, <1>3, <1>5, <1>9
<1>21. out' = <<>>
  BY <1>1, <1>2 DEF TransformInv
<1>22. TransformInv'
  BY <1>1, <1>9, <1>14, <1>18, <1>19, <1>20, <1>21 DEF TransformInv
<1> QED
  BY <1>1, <1>10, <1>22, StaysInTransform
\* Where the frames are.
LEMMA FramePlaces ==
    ASSUME NEW i \in Nat \ {0}
    PROVE  /\ i - 1 \in Nat /\ Blk(i - 1) \in Nat /\ Idx(i - 1) \in Nat
           /\ Blk(i) = Blk(i - 1) + BlockSize /\ Idx(i) = Idx(i - 1) + IntSize
           /\ BlockSize \in Nat \ {0} /\ IntSize \in Nat \ {0}
<1> DEFINE j == i - 1
<1>1. j \in Nat /\ j + 1 = i
  OBVIOUS
<1> HIDE DEF j
<1>2. /\ Blk(j) \in Nat /\ Blk(j + 1) = Blk(j) + BlockSize
      /\ Idx(j) \in Nat /\ Idx(j + 1) = Idx(j) + IntSize
  BY <1>1, Steps
<1> QED
  BY <1>1, <1>2, Sizes DEF j

LEMMA FrameInside ==
    ASSUME NEW w \in Nat, NEW i \in 1 .. w
    PROVE  LET at == Blk(i - 1) + Idx(i - 1)
           IN  /\ at \in Nat /\ at + IntSize \in Nat
               /\ at + IntSize <= Blk(w) + Idx(w)
               /\ (at + IntSize) + BlockSize <= Blk(w) + Idx(w)
<1>1. i \in Nat \ {0} /\ i \in Nat /\ i <= w
  OBVIOUS
<1>2. /\ i - 1 \in Nat /\ Blk(i - 1) \in Nat /\ Idx(i - 1) \in Nat
      /\ Blk(i) = Blk(i - 1) + BlockSize /\ Idx(i) = Idx(i - 1) + IntSize
      /\ BlockSize \in Nat \ {0} /\ IntSize \in Nat \ {0}
  BY <1>1, FramePlaces
<1>3. Blk(i) <= Blk(w) /\ Idx(i) <= Idx(w) /\ Blk(w) \in Nat /\ Idx(w) \in Nat
  BY <1>1, StepsRise, Steps
<1> QED
  BY <1>2, <1>3

\* The frames written stay when more is written behind them.
LEMMA FramesStay ==
    ASSUME Types, UNCHANGED <<variant, input>>, NEW g \in Seq(Nat), file' = file \o g,
           NEW w \in Nat, Len(file) = Blk(w) + Idx(w), NEW i \in 1 .. w, FrameOK(i)
    PROVE  FrameOK(i)'
<1>1. file \in Seq(Nat) /\ Len(file) \in Nat /\ i \in Nat \ {0} /\ i \in Nat /\ i <= w
  BY DEF Types
<1> DEFINE at == Blk(i - 1) + Idx(i - 1)
<1>2. /\ at \in Nat /\ at + IntSize \in Nat /\ BlockSize \in Nat /\ IntSize \in Nat
      /\ at + IntSize <= Len(file) /\ (at + IntSize) + BlockSize <= Len(file)
  <2>1. /\ at \in Nat /\ at + IntSize \in Nat
        /\ at + IntSize <= Blk(w) + Idx(w)
        /\ (at + IntSize) + BlockSize <= Blk(w) + Idx(w)
    BY FrameInside
  <2> HIDE DEF at
  <2> QED
    BY <2>1, Sizes
<1> HIDE DEF at
<1>3. /\ Read(file \o g, at, IntSize) = Read(file, at, IntSize)
      /\ Read(file \o g, at + IntSize, BlockSize) = Read(file, at + IntSize, BlockSize)
  BY <1>1, <1>2, ReadExtended
<1>4. HeaderAt(i)' = HeaderAt(i) /\ CodedAt(i)' = CodedAt(i)
  BY <1>3 DEF HeaderAt, CodedAt, at
<1>5. BlockAt(i)' = BlockAt(i)
  BY BlocksKept
<1>6. Plain(CodedAt(i))' = Plain(CodedAt(i))
  BY <1>4 DEF Plain
<1> QED
  BY <1>4, <1>5, <1>6 DEF FrameOK

\* A frame is read back as it was written.
LEMMA FrameRead ==
    ASSUME Types, UNCHANGED <<variant, input>>,
           NEW s \in 0 .. BlockSize, NEW last \in Blocks,
           NEW w \in Nat, Len(file) = Blk(w) + Idx(w),
           file' = (file \o IntBytes(s)) \o Coded(last),
           Unrotated(last, s) = BlockAt(w + 1)
    PROVE  FrameOK(w + 1)'
<1> DEFINE h == IntBytes(s)
           c == Coded(last)
           at == Len(file)
<1>1. file \in Seq(Nat) /\ at \in Nat
  BY DEF Types
<1>2. BlockSize \in Nat \ {0} /\ IntSize \in Nat \ {0}
  BY Sizes
<1>3. h \in Seq(Nat) /\ Len(h) = IntSize /\ h[1] = s
  <2>1. h = [k \in 1 .. IntSize |-> IF k = 1 THEN s ELSE 0]
    BY DEF IntBytes
  <2>2. s \in Nat
    BY <1>2
  <2> HIDE DEF h
  <2>3. h \in [1 .. IntSize -> Nat]
    BY <2>1, <2>2
  <2>4. h \in Seq(Nat) /\ DOMAIN h = 1 .. IntSize
    BY <1>2, <2>3
  <2> QED
    BY <1>2, <2>1, <2>4
<1>4. /\ c \in Seq(Nat) /\ Len(c) <= BlockSize /\ Plain(c) = last
  BY CodedIs, SymbolsAreNumbers, BlocksAre
<1> HIDE DEF h, c
<1>5. file \o h \in Seq(Nat) /\ Len(file \o h) = at + IntSize
  <2>1. file \in Seq(Nat) /\ h \in Seq(Nat)
    BY <1>1, <1>3
  <2>2. file \o h \in Seq(Nat) /\ Len(file \o h) = Len(file) + Len(h)
    BY <2>1, ConcatProperties
  <2> QED
    BY <2>2, <1>3
<1>6. Read((file \o h) \o c, at + IntSize, BlockSize) = c
  <2>1. Read((file \o h) \o c, Len(file \o h), BlockSize) = c
    BY <1>2, <1>4, <1>5, ReadAppended
  <2> QED
    BY <2>1, <1>5
<1>7. Read((file \o h) \o c, at, IntSize) = h
  <2>1. Read((file \o h) \o c, at, IntSize) = Read(file \o h, at, IntSize)
    <3>1. at + IntSize <= Len(file \o h) /\ IntSize \in Nat
      BY <1>1, <1>2, <1>5
    <3> QED
      BY <3>1, <1>1, <1>4, <1>5, ReadExtended, ZenonT(30)
  <2>2. Read(file \o h, at, IntSize) = h
    <3>1. Len(h) <= IntSize /\ IntSize \in Nat
      BY <1>2, <1>3
    <3> QED
      BY <3>1, <1>1, <1>3, ReadAppended
  <2> QED
    BY <2>1, <2>2
<1>8. (w + 1) - 1 = w
  OBVIOUS
<1>9. HeaderAt(w + 1)' = h /\ CodedAt(w + 1)' = c
  <2>1. file' = (file \o h) \o c
    BY DEF h, c
  <2>2. Blk((w + 1) - 1) + Idx((w + 1) - 1) = at
    BY <1>8
  <2> HIDE DEF at
  <2> QED
    BY <1>6, <1>7, <2>1, <2>2 DEF HeaderAt, CodedAt
<1>10. Plain(CodedAt(w + 1))' = last
  BY <1>4, <1>9 DEF Plain
<1>11. BlockAt(w + 1)' = BlockAt(w + 1)
  BY BlocksKept
<1> QED
  BY <1>3, <1>9, <1>10, <1>11 DEF FrameOK
\* The host writes the first block that has not been written: in the OpenCL
\* program because all have come this far, in the others because they have
\* no block but the last one to write.
LEMMA NextToWrite ==
    ASSUME Types, NEW w \in 0 .. Len(work), WrittenUpTo(w), NEW i \in DOMAIN work,
           NEW stage, stage # "written", HostTurn(i, stage), StepBegun({stage, "written"})
    PROVE  i = w + 1 /\ i \in 1 .. Len(work) /\ w \in Nat /\ Len(work) \in Nat
<1>1. /\ work \in Seq(Entries) /\ Len(work) \in Nat /\ i \in 1 .. Len(work)
      /\ DOMAIN work = 1 .. Len(work) /\ w \in Nat
  BY DEF Types
<1>2. /\ work[i].stage = stage /\ \A h \in 1 .. i - 1 : work[h].stage # stage
  BY DEF HostTurn
<1>3. ~ (i <= w)
  BY <1>1, <1>2 DEF WrittenUpTo
<1>4. i - 1 <= w
  <2>1. CASE variant = "opencl"
    <3>1. \A h \in 1 .. Len(work) : work[h].stage \in {stage, "written"}
      BY <1>1, <2>1 DEF StepBegun, All
    <3>2. \A h \in 1 .. i - 1 : work[h].stage = "written"
      BY <3>1, <1>1, <1>2
    <3>3. \A h \in 1 .. i - 1 : h <= w
      BY <3>2, <1>1 DEF WrittenUpTo
    <3>4. i - 1 = 0 \/ i - 1 \in 1 .. i - 1
      BY <1>1
    <3> QED
      BY <3>3, <3>4, <1>1
  <2>2. CASE variant # "opencl"
    <3>1. \A h \in 1 .. Len(work) - 1 : h <= w
      BY <2>2 DEF WrittenUpTo
    <3>2. i - 1 = 0 \/ i - 1 \in 1 .. Len(work) - 1
      BY <1>1
    <3> QED
      BY <3>1, <3>2, <1>1
  <2> QED
    BY <2>1, <2>2
<1> QED
  BY <1>1, <1>3, <1>4

\* Block w + 1 has been written.
LEMMA OneMoreWritten ==
    ASSUME Types, NEW w \in Nat, w + 1 \in 1 .. Len(work), WrittenUpTo(w),
           UNCHANGED variant,
           work' = [work EXCEPT ![w + 1].stage = "written"]
    PROVE  /\ work' \in Seq(Entries) /\ Len(work') = Len(work)
           /\ \A j \in 1 .. Len(work) : j # w + 1 => work'[j] = work[j]
           /\ work'[w + 1] = [work[w + 1] EXCEPT !.stage = "written"]
           /\ WrittenUpTo(w + 1)'
<1> DEFINE n == Len(work)
           e == [work[w + 1] EXCEPT !.stage = "written"]
<1>1. work \in Seq(Entries) /\ n \in Nat
  BY DEF Types
<1>2. work[w + 1] \in Entries
  BY <1>1
<1>3. e \in Entries /\ e.stage = "written"
  BY <1>2 DEF Entries, Stages
<1>4. work' = [work EXCEPT ![w + 1] = e]
  OBVIOUS
<1> HIDE DEF e
<1>5. /\ work' \in Seq(Entries) /\ Len(work') = n /\ work'[w + 1] = e
      /\ \A j \in 1 .. n : j # w + 1 => work'[j] = work[j]
  BY <1>1, <1>3, <1>4
<1>6. \A j \in 1 .. n : work'[j].stage = "written" <=> j <= w + 1
  <2> SUFFICES ASSUME NEW j \in 1 .. n
               PROVE  work'[j].stage = "written" <=> j <= w + 1
    OBVIOUS
  <2>1. CASE j = w + 1
    <3>1. j <= w + 1
      BY <2>1
    <3> QED
      BY <3>1, <2>1, <1>3, <1>5
  <2>2. CASE j # w + 1
    <3>1. work[j].stage = "written" <=> j <= w
      BY DEF WrittenUpTo
    <3>2. j <= w <=> j <= w + 1
      BY <2>2, <1>1
    <3> QED
      BY <3>1, <3>2, <2>2, <1>5
  <2> QED
    BY <2>1, <2>2
<1>7. variant' # "opencl" => \A j \in 1 .. n - 1 : j <= w + 1
  BY <1>1 DEF WrittenUpTo
<1>8. WrittenUpTo(w + 1)'
  BY <1>5, <1>6, <1>7 DEF WrittenUpTo
<1> QED
  BY <1>5, <1>8 DEF e, n

\* What is written of a block.
LEMMA FrameFacts ==
    ASSUME Types, TransformInv, NEW i \in DOMAIN work, work[i].stage = "last"
    PROVE  LET last == LastColumn(work[i].block, work[i].rotationIdx)
           IN  /\ last \in Blocks /\ work[i].last = Coded(last)
               /\ work[i].s0Idx \in 0 .. BlockSize
               /\ Unrotated(last, work[i].s0Idx) = BlockAt(i)
               /\ Len(work[i].last) = Len(BlockAt(i))
<1> DEFINE b == work[i].block
           o == work[i].rotationIdx
           last == LastColumn(b, o)
<1>1. /\ IsBlock(b) /\ Len(b) <= BlockSize /\ b = BlockAt(i) /\ Transformed(work[i])
  BY EntryFacts
<1>2. /\ IsOrder(b, o) /\ Neighbours(b, o)
      /\ work[i].s0Idx = S0Index(o) /\ work[i].last = Coded(last)
  BY <1>1 DEF Transformed
<1> HIDE DEF b, o
<1>3. Rising(b, o)
  BY <1>1, <1>2, NeighboursRise
<1>4. S0Index(o) \in 0 .. Len(b) - 1 /\ Unrotated(last, S0Index(o)) = b
  BY <1>1, <1>2, <1>3, UnrotatedIs
<1>5. last \in Blocks /\ Len(last) = Len(b)
  BY <1>1, <1>2, ColumnType
<1> HIDE DEF last
<1>6. S0Index(o) \in 0 .. BlockSize
  <2>1. Len(b) \in Nat /\ BlockSize \in Nat
    BY <1>1, BlockFacts, Sizes
  <2> QED
    BY <2>1, <1>1, <1>4
<1>7. Len(Coded(last)) = Len(last)
  BY <1>5, CodedIs
<1> QED
  BY <1>1, <1>2, <1>4, <1>5, <1>6, <1>7 DEF last, b, o

LEMMA WriteFrameKeeps ==
    ASSUME IInv, NEW i \in DOMAIN work, WriteFrame(i)
    PROVE  IInv'
<1> DEFINE n == Len(work)
           s == work[i].s0Idx
           last == LastColumn(work[i].block, work[i].rotationIdx)
           written == [work[i] EXCEPT !.stage = "written"]
<1>1. /\ phase = "transform" /\ HostTurn(i, "last") /\ StepBegun({"last", "written"})
      /\ file' = file \o IntBytes(s) \o work[i].last
      /\ work' = [work EXCEPT ![i].stage = "written"]
      /\ UNCHANGED <<variant, input, phase, pos, out>>
      /\ work[i].stage = "last"
  BY DEF WriteFrame, HostTurn
<1>2. Types /\ TransformInv
  BY <1>1 DEF IInv
<1>3. PICK w \in 0 .. n : WrittenUpTo(w) /\ FramesOK(w)
  BY <1>2 DEF TransformInv
<1>4. i = w + 1 /\ i \in 1 .. n /\ w \in Nat /\ n \in Nat
  <2>1. "last" # "written"
    OBVIOUS
  <2> QED
    BY <2>1, <1>1, <1>2, <1>3, NextToWrite
<1>5. /\ last \in Blocks /\ work[i].last = Coded(last) /\ s \in 0 .. BlockSize
      /\ Unrotated(last, s) = BlockAt(i)
      /\ Len(work[i].last) = Len(BlockAt(i))
  BY <1>1, <1>2, FrameFacts
<1>6. work[i] \in Entries /\ work[i].block = BlockAt(i) /\ Transformed(work[i])
      /\ Blk(i - 1) < Len(input)
  BY <1>2, EntryFacts
<1>7. /\ work' \in Seq(Entries) /\ Len(work') = n
      /\ \A j \in 1 .. n : j # i => work'[j] = work[j]
      /\ work'[i] = written
      /\ WrittenUpTo(i)'
  BY <1>1, <1>2, <1>3, <1>4, OneMoreWritten
<1> HIDE DEF last, s
<1>8. file' = (file \o IntBytes(s)) \o Coded(last) /\ file \in Seq(Nat)
  BY <1>1, <1>2, <1>5 DEF Types
<1>9. IntBytes(s) \in Seq(Nat) /\ Len(IntBytes(s)) = IntSize
  <2>1. IntSize \in Nat /\ s \in Nat
    BY <1>5, Sizes
  <2> QED
    BY <2>1 DEF IntBytes
<1>10. Coded(last) \in Seq(Nat) /\ Len(Coded(last)) = Len(BlockAt(i))
  BY <1>5, CodedIs, SymbolsAreNumbers
<1>11. /\ file' \in Seq(Nat) /\ Len(file') = (Len(file) + IntSize) + Len(BlockAt(i))
       /\ IntBytes(s) \o Coded(last) \in Seq(Nat)
       /\ file' = file \o (IntBytes(s) \o Coded(last))
  <2> DEFINE h == IntBytes(s)
             c == Coded(last)
  <2> HIDE DEF h, c
  <2>1. h \in Seq(Nat) /\ c \in Seq(Nat) /\ file \in Seq(Nat)
    BY <1>8, <1>9, <1>10 DEF h, c
  <2>2. /\ file \o h \in Seq(Nat) /\ Len(file \o h) = Len(file) + Len(h)
        /\ h \o c \in Seq(Nat)
    BY <2>1, ConcatProperties
  <2>3. (file \o h) \o c \in Seq(Nat) /\ Len((file \o h) \o c) = Len(file \o h) + Len(c)
    BY <2>1, <2>2, ConcatProperties
  <2>4. (file \o h) \o c = file \o (h \o c)
    <3>1. ASSUME NEW f \in Seq(Nat), NEW g \in Seq(Nat), NEW e \in Seq(Nat)
          PROVE  (f \o g) \o e = f \o (g \o e)
      BY ConcatAssociative, SMTT(30)
    <3> QED
      BY <2>1, <3>1, Zenon
  <2> QED
    BY <2>2, <2>3, <2>4, <1>8, <1>9, <1>10 DEF h, c
<1>12. Len(file) = Blk(w) + Idx(w)
  <2>1. (w + 1) - 1 = w
    BY <1>4
  <2>2. Blk(w) < Len(input) /\ Blk(w) \in Nat /\ Len(input) \in Nat
    BY <2>1, <1>2, <1>4, <1>6, Steps, InputFacts DEF Types
  <2>3. Len(UpToBlock(w)) = IF Blk(w) <= Len(input) THEN Blk(w) ELSE Len(input)
    BY <1>2, <1>4, UpToBlockIs DEF Types
  <2>4. Len(UpToBlock(w)) = Blk(w)
    BY <2>2, <2>3
  <2>5. Idx(w) \in Nat
    BY <1>4, Steps
  <2> QED
    BY <2>2, <2>4, <2>5, <1>3 DEF FramesOK
<1>13. \A j \in 1 .. w : FrameOK(j)'
  <2>1. \A j \in 1 .. w : FrameOK(j)
    BY <1>3 DEF FramesOK
  <2> SUFFICES ASSUME NEW j \in 1 .. w PROVE FrameOK(j)'
    OBVIOUS
  <2> DEFINE g == IntBytes(s) \o Coded(last)
  <2>2. g \in Seq(Nat) /\ file' = file \o g
    BY <1>11
  <2> HIDE DEF g
  <2> QED
    BY <2>1, <2>2, <1>1, <1>2, <1>4, <1>12, FramesStay
<1>14. FrameOK(w + 1)'
  BY <1>1, <1>2, <1>4, <1>5, <1>8, <1>12, FrameRead
<1>15. FramesOK(i)'
  <2>1. \A k : UpToBlock(k)' = UpToBlock(k)
    BY <1>1, BlocksKept
  <2>2. Len(UpToBlock(w + 1)) = Len(UpToBlock(w)) + Len(BlockAt(w + 1))
    BY <1>2, <1>4, UpToNext DEF Types
  <2>3. Len(file) = Idx(w) + Len(UpToBlock(w))
    BY <1>3 DEF FramesOK
  <2>4. Idx(w + 1) = Idx(w) + IntSize /\ Idx(w) \in Nat /\ IntSize \in Nat
    BY <1>4, Steps, Sizes
  <2>5. Len(UpToBlock(w)) \in Nat /\ Len(BlockAt(w + 1)) \in Nat
    <3>1. UpToBlock(w) \in Seq(Symbols) /\ BlockAt(w + 1) \in Seq(Symbols)
      <4>1. w + 1 \in Nat \ {0} /\ input \in Inputs
        BY <1>2, <1>4 DEF Types
      <4> QED
        BY <4>1, <1>4, UpToBlockIs, BlockAtIs
    <3> QED
      BY <3>1
  <2>6. Len(file') = Idx(w + 1) + Len(UpToBlock(w + 1))
    <3> DEFINE u == Len(UpToBlock(w))
               v == Len(UpToBlock(w + 1))
               a == Len(BlockAt(w + 1))
               f == Len(file)
               g == Len(file')
               x == Idx(w)
               y == Idx(w + 1)
    <3>1. g = (f + IntSize) + a
      BY <1>4, <1>11
    <3>2. /\ v = u + a /\ f = x + u /\ y = x + IntSize
          /\ u \in Nat /\ a \in Nat /\ x \in Nat /\ IntSize \in Nat
      BY <2>2, <2>3, <2>4, <2>5
    <3> HIDE DEF u, v, a, f, g, x, y
    <3>3. g = y + v
      BY <3>1, <3>2
    <3> QED
      BY <3>3 DEF u, v, a, f, g, x, y
  <2>7. \A j \in 1 .. w + 1 : FrameOK(j)'
    <3> SUFFICES ASSUME NEW j \in 1 .. w + 1 PROVE FrameOK(j)'
      OBVIOUS
    <3>1. j \in 1 .. w \/ j = w + 1
      BY <1>4
    <3> QED
      BY <3>1, <1>13, <1>14
  <2> QED
    BY <2>1, <2>6, <2>7, <1>4 DEF FramesOK, Idx
<1>16. \A f : Transformed(f) => Transformed(f)'
  <2>1. \A t : Coded(t)' = Coded(t)
    BY <1>1 DEF Coded
  <2> QED
    BY <2>1 DEF Transformed
<1>17. \A k : BlockAt(k)' = BlockAt(k) /\ UpToBlock(k)' = UpToBlock(k)
  BY <1>1, BlocksKept
<1>18. Transformed(written) /\ written.block = work[i].block
  BY <1>1, <1>6 DEF Transformed, Entries
<1> HIDE DEF written
<1>19. \A j \in 1 .. n : (work[j].block = BlockAt(j))' /\ Transformed(work[j])'
  <2> SUFFICES ASSUME NEW j \in 1 .. n
               PROVE  work'[j].block = BlockAt(j) /\ Transformed(work[j])'
    BY <1>17
  <2>2. PICK f : f = work'[j] /\ Transformed(f) /\ f.block = BlockAt(j)
    <3>1. CASE j = i
      BY <3>1, <1>6, <1>7, <1>18
    <3>2. CASE j # i
      <4>1. work'[j] = work[j]
        BY <1>7, <3>2
      <4>2. work[j].block = BlockAt(j) /\ Transformed(work[j])
        BY <1>2 DEF TransformInv
      <4> QED
        BY <4>1, <4>2
    <3> QED
      BY <3>1, <3>2
  <2>3. Transformed(f)'
    BY <2>2, <1>16
  <2> QED
    BY <2>2, <2>3
<1>20. /\ out' = <<>> /\ (variant' = "cuda" => work' = <<>>)
       /\ (Len(work') > 0 => Blk(Len(work') - 1) < Len(input'))
       /\ pos' = Len(UpToBlock(Len(work)))'
  <2>1. work # <<>>
    BY <1>2, <1>4
  <2>2. UpToBlock(Len(work))' = UpToBlock(Len(work))
    BY <1>1, <1>7 DEF UpToBlock
  <2> QED
    BY <2>1, <2>2, <1>1, <1>2, <1>7 DEF TransformInv
<1> HIDE DEF n
<1>21. \E v \in 0 .. Len(work') : WrittenUpTo(v)' /\ FramesOK(v)'
  <2>1. i \in 0 .. Len(work')
    BY <1>4, <1>7
  <2> QED
    BY <2>1, <1>7, <1>15
<1>22. TransformInv'
  BY <1>1, <1>7, <1>19, <1>20, <1>21 DEF TransformInv
<1>23. Types'
  BY <1>1, <1>2, <1>7, <1>11 DEF Types
<1> QED
  BY <1>1, <1>22, <1>23, StaysInTransform
-----------------------------------------------------------------------------
(* Steps of the reversal.                                                  *)

LEMMA StaysInReverse ==
    ASSUME phase \in {"transform", "reverse"}, phase' = "reverse", Types', ReverseInv'
    PROVE  IInv'
BY DEF IInv

LEMMA WrittenOut ==
    ASSUME Types, NEW w \in 0 .. Len(work), WrittenUpTo(w), All({"written"})
    PROVE  w = Len(work)
<1>1. work \in Seq(Entries) /\ Len(work) \in Nat /\ DOMAIN work = 1 .. Len(work)
  BY DEF Types
<1> SUFFICES ASSUME w # Len(work) PROVE FALSE
  OBVIOUS
<1>2. w + 1 \in 1 .. Len(work) /\ ~ (w + 1 <= w)
  <2>1. PICK n \in Nat : n = Len(work)
    BY <1>1
  <2>2. w \in 0 .. n /\ w # n
    BY <2>1
  <2>3. w + 1 \in 1 .. n /\ ~ (w + 1 <= w)
    BY <2>2
  <2> QED
    BY <2>1, <2>3
<1>3. work[w + 1].stage = "written"
  BY <1>1, <1>2 DEF All
<1> QED
  BY <1>2, <1>3 DEF WrittenUpTo

LEMMA StartReverseKeeps ==
    ASSUME IInv, StartReverse
    PROVE  IInv'
<1>1. /\ phase = "transform" /\ pos = Len(input) /\ All({"written"})
      /\ phase' = "reverse" /\ pos' = 0 /\ work' = <<>>
      /\ variant = "cuda" => work # <<>>
      /\ UNCHANGED <<input, file, out>>
  BY DEF StartReverse, AllRead
<1>2. variant' \in IF variant = "mtf" THEN {"mtf"} ELSE Variants \ {"mtf", "cuda"}
  BY DEF StartReverse
<1>3. Types /\ TransformInv
  BY <1>1 DEF IInv
<1>4. PICK n \in Nat : n = Len(work) /\ work \in Seq(Entries) /\ input \in Inputs
  BY <1>3 DEF Types
<1>5. FramesOK(n)
  <2>1. PICK w \in 0 .. Len(work) : WrittenUpTo(w) /\ FramesOK(w)
    BY <1>3 DEF TransformInv
  <2> QED
    BY <1>1, <1>3, <1>4, <2>1, WrittenOut
<1>6. n = NoOfBlocks(input) /\ Len(input) \in Nat
  <2>1. Len(input) = Len(UpToBlock(n))
    BY <1>1, <1>3, <1>4 DEF TransformInv
  <2>2. Len(UpToBlock(n)) = IF Blk(n) <= Len(input) THEN Blk(n) ELSE Len(input)
    BY <1>4, UpToBlockIs
  <2>3. Blk(n) \in Nat /\ Len(input) \in Nat
    BY <1>4, Steps, InputFacts
  <2>4. Blk(n) >= Len(input)
    BY <2>1, <2>2, <2>3
  <2>5. n > 0 => Blk(n - 1) < Len(input)
    BY <1>3, <1>4 DEF TransformInv
  <2>6. \A k \in Nat : Blk(k) >= Len(input) /\ (k > 0 => Blk(k - 1) < Len(input))
            => k = NoOfBlocks(input)
    BY <2>3, BlocksCover
  <2> QED
    BY <2>3, <2>4, <2>5, <2>6
<1>7. variant # "cuda" /\ variant' # "cuda" /\ variant' \in Variants
      /\ (variant' = "mtf" <=> variant = "mtf")
  <2>1. variant # "cuda"
    BY <1>1, <1>3 DEF TransformInv
  <2> QED
    BY <2>1, <1>2, <1>3 DEF Types
<1>8. FramesOK(n)'
  <2>1. \A k : HeaderAt(k)' = HeaderAt(k) /\ CodedAt(k)' = CodedAt(k)
    BY <1>1 DEF HeaderAt, CodedAt, Blk, Idx
  <2>2. \A s : Plain(s)' = Plain(s)
    BY <1>7 DEF Plain
  <2>3. \A k : BlockAt(k)' = BlockAt(k) /\ UpToBlock(k)' = UpToBlock(k)
    BY <1>1, BlocksKept
  <2>4. \A k : FrameOK(k) => FrameOK(k)'
    <3> SUFFICES ASSUME NEW k, FrameOK(k) PROVE FrameOK(k)'
      OBVIOUS
    <3>1. Plain(CodedAt(k))' = Plain(CodedAt(k))
      BY <2>1, <1>7 DEF Plain
    <3> QED
      BY <2>1, <2>3, <3>1 DEF FrameOK
  <2>5. \A k : FramesOK(k) => FramesOK(k)'
    BY <1>1, <2>3, <2>4 DEF FramesOK, Idx
  <2> QED
    BY <1>5, <2>5
<1>9. Types'
  <2>1. <<>> \in Seq(Entries)
    OBVIOUS
  <2> QED
    BY <2>1, <1>1, <1>3, <1>7 DEF Types
<1>10. NoOfBlocks(input)' = n
  BY <1>1, <1>6 DEF NoOfBlocks
<1>11. Len(work') = 0
  BY <1>1
<1>12. pos' = IF 0 < n THEN Blk(0) + Idx(0) ELSE Len(file)
  <2>1. Blk(0) = 0 /\ Idx(0) = 0
    BY Steps
  <2>2. n = 0 => Len(file) = 0
    <3> SUFFICES ASSUME n = 0 PROVE Len(file) = 0
      OBVIOUS
    <3>1. Len(file) = Idx(0) + Len(UpToBlock(0))
      BY <1>5 DEF FramesOK
    <3>2. UpToBlock(0) = <<>>
      BY <1>4, UpToNothing
    <3> QED
      BY <2>1, <3>1, <3>2
  <2> QED
    BY <1>1, <1>4, <2>1, <2>2
<1>13. \E w \in 0 .. Len(work') : WrittenUpTo(w)' /\ out' = UpToBlock(w)'
  <2>1. WrittenUpTo(0)'
    BY <1>11 DEF WrittenUpTo
  <2>2. UpToBlock(0)' = UpToBlock(0) /\ UpToBlock(0) = <<>>
    BY <1>1, <1>4, BlocksKept, UpToNothing
  <2>3. out' = <<>>
    BY <1>1, <1>3 DEF TransformInv
  <2>4. 0 \in 0 .. Len(work')
    BY <1>11
  <2> QED
    BY <2>1, <2>2, <2>3, <2>4
<1>14. ReverseInv'
  <2>1. FramesOK(NoOfBlocks(input))'
    BY <1>8, <1>10 DEF FramesOK
  <2>2. /\ \A i \in 1 .. Len(work') : Framed(i)'
        /\ variant' # "opencl" => Len(work') <= NoOfBlocks(input)'
    BY <1>4, <1>10, <1>11
  <2> QED
    BY <1>1, <1>7, <1>10, <1>11, <1>12, <1>13, <2>1, <2>2 DEF ReverseInv
<1> QED
  BY <1>1, <1>9, <1>14, StaysInReverse
\* The transformed file is as long as the input and the indexes.
LEMMA FileLength ==
    ASSUME Types, ReverseInv
    PROVE  LET nb == NoOfBlocks(input)
           IN  /\ nb \in Nat /\ Len(input) \in Nat /\ Idx(nb) \in Nat
               /\ Len(file) = Idx(nb) + Len(input) /\ Blk(nb) >= Len(input)
               /\ \A k \in Nat : k < nb =>
                    /\ Blk(k) < Len(input)
                    /\ (Blk(k) + Idx(k)) + IntSize <= Len(file)
<1>1. PICK nb : nb = NoOfBlocks(input)
  OBVIOUS
<1>2. input \in Inputs /\ Len(input) \in Nat
  BY InputFacts DEF Types
<1>3. nb \in Nat /\ Blk(nb) >= Len(input) /\ \A k \in Nat : k < nb => Blk(k) < Len(input)
  BY <1>1, <1>2, BlocksCover
<1>4. Len(file) = Idx(nb) + Len(input) /\ Idx(nb) \in Nat
  <2>1. UpToBlock(nb) = input
    BY <1>2, <1>3, UpToBlockIs
  <2>2. Len(file) = Idx(nb) + Len(UpToBlock(nb))
    BY <1>1 DEF ReverseInv, FramesOK
  <2> QED
    BY <2>1, <2>2, <1>3, Steps
<1>5. ASSUME NEW k \in Nat, k < nb PROVE (Blk(k) + Idx(k)) + IntSize <= Len(file)
  <2>1. k + 1 \in Nat /\ k + 1 <= nb
    BY <1>3, <1>5
  <2>2. Idx(k + 1) <= Idx(nb) /\ Idx(k + 1) = Idx(k) + IntSize /\ Idx(k) \in Nat
    BY <2>1, <1>3, StepsRise, Steps
  <2>3. Blk(k) < Len(input) /\ Blk(k) \in Nat /\ IntSize \in Nat
    BY <1>3, <1>5, Steps, Sizes
  <2> QED
    BY <2>2, <2>3, <1>2, <1>4
<1> QED
  BY <1>1, <1>2, <1>3, <1>4, <1>5

\* What a frame is found to be, and where the next one begins.
LEMMA FrameFound ==
    ASSUME Types, ReverseInv, NEW k \in Nat, k < NoOfBlocks(input)
    PROVE  LET at == Blk(k) + Idx(k)
           IN  /\ Read(file, at, IntSize) = HeaderAt(k + 1)
               /\ Read(file, at + IntSize, BlockSize) = CodedAt(k + 1)
               /\ Len(HeaderAt(k + 1)) = IntSize /\ HeaderAt(k + 1) # <<>>
               /\ HeaderAt(k + 1)[1] \in 0 .. BlockSize
               /\ Plain(CodedAt(k + 1)) \in Blocks
               /\ (at + IntSize) + Len(CodedAt(k + 1))
                    = IF k + 1 < NoOfBlocks(input) THEN Blk(k + 1) + Idx(k + 1) ELSE Len(file)
<1>1. PICK nb : nb = NoOfBlocks(input)
  OBVIOUS
<1> DEFINE at == Blk(k) + Idx(k)
           c == CodedAt(k + 1)
<1>2. /\ nb \in Nat /\ Len(input) \in Nat /\ Idx(nb) \in Nat
      /\ Len(file) = Idx(nb) + Len(input) /\ Blk(nb) >= Len(input)
      /\ Blk(k) < Len(input)
      /\ \A j \in Nat : j < nb => Blk(j) < Len(input)
  BY <1>1, FileLength
<1>3. (k + 1) - 1 = k /\ k + 1 \in Nat /\ k + 1 \in 1 .. nb /\ k + 1 <= nb
  BY <1>1, <1>2
<1>4. /\ Blk(k) \in Nat /\ Blk(k + 1) = Blk(k) + BlockSize
      /\ Idx(k) \in Nat /\ Idx(k + 1) = Idx(k) + IntSize
      /\ BlockSize \in Nat \ {0} /\ IntSize \in Nat \ {0}
  BY Steps, Sizes
<1>5. Read(file, at, IntSize) = HeaderAt(k + 1) /\ Read(file, at + IntSize, BlockSize) = c
  BY <1>3 DEF HeaderAt, CodedAt
<1>6. FrameOK(k + 1)
  BY <1>1, <1>3 DEF ReverseInv, FramesOK
<1>7. /\ Len(HeaderAt(k + 1)) = IntSize /\ HeaderAt(k + 1) # <<>>
      /\ HeaderAt(k + 1)[1] \in 0 .. BlockSize /\ Plain(c) \in Blocks
  BY <1>4, <1>6 DEF FrameOK
<1> HIDE DEF c
<1>8. Len(c) = IF (at + IntSize) + BlockSize < Len(file) THEN BlockSize
               ELSE IF at + IntSize < Len(file) THEN Len(file) - (at + IntSize) ELSE 0
  <2>1. at + IntSize \in Nat /\ BlockSize \in Nat /\ file \in Seq(Nat)
    BY <1>4 DEF Types
  <2> HIDE DEF at
  <2>2. IsRead(Nat, file, at + IntSize, BlockSize)
    BY <2>1, ReadIsRead
  <2> QED
    BY <2>2, <1>5 DEF IsRead
<1>9. (at + IntSize) + Len(c) = IF k + 1 < nb THEN Blk(k + 1) + Idx(k + 1) ELSE Len(file)
  <2>1. at + IntSize = Blk(k) + Idx(k + 1) /\ (at + IntSize) + BlockSize = Blk(k + 1) + Idx(k + 1)
    BY <1>4
  <2>2. at + IntSize \in Nat
    BY <1>4
  <2> HIDE DEF at
  <2>3. CASE k + 1 < nb
    <3>1. Blk(k + 1) < Len(input) /\ Idx(k + 1) <= Idx(nb) /\ Idx(k + 1) \in Nat
          /\ Blk(k + 1) \in Nat
      BY <2>3, <1>2, <1>3, StepsRise, Steps
    <3>2. (at + IntSize) + BlockSize < Len(file)
      BY <3>1, <2>1, <1>2
    <3> QED
      BY <3>2, <2>1, <2>3, <1>8
  <2>4. CASE k + 1 = nb
    <3>1. at + IntSize < Len(file) /\ ~ ((at + IntSize) + BlockSize < Len(file))
      BY <2>1, <2>4, <1>2, <1>4, SMTT(30)
    <3>2. Len(c) = Len(file) - (at + IntSize)
      BY <3>1, <1>8
    <3>3. Len(file) \in Nat
      BY <1>2
    <3> QED
      BY <3>2, <3>3, <2>2, <2>4, <1>2
  <2> QED
    BY <2>3, <2>4, <1>2, <1>3
<1> QED
  BY <1>1, <1>5, <1>7, <1>9 DEF c
LEMMA FramedStays ==
    ASSUME UNCHANGED <<variant, input, file>>, NEW j, work'[j] = work[j], Framed(j)
    PROVE  Framed(j)'
<1>1. /\ HeaderAt(j)' = HeaderAt(j) /\ CodedAt(j)' = CodedAt(j)
      /\ BlockAt(j)' = BlockAt(j)
  BY FramesKept, BlocksKept
<1>2. Plain(CodedAt(j))' = Plain(CodedAt(j))
  BY <1>1 DEF Plain
<1>3. NoOfBlocks(input)' = NoOfBlocks(input)
  BY DEF NoOfBlocks
<1> QED
  BY <1>1, <1>2, <1>3 DEF Framed

LEMMA ReadFrameKeeps ==
    ASSUME IInv, ReadFrame
    PROVE  IInv'
<1> DEFINE header == Read(file, pos, IntSize)
           last == Read(file, pos + Len(header), BlockSize)
<1>1. PICK s0Idx \in IF header = <<>> THEN 0 .. BlockSize ELSE {header[1]} :
          work' = Append(work, [Fresh EXCEPT !.stage = "framed", !.s0Idx = s0Idx,
                                             !.last = Plain(last)])
  BY DEF ReadFrame, Plain
<1>2. /\ phase = "reverse" /\ ~AllRead
      /\ variant # "opencl" => All({"written"})
      /\ pos' = pos + Len(header) + Len(last)
      /\ UNCHANGED <<variant, input, phase, file, out>>
  BY DEF ReadFrame
<1>3. Types /\ ReverseInv
  BY <1>2 DEF IInv
<1>4. PICK k \in Nat : k = Len(work) /\ work \in Seq(Entries) /\ input \in Inputs
                         /\ file \in Seq(Nat)
  BY <1>3 DEF Types
<1>5. PICK nb : nb = NoOfBlocks(input)
  OBVIOUS
<1>6. /\ nb \in Nat /\ Len(input) \in Nat /\ Len(file) \in Nat
      /\ BlockSize \in Nat \ {0} /\ IntSize \in Nat \ {0}
  BY <1>3, <1>4, <1>5, FileLength, Sizes
<1> DEFINE e == [Fresh EXCEPT !.stage = "framed", !.s0Idx = s0Idx, !.last = Plain(last)]
<1>7. work' = Append(work, e)
  BY <1>1
<1> HIDE DEF header, last
\* The frame, or what is behind the last one.
<1>8. /\ s0Idx \in 0 .. BlockSize /\ Plain(last) \in Blocks
      /\ IF k + 1 <= nb
           THEN Plain(last) = Plain(CodedAt(k + 1)) /\ s0Idx = HeaderAt(k + 1)[1]
           ELSE Plain(last) = <<>>
      /\ pos' = IF k + 1 < nb THEN Blk(k + 1) + Idx(k + 1) ELSE Len(file)
      /\ variant # "opencl" => k + 1 <= nb
  <2>1. CASE k < nb
    <3> DEFINE at == Blk(k) + Idx(k)
    <3>1. pos = at
      BY <2>1, <1>3, <1>4, <1>5 DEF ReverseInv
    <3>2. /\ Read(file, at, IntSize) = HeaderAt(k + 1)
          /\ Read(file, at + IntSize, BlockSize) = CodedAt(k + 1)
          /\ Len(HeaderAt(k + 1)) = IntSize /\ HeaderAt(k + 1) # <<>>
          /\ HeaderAt(k + 1)[1] \in 0 .. BlockSize
          /\ Plain(CodedAt(k + 1)) \in Blocks
          /\ (at + IntSize) + Len(CodedAt(k + 1))
               = IF k + 1 < nb THEN Blk(k + 1) + Idx(k + 1) ELSE Len(file)
      BY <2>1, <1>3, <1>4, <1>5, FrameFound
    <3> HIDE DEF at
    <3>3. header = HeaderAt(k + 1) /\ Len(header) = IntSize
      BY <3>1, <3>2 DEF header
    <3>4. last = CodedAt(k + 1)
      BY <3>1, <3>2, <3>3 DEF last
    <3>5. s0Idx = HeaderAt(k + 1)[1]
      BY <1>1, <3>2, <3>3
    <3>6. pos' = (at + IntSize) + Len(CodedAt(k + 1))
      BY <1>2, <3>1, <3>3, <3>4
    <3>7. k + 1 <= nb
      BY <2>1, <1>6
    <3> QED
      BY <3>2, <3>4, <3>5, <3>6, <3>7
  <2>2. CASE ~ (k < nb)
    <3>1. pos = Len(file)
      BY <2>2, <1>3, <1>4, <1>5 DEF ReverseInv
    <3>2. header = <<>> /\ Len(header) = 0
      <4>1. Read(file, Len(file), IntSize) = <<>>
        BY <1>4, <1>6, ReadBehind
      <4> QED
        BY <3>1, <4>1 DEF header
    <3>3. last = <<>>
      <4>1. Read(file, Len(file), BlockSize) = <<>>
        BY <1>4, <1>6, ReadBehind
      <4>2. pos + Len(header) = Len(file)
        BY <3>1, <3>2, <1>6
      <4> QED
        BY <4>1, <4>2 DEF last
    <3>4. variant = "opencl"
      <4> SUFFICES ASSUME variant # "opencl" PROVE FALSE
        OBVIOUS
      <4>1. ~ (Len(file) - pos < IntSize)
        BY <1>2 DEF AllRead
      <4> QED
        BY <3>1, <4>1, <1>6
    <3>5. Plain(last) = <<>> /\ Plain(last) \in Blocks
      BY <3>3, <3>4, NothingIsBlock DEF Plain
    <3>6. s0Idx \in 0 .. BlockSize
      BY <1>1, <3>2
    <3>7. pos' = Len(file)
      BY <1>2, <1>6, <3>1, <3>2, <3>3
    <3>8. ~ (k + 1 <= nb) /\ ~ (k + 1 < nb)
      BY <2>2, <1>6
    <3> QED
      BY <3>4, <3>5, <3>6, <3>7, <3>8
  <2> QED
    BY <2>1, <2>2
<1>9. e \in Entries
  <2>1. Plain(last) \in Seq(Nat) /\ s0Idx \in Nat
    BY <1>6, <1>8, BlocksAre, SymbolsAreNumbers
  <2>2. Fresh \in Entries
    <3>1. <<>> \in Seq(Nat)
      OBVIOUS
    <3> QED
      BY <3>1 DEF Fresh, Entries, Stages
  <2> QED
    BY <2>1, <2>2 DEF Entries, Stages
<1>10. /\ e.stage = "framed" /\ e.rotationIdx = <<>> /\ e.block = <<>>
       /\ e.s0Idx = s0Idx /\ e.last = Plain(last)
  BY DEF Fresh
<1> HIDE DEF e
<1>11. /\ work' \in Seq(Entries) /\ Len(work') = k + 1 /\ work'[k + 1] = e
       /\ \A j \in 1 .. k : work'[j] = work[j]
  BY <1>4, <1>7, <1>9
<1>12. Types'
  BY <1>2, <1>3, <1>11 DEF Types
<1>13. NoOfBlocks(input)' = nb
  BY <1>2, <1>5 DEF NoOfBlocks
<1>14. \A j \in 1 .. k + 1 : Framed(j)'
  <2> SUFFICES ASSUME NEW j \in 1 .. k + 1 PROVE Framed(j)'
    OBVIOUS
  <2>1. CASE j = k + 1
    <3>1. /\ HeaderAt(j)' = HeaderAt(j) /\ CodedAt(j)' = CodedAt(j)
      BY <1>2, FramesKept
    <3>2. Plain(CodedAt(j))' = Plain(CodedAt(j))
      BY <3>1, <1>2 DEF Plain
    <3> QED
      BY <2>1, <3>1, <3>2, <1>8, <1>10, <1>11, <1>13 DEF Framed
  <2>2. CASE j # k + 1
    <3>1. j \in 1 .. k
      BY <2>2, <1>4
    <3>2. Framed(j) /\ work'[j] = work[j]
      BY <3>1, <1>3, <1>4, <1>11 DEF ReverseInv
    <3> QED
      BY <3>2, <1>2, FramedStays
  <2> QED
    BY <2>1, <2>2
<1>15. PICK w \in 0 .. k : WrittenUpTo(w) /\ out = UpToBlock(w)
  BY <1>3, <1>4 DEF ReverseInv
<1>16. WrittenUpTo(w)'
  <2>1. \A j \in 1 .. k + 1 : work'[j].stage = "written" <=> j <= w
    <3> SUFFICES ASSUME NEW j \in 1 .. k + 1
                 PROVE  work'[j].stage = "written" <=> j <= w
      OBVIOUS
    <3>1. CASE j = k + 1
      <4>1. ~ (j <= w)
        BY <3>1, <1>4
      <4> QED
        BY <4>1, <3>1, <1>10, <1>11
    <3>2. CASE j # k + 1
      <4>1. j \in 1 .. k
        BY <3>2, <1>4
      <4> QED
        BY <4>1, <1>4, <1>11, <1>15 DEF WrittenUpTo
    <3> QED
      BY <3>1, <3>2
  <2>2. variant' # "opencl" => \A j \in 1 .. k : j <= w
    BY <1>2, <1>4, <1>15, SMTT(30) DEF WrittenUpTo, All
  <2> QED
    BY <2>1, <2>2, <1>4, <1>11 DEF WrittenUpTo
<1>17. UpToBlock(w)' = UpToBlock(w)
  BY <1>2, BlocksKept
<1>18. ReverseInv'
  <2>1. FramesOK(nb)'
    BY <1>2, <1>3, <1>5, FramesKept DEF ReverseInv
  <2>2. FramesOK(NoOfBlocks(input))'
    BY <2>1, <1>13 DEF FramesOK
  <2>3. \E v \in 0 .. Len(work') : WrittenUpTo(v)' /\ out' = UpToBlock(v)'
    BY <1>2, <1>4, <1>11, <1>15, <1>16, <1>17
  <2>4. pos' = IF Len(work') < NoOfBlocks(input)'
               THEN Blk(Len(work')) + Idx(Len(work')) ELSE Len(file')
    BY <1>2, <1>8, <1>11, <1>13
  <2>5. variant' # "cuda" /\ (variant' # "opencl" => Len(work') <= NoOfBlocks(input)')
    BY <1>2, <1>3, <1>8, <1>11, <1>13 DEF ReverseInv
  <2> QED
    BY <1>11, <1>14, <2>2, <2>3, <2>4, <2>5 DEF ReverseInv
<1> QED
  BY <1>2, <1>12, <1>18, StaysInReverse
LEMMA NothingUnrotated ==
    ASSUME NEW s
    PROVE  Unrotated(<<>>, s) = <<>>
<1> DEFINE row == CHOOSE row : row = [j \in 1 .. 0 |-> IF j = 0 THEN s ELSE Pred(<<>>, row[j + 1])]
<1>1. \A f : [j \in 1 .. 0 |-> f[j]] = <<>>
  OBVIOUS
<1>2. Unrotated(<<>>, s) = [j \in 1 .. 0 |-> <<>>[row[j] + 1]]
  BY DEF Unrotated
<1> QED
  BY <1>2

\* The block of a frame, and nothing behind the last one.
LEMMA FrameUnrotated ==
    ASSUME Types, ReverseInv, NEW i \in 1 .. Len(work)
    PROVE  Unrotated(work[i].last, work[i].s0Idx) = BlockAt(i)
<1>1. PICK nb : nb = NoOfBlocks(input)
  OBVIOUS
<1>2. Framed(i) /\ FramesOK(nb) /\ i \in Nat \ {0} /\ i \in Nat /\ input \in Inputs
  BY <1>1 DEF ReverseInv, Types
<1>3. nb \in Nat /\ Len(input) \in Nat /\ Blk(nb) >= Len(input)
  BY <1>1, FileLength
<1>4. CASE i <= nb
  <2>1. FrameOK(i)
    BY <1>2, <1>3, <1>4 DEF FramesOK
  <2>2. work[i].last = Plain(CodedAt(i)) /\ work[i].s0Idx = HeaderAt(i)[1]
    BY <1>1, <1>2, <1>4 DEF Framed
  <2> QED
    BY <2>1, <2>2 DEF FrameOK
<1>5. CASE ~ (i <= nb)
  <2>1. work[i].last = <<>>
    BY <1>1, <1>2, <1>5 DEF Framed
  <2>2. i - 1 \in Nat /\ nb <= i - 1
    BY <1>2, <1>3, <1>5
  <2>3. Blk(nb) <= Blk(i - 1) /\ Blk(nb) \in Nat /\ Blk(i - 1) \in Nat
    BY <2>2, <1>3, StepsRise, Steps
  <2>4. ~ (Blk(i - 1) < Len(input))
    BY <2>3, <1>3
  <2>5. BlockAt(i) = <<>>
    BY <2>4, <1>2, BlockAtIs
  <2>6. Unrotated(<<>>, work[i].s0Idx) = <<>>
    BY NothingUnrotated
  <2> QED
    BY <2>1, <2>5, <2>6
<1> QED
  BY <1>4, <1>5

LEMMA UnrotateKeeps ==
    ASSUME IInv, NEW i \in DOMAIN work, Unrotate(i)
    PROVE  IInv'
<1> DEFINE b == Unrotated(work[i].last, work[i].s0Idx)
           e == [work[i] EXCEPT !.stage = "unrotated", !.block = b]
<1>1. /\ phase = "reverse" /\ work[i].stage = "framed"
      /\ work' = [work EXCEPT ![i].stage = "unrotated", ![i].block = b]
      /\ UNCHANGED <<variant, input, phase, pos, file, out>>
  BY DEF Unrotate
<1>2. Types /\ ReverseInv
  BY <1>1 DEF IInv
<1>3. PICK n \in Nat : n = Len(work) /\ work \in Seq(Entries) /\ input \in Inputs
                         /\ i \in 1 .. n
  BY <1>2 DEF Types
<1>4. work[i] \in Entries /\ i \in Nat \ {0} /\ Framed(i)
  BY <1>2, <1>3 DEF ReverseInv
<1>5. b = BlockAt(i)
  BY <1>2, <1>3, FrameUnrotated
<1>6. b \in Seq(Nat)
  <2>1. BlockAt(i) \in Seq(Symbols)
    BY <1>3, <1>4, BlockAtIs
  <2> QED
    BY <1>5, <2>1, SymbolsAreNumbers
<1>7. work' = [work EXCEPT ![i] = e]
  BY <1>1
<1> HIDE DEF b
<1>8. /\ e \in Entries /\ e.stage = "unrotated" /\ e.block = b
      /\ e.rotationIdx = work[i].rotationIdx
      /\ e.s0Idx = work[i].s0Idx /\ e.last = work[i].last
  BY <1>4, <1>6 DEF Entries, Stages
<1> HIDE DEF e
<1>9. /\ work' \in Seq(Entries) /\ Len(work') = n /\ work'[i] = e
      /\ \A j \in 1 .. n : j # i => work'[j] = work[j]
  BY <1>3, <1>7, <1>8
<1>10. Types'
  BY <1>1, <1>2, <1>9 DEF Types
<1>11. NoOfBlocks(input)' = NoOfBlocks(input)
  BY <1>1 DEF NoOfBlocks
<1>12. Framed(i)'
  <2>1. /\ HeaderAt(i)' = HeaderAt(i) /\ CodedAt(i)' = CodedAt(i)
    BY <1>1, FramesKept
  <2>2. Plain(CodedAt(i))' = Plain(CodedAt(i))
    BY <2>1, <1>1 DEF Plain
  <2>3. BlockAt(i)' = BlockAt(i)
    BY <1>1, BlocksKept
  <2> QED
    BY <2>1, <2>2, <2>3, <1>4, <1>5, <1>8, <1>9, <1>11 DEF Framed
<1>13. \A j \in 1 .. n : Framed(j)'
  <2> SUFFICES ASSUME NEW j \in 1 .. n, j # i PROVE Framed(j)'
    BY <1>12
  <2>1. Framed(j) /\ work'[j] = work[j]
    BY <1>2, <1>3, <1>9 DEF ReverseInv
  <2> QED
    BY <2>1, <1>1, FramedStays
<1>14. PICK w \in 0 .. n : WrittenUpTo(w) /\ out = UpToBlock(w)
  BY <1>2, <1>3 DEF ReverseInv
<1>15. WrittenUpTo(w)'
  <2>1. \A j \in 1 .. n : work'[j].stage = "written" <=> work[j].stage = "written"
    BY <1>1, <1>8, <1>9
  <2> QED
    BY <2>1, <1>1, <1>3, <1>9, <1>14 DEF WrittenUpTo
<1>16. ReverseInv'
  <2>1. \A k : FramesOK(k) => FramesOK(k)'
    BY <1>1, FramesKept
  <2>2. PICK nb : nb = NoOfBlocks(input) /\ FramesOK(nb)
    BY <1>2 DEF ReverseInv
  <2>3. FramesOK(nb)' /\ NoOfBlocks(input)' = nb
    BY <2>1, <2>2, <1>11
  <2>4. FramesOK(NoOfBlocks(input))'
    BY <2>3 DEF FramesOK
  <2>5. \E v \in 0 .. Len(work') : WrittenUpTo(v)' /\ out' = UpToBlock(v)'
    <3>1. UpToBlock(w)' = UpToBlock(w)
      BY <1>1, BlocksKept
    <3> QED
      BY <3>1, <1>1, <1>9, <1>14, <1>15
  <2>6. pos' = IF Len(work') < NoOfBlocks(input)'
               THEN Blk(Len(work')) + Idx(Len(work')) ELSE Len(file')
    BY <1>1, <1>2, <1>3, <1>9, <1>11 DEF ReverseInv
  <2>7. variant' # "cuda" /\ (variant' # "opencl" => Len(work') <= NoOfBlocks(input)')
    BY <1>1, <1>2, <1>3, <1>9, <1>11 DEF ReverseInv
  <2> QED
    BY <1>9, <1>13, <2>4, <2>5, <2>6, <2>7 DEF ReverseInv
<1> QED
  BY <1>1, <1>10, <1>16, StaysInReverse

LEMMA WriteBlockKeeps ==
    ASSUME IInv, NEW i \in DOMAIN work, WriteBlock(i)
    PROVE  IInv'
<1>1. /\ phase = "reverse" /\ HostTurn(i, "unrotated")
      /\ StepBegun({"unrotated", "written"})
      /\ out' = out \o work[i].block
      /\ work' = [work EXCEPT ![i].stage = "written"]
      /\ UNCHANGED <<variant, input, phase, pos, file>>
      /\ work[i].stage = "unrotated"
  BY DEF WriteBlock, HostTurn
<1>2. Types /\ ReverseInv
  BY <1>1 DEF IInv
<1>3. PICK n \in Nat : n = Len(work) /\ work \in Seq(Entries) /\ input \in Inputs
  BY <1>2 DEF Types
<1>4. PICK w \in 0 .. Len(work) : WrittenUpTo(w) /\ out = UpToBlock(w)
  BY <1>2 DEF ReverseInv
<1>5. i = w + 1 /\ i \in 1 .. Len(work) /\ w \in Nat
  <2>1. "unrotated" # "written"
    OBVIOUS
  <2> QED
    BY <2>1, <1>1, <1>2, <1>4, NextToWrite
<1>6. /\ work' \in Seq(Entries) /\ Len(work') = Len(work)
      /\ \A j \in 1 .. Len(work) : j # i => work'[j] = work[j]
      /\ work'[i] = [work[i] EXCEPT !.stage = "written"]
      /\ WrittenUpTo(i)'
  BY <1>1, <1>2, <1>4, <1>5, OneMoreWritten
<1>7. Framed(i) /\ work[i] \in Entries /\ work[i].block = BlockAt(i)
  <2>1. Framed(i) /\ work[i] \in Entries
    BY <1>2, <1>3, <1>5 DEF ReverseInv
  <2> QED
    BY <2>1, <1>1 DEF Framed
<1>8. out' = UpToBlock(i)'
  <2>1. UpToBlock(w) \o BlockAt(w + 1) = UpToBlock(w + 1)
    BY <1>3, <1>5, UpToNext
  <2>2. UpToBlock(i)' = UpToBlock(i)
    BY <1>1, BlocksKept
  <2> QED
    BY <2>1, <2>2, <1>1, <1>4, <1>5, <1>7
<1>9. Types'
  BY <1>1, <1>2, <1>6 DEF Types
<1>10. NoOfBlocks(input)' = NoOfBlocks(input)
  BY <1>1 DEF NoOfBlocks
<1>11. Framed(i)'
  <2>1. /\ HeaderAt(i)' = HeaderAt(i) /\ CodedAt(i)' = CodedAt(i)
    BY <1>1, FramesKept
  <2>2. Plain(CodedAt(i))' = Plain(CodedAt(i))
    BY <2>1, <1>1 DEF Plain
  <2>3. BlockAt(i)' = BlockAt(i)
    BY <1>1, BlocksKept
  <2>4. /\ work'[i].stage = "written" /\ work'[i].block = work[i].block
        /\ work'[i].rotationIdx = work[i].rotationIdx
        /\ work'[i].s0Idx = work[i].s0Idx /\ work'[i].last = work[i].last
    BY <1>6, <1>7 DEF Entries
  <2> QED
    BY <2>1, <2>2, <2>3, <2>4, <1>7, <1>10 DEF Framed
<1>12. \A j \in 1 .. Len(work) : Framed(j)'
  <2> SUFFICES ASSUME NEW j \in 1 .. Len(work), j # i PROVE Framed(j)'
    BY <1>11
  <2>1. Framed(j) /\ work'[j] = work[j]
    BY <1>2, <1>6 DEF ReverseInv
  <2> QED
    BY <2>1, <1>1, FramedStays
<1>13. ReverseInv'
  <2>1. \A k : FramesOK(k) => FramesOK(k)'
    BY <1>1, FramesKept
  <2>2. PICK nb : nb = NoOfBlocks(input) /\ FramesOK(nb)
    BY <1>2 DEF ReverseInv
  <2>3. FramesOK(nb)' /\ NoOfBlocks(input)' = nb
    BY <2>1, <2>2, <1>10
  <2>4. FramesOK(NoOfBlocks(input))'
    BY <2>3 DEF FramesOK
  <2>5. \E v \in 0 .. Len(work') : WrittenUpTo(v)' /\ out' = UpToBlock(v)'
    <3>1. i \in 0 .. Len(work')
      BY <1>3, <1>5, <1>6
    <3> QED
      BY <3>1, <1>6, <1>8
  <2>6. pos' = IF Len(work') < NoOfBlocks(input)'
               THEN Blk(Len(work')) + Idx(Len(work')) ELSE Len(file')
    BY <1>1, <1>2, <1>6, <1>10 DEF ReverseInv
  <2>7. variant' # "cuda" /\ (variant' # "opencl" => Len(work') <= NoOfBlocks(input)')
    BY <1>1, <1>2, <1>6, <1>10 DEF ReverseInv
  <2> QED
    BY <1>6, <1>12, <2>4, <2>5, <2>6, <2>7 DEF ReverseInv
<1> QED
  BY <1>1, <1>9, <1>13, StaysInReverse
\* A step that changes nothing but the phase.
LEMMA NothingMoves ==
    ASSUME UNCHANGED <<variant, input, pos, work, file, out>>
    PROVE  (TransformInv => TransformInv') /\ (ReverseInv => ReverseInv')
<1>1. /\ \A k : BlockAt(k)' = BlockAt(k) /\ UpToBlock(k)' = UpToBlock(k)
      /\ \A s : Coded(s)' = Coded(s)
      /\ \A k : FramesOK(k) => FramesOK(k)'
  BY BlocksKept, FramesKept
<1>2. \A w : WrittenUpTo(w)' <=> WrittenUpTo(w)
  BY DEF WrittenUpTo
<1>3. \A e : Transformed(e) => Transformed(e)'
  BY <1>1 DEF Transformed
<1>4. ASSUME TransformInv PROVE TransformInv'
  <2>1. PICK w \in 0 .. Len(work) : WrittenUpTo(w) /\ FramesOK(w)
    BY <1>4 DEF TransformInv
  <2>2. \E v \in 0 .. Len(work') : WrittenUpTo(v)' /\ FramesOK(v)'
    BY <2>1, <1>1, <1>2
  <2>3. \A i \in 1 .. Len(work) : (work[i].block = BlockAt(i))' /\ Transformed(work[i])'
    <3> SUFFICES ASSUME NEW i \in 1 .. Len(work)
                 PROVE  (work[i].block = BlockAt(i))' /\ Transformed(work[i])'
      OBVIOUS
    <3>1. PICK e : e = work[i] /\ Transformed(e) /\ e.block = BlockAt(i)
      BY <1>4 DEF TransformInv
    <3>2. Transformed(e)' /\ work'[i] = e
      BY <3>1, <1>3
    <3> QED
      BY <3>1, <3>2, <1>1
  <2>4. UpToBlock(Len(work))' = UpToBlock(Len(work))
    BY DEF UpToBlock
  <2> QED
    BY <1>4, <2>2, <2>3, <2>4 DEF TransformInv
<1>5. ASSUME ReverseInv PROVE ReverseInv'
  <2>1. PICK w \in 0 .. Len(work) : WrittenUpTo(w) /\ out = UpToBlock(w)
    BY <1>5 DEF ReverseInv
  <2>2. \E v \in 0 .. Len(work') : WrittenUpTo(v)' /\ out' = UpToBlock(v)'
    BY <2>1, <1>1, <1>2
  <2>3. PICK nb : nb = NoOfBlocks(input) /\ FramesOK(nb)
    BY <1>5 DEF ReverseInv
  <2>4. FramesOK(nb)' /\ NoOfBlocks(input)' = nb
    BY <2>3, <1>1 DEF NoOfBlocks
  <2>5. FramesOK(NoOfBlocks(input))'
    BY <2>4 DEF FramesOK
  <2>6. \A i \in 1 .. Len(work') : Framed(i)'
    BY <1>5, FramedStays DEF ReverseInv
  <2> QED
    BY <1>5, <2>2, <2>3, <2>4, <2>5, <2>6 DEF ReverseInv
<1> QED
  BY <1>4, <1>5

LEMMA FinishKeeps ==
    ASSUME IInv, Finish
    PROVE  IInv'
<1>1. /\ phase = "reverse" /\ AllRead /\ All({"written"}) /\ phase' = "done"
      /\ UNCHANGED <<variant, input, pos, work, file, out>>
  BY DEF Finish
<1>2. Types /\ ReverseInv
  BY <1>1 DEF IInv
<1>3. PICK k \in Nat : k = Len(work) /\ work \in Seq(Entries) /\ input \in Inputs
  BY <1>2 DEF Types
<1>4. PICK nb : nb = NoOfBlocks(input)
  OBVIOUS
<1>5. /\ nb \in Nat /\ Len(input) \in Nat /\ Idx(nb) \in Nat
      /\ Len(file) = Idx(nb) + Len(input) /\ Blk(nb) >= Len(input)
      /\ \A j \in Nat : j < nb =>
            /\ Blk(j) < Len(input)
            /\ (Blk(j) + Idx(j)) + IntSize <= Len(file)
  BY <1>2, <1>4, FileLength
<1>6. nb <= k
  <2> SUFFICES ASSUME k < nb PROVE FALSE
    BY <1>3, <1>5
  <2>1. CASE variant = "opencl"
    <3>1. k = NoOfBlocks(file)
      BY <1>1, <1>3, <2>1 DEF AllRead
    <3>2. Len(file) \in Nat
      BY <1>5
    <3>3. Blk(NoOfBlocks(file)) >= Len(file)
      BY <3>2, BlocksCover
    <3>4. Blk(k) < Len(input) /\ Blk(k) \in Nat
      BY <1>5, Steps
    <3> QED
      BY <3>1, <3>2, <3>3, <3>4, <1>5
  <2>2. CASE variant # "opencl"
    <3>1. Len(file) - pos < IntSize
      BY <1>1, <2>2 DEF AllRead
    <3>2. pos = Blk(k) + Idx(k)
      BY <1>2, <1>3, <1>4 DEF ReverseInv
    <3>3. (Blk(k) + Idx(k)) + IntSize <= Len(file)
      BY <1>5
    <3>4. Blk(k) \in Nat /\ Idx(k) \in Nat /\ IntSize \in Nat
      BY Steps, Sizes
    <3>5. Len(file) \in Nat
      BY <1>5
    <3> QED
      BY <3>1, <3>2, <3>3, <3>4, <3>5
  <2> QED
    BY <2>1, <2>2
<1>7. out = input
  <2>1. PICK w \in 0 .. Len(work) : WrittenUpTo(w) /\ out = UpToBlock(w)
    BY <1>2 DEF ReverseInv
  <2>2. w = k
    BY <1>1, <1>2, <1>3, <2>1, WrittenOut
  <2>3. Blk(nb) <= Blk(k) /\ Blk(nb) \in Nat /\ Blk(k) \in Nat
    BY <1>3, <1>5, <1>6, StepsRise, Steps
  <2>4. UpToBlock(k) = input
    BY <2>3, <1>3, <1>5, UpToBlockIs
  <2> QED
    BY <2>1, <2>2, <2>4
<1>8. Types'
  BY <1>1, <1>2 DEF Types
<1>9. ReverseInv'
  BY <1>1, <1>2, NothingMoves
<1> QED
  BY <1>1, <1>7, <1>8, <1>9 DEF IInv

\* A failure, noticed or not, and what the program does of its own accord at
\* its end leave the files as they are.
LEMMA StopKeeps ==
    ASSUME IInv, NEW outcome \in {"failed", "undefined"}, StopsIn(outcome)
    PROVE  IInv'
<1>1. phase' = outcome /\ UNCHANGED <<variant, input, pos, work, file, out>>
  BY DEF StopsIn
<1>2. Types'
  BY <1>1 DEF IInv, Types
<1>3. (TransformInv => TransformInv') /\ (ReverseInv => ReverseInv')
  BY <1>1, NothingMoves
<1> QED
  BY <1>1, <1>2, <1>3 DEF IInv

LEMMA StepKeeps ==
    ASSUME IInv, Next
    PROVE  IInv'
<1>1. ASSUME NEW outcome \in {"failed", "undefined"}, StopsIn(outcome) PROVE IInv'
  BY <1>1, StopKeeps
<1>2. CASE ReadBlock
  BY <1>2, ReadBlockKeeps
<1>3. CASE StartReverse
  BY <1>3, StartReverseKeeps
<1>4. CASE ReadFrame
  BY <1>4, ReadFrameKeeps
<1>5. CASE Finish
  BY <1>5, FinishKeeps
<1>6. CASE SerialDriverStops
  BY <1>1, <1>6 DEF SerialDriverStops, DriverStops
<1>7. CASE OpenclDriverStops
  BY <1>1, <1>7 DEF OpenclDriverStops, DriverStops
<1>8. CASE AllocationFails
  BY <1>1, <1>8 DEF AllocationFails
<1>9. CASE MTFFails
  BY <1>1, <1>9 DEF MTFFails
<1>10. CASE ReverseAllocationFails
  BY <1>1, <1>10 DEF ReverseAllocationFails
<1>11. CASE UndoMTFFails
  BY <1>1, <1>11 DEF UndoMTFFails
<1>12. CASE NoKernel
  BY <1>1, <1>12 DEF NoKernel
<1>13. CASE TransformCallFails
  BY <1>1, <1>13 DEF TransformCallFails, CallFails
<1>14. CASE LastCallFails
  BY <1>1, <1>14 DEF LastCallFails, CallFails
<1>15. CASE ReverseCallFails
  BY <1>1, <1>15 DEF ReverseCallFails, CallFails
<1>16. ASSUME NEW i \in DOMAIN work, RadixSort(i) PROVE IInv'
  BY <1>16, RadixSortKeeps
<1>17. ASSUME NEW i \in DOMAIN work, GroupSort(i) PROVE IInv'
  BY <1>17, GroupSortKeeps
<1>18. ASSUME NEW i \in DOMAIN work, TakeLast(i) PROVE IInv'
  BY <1>18, TakeLastKeeps
<1>19. ASSUME NEW i \in DOMAIN work, WriteFrame(i) PROVE IInv'
  BY <1>19, WriteFrameKeeps
<1>20. ASSUME NEW i \in DOMAIN work, Unrotate(i) PROVE IInv'
  BY <1>20, UnrotateKeeps
<1>21. ASSUME NEW i \in DOMAIN work, WriteBlock(i) PROVE IInv'
  BY <1>21, WriteBlockKeeps
<1> QED
  BY <1>2, <1>3, <1>4, <1>5, <1>6, <1>7, <1>8, <1>9, <1>10, <1>11, <1>12, <1>13,
     <1>14, <1>15, <1>16, <1>17, <1>18, <1>19, <1>20, <1>21 DEF Next

\* The invariant behind the three theorems below: a block is its part of the
\* input, an order that is sorted, or the last column of one; a frame in the
\* file stands for its block; and what has been written out are whole blocks
\* from the first one on (BWXform, BWReverseXform; BwtTransform, BwtReverse).
THEOREM Invariance == Spec => []IInv
<1>1. Init => IInv
  BY InitHolds
<1>2. IInv /\ [Next]_vars => IInv'
  <2> SUFFICES ASSUME IInv, [Next]_vars PROVE IInv'
    OBVIOUS
  <2>1. CASE Next
    BY <2>1, StepKeeps
  <2>2. CASE UNCHANGED vars
    <3>1. UNCHANGED <<variant, input, pos, work, file, out>> /\ UNCHANGED phase
      BY <2>2 DEF vars
    <3>2. Types'
      BY <3>1 DEF IInv, Types
    <3>3. (TransformInv => TransformInv') /\ (ReverseInv => ReverseInv')
      BY <3>1, NothingMoves
    <3> QED
      BY <3>1, <3>2, <3>3 DEF IInv
  <2> QED
    BY <2>1, <2>2
<1> QED
  BY <1>1, <1>2, PTL DEF Spec

\* The arrays of FIFO, LAST and r_FIFO are large enough for what is put in
\* them (bwxform.c, bwtcl.c).
THEOREM ArraysSuffice == Spec => []TypeOK
<1>1. IInv => TypeOK
  <2> SUFFICES ASSUME IInv PROVE TypeOK
    OBVIOUS
  <2>1. Types /\ (TransformInv \/ ReverseInv)
    BY DEF IInv
  <2>2. /\ variant \in Variants /\ input \in Inputs /\ work \in Seq(Entries)
        /\ file \in Seq(Nat)
        /\ phase \in {"transform", "reverse", "done", "failed", "undefined"}
    BY <2>1 DEF Types
  <2>3. /\ DOMAIN work = 1 .. Len(work) /\ Len(work) \in Nat
        /\ Len(file) \in Nat /\ Len(input) \in Nat
    BY <2>2, InputFacts
  <2>4. CASE TransformInv
    <3>1. pos \in 0 .. Len(input) + Len(file)
      <4>1. PICK n \in Nat : n = Len(work)
        BY <2>3
      <4>2. pos = IF Blk(n) <= Len(input) THEN Blk(n) ELSE Len(input)
        BY <4>1, <2>2, <2>4, UpToBlockIs DEF TransformInv
      <4>3. Blk(n) \in Nat
        BY Steps
      <4> QED
        BY <4>2, <4>3, <2>3
    <3>2. ASSUME NEW i \in DOMAIN work
          PROVE  /\ work[i].stage \in Stages /\ work[i].block \in Blocks
                 /\ work[i].last \in Blocks /\ work[i].s0Idx \in 0 .. BlockSize
                 /\ \A k \in DOMAIN work[i].rotationIdx :
                        work[i].rotationIdx[k] \in 0 .. Len(work[i].block) - 1
      <4>1. PICK e \in Entries : e = work[i]
        BY <2>2, <2>3
      <4>2. /\ Transformed(e) /\ e.block \in Blocks /\ IsBlock(e.block)
            /\ Len(e.block) <= BlockSize
        BY <4>1, <2>1, <2>4, EntryFacts
      <4>3. CASE e.stage = "read"
        <5>1. e.rotationIdx = <<>> /\ e.s0Idx = 0 /\ e.last = <<>>
          BY <4>2, <4>3 DEF Transformed
        <5>2. 0 \in 0 .. BlockSize /\ DOMAIN <<>> = {}
          BY Sizes
        <5> QED
          BY <4>1, <4>2, <4>3, <5>1, <5>2, NothingIsBlock DEF Stages
      <4>4. CASE e.stage = "radix"
        <5>1. e.rotationIdx = RadixSorted(e.block) /\ e.s0Idx = 0 /\ e.last = <<>>
          BY <4>2, <4>4 DEF Transformed
        <5>2. IsOrder(e.block, e.rotationIdx)
          BY <4>2, <5>1, RadixSorts
        <5>3. 0 \in 0 .. BlockSize
          BY Sizes
        <5> QED
          BY <4>1, <4>2, <4>4, <5>1, <5>2, <5>3, OrderType, NothingIsBlock DEF Stages
      <4>5. CASE e.stage = "sorted"
        <5>1. IsOrder(e.block, e.rotationIdx) /\ e.s0Idx = 0 /\ e.last = <<>>
          BY <4>2, <4>5 DEF Transformed
        <5>2. 0 \in 0 .. BlockSize
          BY Sizes
        <5> QED
          BY <4>1, <4>2, <4>5, <5>1, <5>2, OrderType, NothingIsBlock DEF Stages
      <4>6. CASE e.stage \in {"last", "written"}
        <5> DEFINE last == LastColumn(e.block, e.rotationIdx)
        <5>1. /\ IsOrder(e.block, e.rotationIdx) /\ Neighbours(e.block, e.rotationIdx)
              /\ e.s0Idx = S0Index(e.rotationIdx) /\ e.last = Coded(last)
          BY <4>2, <4>6 DEF Transformed
        <5>2. last \in Blocks
          BY <4>2, <5>1, ColumnType
        <5> HIDE DEF last
        <5>3. e.last \in Blocks
          BY <5>1, <5>2, CodedIs
        <5>4. S0Index(e.rotationIdx) \in 0 .. Len(e.block) - 1
          BY <4>2, <5>1, NeighboursRise, UnrotatedIs
        <5>5. e.s0Idx \in 0 .. BlockSize
          <6>1. Len(e.block) \in Nat /\ BlockSize \in Nat
            BY <4>2, BlockFacts, Sizes
          <6> QED
            BY <6>1, <4>2, <5>1, <5>4
        <5> QED
          BY <4>1, <4>2, <4>6, <5>1, <5>3, <5>5, OrderType DEF Stages
      <4> QED
        BY <4>2, <4>3, <4>4, <4>5, <4>6 DEF Transformed
    <3> QED
      BY <2>2, <3>1, <3>2 DEF TypeOK
  <2>5. CASE ReverseInv
    <3>1. PICK nb : nb = NoOfBlocks(input)
      OBVIOUS
    <3>2. /\ nb \in Nat /\ Idx(nb) \in Nat /\ Len(file) = Idx(nb) + Len(input)
          /\ \A k \in Nat : k < nb =>
                /\ Blk(k) < Len(input)
                /\ (Blk(k) + Idx(k)) + IntSize <= Len(file)
      BY <2>1, <2>5, <3>1, FileLength
    <3>3. pos \in 0 .. Len(input) + Len(file)
      <4>1. PICK n \in Nat : n = Len(work)
        BY <2>3
      <4>2. pos = IF n < nb THEN Blk(n) + Idx(n) ELSE Len(file)
        BY <4>1, <2>5, <3>1 DEF ReverseInv
      <4>3. Blk(n) \in Nat /\ Idx(n) \in Nat /\ IntSize \in Nat
        BY Steps, Sizes
      <4>4. n < nb => (Blk(n) + Idx(n)) + IntSize <= Len(file)
        BY <3>2
      <4> QED
        BY <4>2, <4>3, <4>4, <2>3
    <3>4. ASSUME NEW i \in DOMAIN work
          PROVE  /\ work[i].stage \in Stages /\ work[i].block \in Blocks
                 /\ work[i].last \in Blocks /\ work[i].s0Idx \in 0 .. BlockSize
                 /\ DOMAIN work[i].rotationIdx = {}
      <4>1. Framed(i) /\ i \in Nat \ {0} /\ i \in Nat
        BY <2>3, <2>5 DEF ReverseInv
      <4>2. BlockAt(i) \in Blocks
        BY <2>2, <4>1, BlockAtIs
      <4>3. i <= nb => Plain(CodedAt(i)) \in Blocks
        BY <2>5, <3>1, <3>2, <4>1 DEF ReverseInv, FramesOK, FrameOK
      <4>4. work[i].last \in Blocks
        BY <4>1, <4>3, <3>1, NothingIsBlock DEF Framed
      <4>5. work[i].block \in Blocks
        BY <4>1, <4>2, NothingIsBlock DEF Framed
      <4> QED
        BY <4>1, <4>4, <4>5 DEF Framed, Stages
    <3> QED
      BY <2>2, <3>3, <3>4 DEF TypeOK
  <2> QED
    BY <2>1, <2>4, <2>5
<1> QED
  BY <1>1, Invariance, PTL

\* The radix sort by two symbols and the qsort of the groups from the third
\* symbol on sort the whole rotations (bwxform.c 219-302, bwtcl.c).
THEOREM RotationsAreSorted == Spec => []RotationsSorted
<1>1. IInv => RotationsSorted
  <2> SUFFICES ASSUME IInv, phase = "transform", NEW i \in DOMAIN work,
                      work[i].stage \in {"sorted", "last", "written"}
               PROVE  /\ IsInjective(work[i].rotationIdx)
                      /\ \A k \in 1 .. Len(work[i].block) - 1 :
                          RotationLeq(work[i].block, work[i].rotationIdx[k],
                                      work[i].rotationIdx[k + 1])
    BY DEF RotationsSorted
  <2>1. Types /\ TransformInv
    BY DEF IInv
  <2>2. Transformed(work[i])
    BY <2>1, EntryFacts
  <2>3. IsOrder(work[i].block, work[i].rotationIdx)
        /\ Neighbours(work[i].block, work[i].rotationIdx)
    BY <2>2 DEF Transformed
  <2> QED
    BY <2>3 DEF IsOrder, Neighbours
<1> QED
  BY <1>1, Invariance, PTL

\* The reversal gives back the input: the serial one with and without
\* move-to-front, the OpenCL one, and either of the two reading the file of
\* the other; one that stops has written whole blocks from the first one on.
THEOREM InputComesBack == Spec => []Lossless
<1>1. IInv => Lossless
  <2> SUFFICES ASSUME IInv, phase \in {"reverse", "failed"} PROVE IsPrefix(out, input)
    BY DEF IInv, Lossless
  <2>1. Types /\ (TransformInv \/ ReverseInv) /\ input \in Inputs
    BY DEF IInv, Types
  <2>2. PICK n \in Nat : out = UpToBlock(n)
    <3>1. CASE TransformInv
      <4>1. out = UpToBlock(0)
        BY <2>1, <3>1, UpToNothing DEF TransformInv
      <4> QED
        BY <4>1
    <3>2. CASE ReverseInv
      <4>1. PICK w \in 0 .. Len(work) : out = UpToBlock(w)
        BY <3>2 DEF ReverseInv
      <4>2. w \in Nat
        BY <2>1 DEF Types
      <4> QED
        BY <4>1, <4>2
    <3> QED
      BY <2>1, <3>1, <3>2
  <2> QED
    BY <2>1, <2>2, UpToBlockIs
<1> QED
  BY <1>1, Invariance, PTL
=============================================================================
