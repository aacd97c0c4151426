----------------------------- MODULE LzssProofs -----------------------------
(***************************************************************************)
(* Proofs about Lzss in all four of its forms, for every size of window,   *)
(* lookahead and group of flags: the encoder's two cyclic buffers follow   *)
(* the input, the loops end, and the decoder restores what was compressed. *)
(* The lists of list.c follow the window, and its search finds what that   *)
(* of brute.c finds.                                                       *)
(***************************************************************************)
EXTENDS Lzss, SequenceTheorems, WellFoundedInduction, TLAPS

-----------------------------------------------------------------------------
(* The inductive invariant.                                                *)

Phases == {"start", "encode", "decode", "done", "stopped", "undefined"}

TypeOK ==
    /\ phase \in Phases
    /\ input \in Seq(Symbols)
    /\ phase \in {"start", "encode"} => windowHead \in WindowIndex
    /\ uncodedHead \in LookIndex
    /\ len \in 0 .. MaxCoded /\ read \in Nat

AtStart ==
    phase = "start" =>
        /\ window = [p \in WindowIndex |-> Space] /\ windowHead = 0
        /\ uncodedHead = 0 /\ read = 0 /\ len = 0

\* The lookahead is full as long as there is input to fill it with.
LookaheadFull ==
    phase = "encode" =>
        /\ len <= read /\ read <= Len(input)
        /\ len < MaxCoded => read = Len(input)

IInv == TypeOK /\ AtStart /\ LookaheadFull /\ BuffersFollowInput

-----------------------------------------------------------------------------
(* Numbers.                                                                *)

LEMMA Sizes ==
    /\ MaxUncoded \in Nat \ {0} /\ GroupSize \in Nat \ {0}
    /\ WindowSize \in Nat \ {0} /\ MaxCoded \in Nat \ {0} /\ MaxCoded <= WindowSize
    /\ 2 ^ LengthBits \in Nat \ {0} /\ MaxCoded = 2 ^ LengthBits + MaxUncoded
<1> DEFINE two == 2 ^ LengthBits
<1>1. two \in Nat \ {0} /\ MaxUncoded \in Nat \ {0} /\ MaxCoded = two + MaxUncoded
  BY LzssAssumption DEF MaxCoded
<1> HIDE DEF two
<1>2. MaxCoded \in Nat \ {0}
  BY <1>1
<1> QED
  BY <1>1, <1>2, LzssAssumption DEF two

LEMMA MinOfTwo ==
    ASSUME NEW a \in Int, NEW b \in Int
    PROVE  Min({a, b}) = IF a <= b THEN a ELSE b
BY DEF Min

LEMMA ModNear ==
    ASSUME NEW w \in Nat \ {0}, NEW a \in Int, -w <= a, a < 2 * w
    PROVE  a % w = IF a < 0 THEN a + w ELSE IF a < w THEN a ELSE a - w
<1>1. CASE a < 0
  <2>1. a + w \in 0 .. w - 1
    BY <1>1
  <2> QED
    BY <1>1, <2>1
<1>2. CASE a >= 0 /\ a < w
  BY <1>2
<1>3. CASE a >= w
  <2>1. a - w \in 0 .. w - 1
    BY <1>3
  <2> QED
    BY <1>3, <2>1
<1> QED
  BY <1>1, <1>2, <1>3

\* A set of natural numbers with a bound has a largest one.
LEMMA MaxExists ==
    ASSUME NEW m \in Nat, NEW S \in SUBSET (0 .. m), S # {}
    PROVE  Max(S) \in S /\ \A x \in S : x <= Max(S)
<1> DEFINE T == {m - x : x \in S}
           R == {p \in Nat \X Nat : p[1] < p[2]}
<1>1. IsWellFoundedOn(R, Nat)
  BY NatLessThanWellFounded DEF OpToRel
<1>2. T \subseteq Nat /\ T # {}
  <2>1. \A x \in S : x \in 0 .. m
    OBVIOUS
  <2>2. \A x \in 0 .. m : m - x \in Nat
    OBVIOUS
  <2> QED
    BY <2>1, <2>2
<1> HIDE DEF R
<1>3. PICK t \in T : \A u \in T : ~ (<<u, t>> \in R)
  BY <1>1, <1>2, WFMin
<1>4. \A u \in T : ~ (u < t)
  BY <1>2, <1>3 DEF R
<1>5. m - t \in S /\ \A x \in S : x <= m - t
  <2>1. PICK y \in S : t = m - y
    BY <1>3
  <2>2. \A x \in S : x \in Int /\ m - x \in T
    OBVIOUS
  <2> QED
    BY <1>4, <2>1, <2>2
<1> QED
  BY <1>5 DEF Max

-----------------------------------------------------------------------------
(* The cyclic buffers.                                                     *)

\* The k-th cell before the new head of the window: one of the n symbols just
\* written, or what was there before.
LEMMA SlidAt ==
    ASSUME NEW h \in WindowIndex, NEW w, NEW s, NEW n \in 0 .. WindowSize,
           Len(s) = n, NEW k \in 1 .. WindowSize
    PROVE  Slid(w, h, s)[(Advanced(h, n, WindowSize) - k) % WindowSize] =
               IF k <= n THEN s[n - k + 1] ELSE w[(h - (k - n)) % WindowSize]
<1> DEFINE W == WindowSize
           to == Advanced(h, n, W)
           p == (to - k) % W
           x == (p - h) % W
<1> HIDE DEF W
<1>1. W \in Nat \ {0} /\ h \in 0 .. W - 1 /\ n \in 0 .. W /\ k \in 1 .. W
  BY Sizes DEF W, WindowIndex
<1>2. to = IF h + n < W THEN h + n ELSE h + n - W
  BY <1>1 DEF Advanced
<1> HIDE DEF to
<1>3. p = IF to - k < 0 THEN to - k + W ELSE to - k
  BY <1>1, <1>2
<1> HIDE DEF p
<1>4. p \in 0 .. W - 1
  BY <1>1, <1>2, <1>3
<1>5. x = IF p - h < 0 THEN p - h + W ELSE p - h
  BY <1>1, <1>4
<1> HIDE DEF x
<1>6. Slid(w, h, s)[p] = IF x + 1 <= n THEN s[x + 1] ELSE w[p]
  BY <1>4 DEF Slid, x, W, WindowIndex
<1>7. CASE k <= n
  <2>1. x + 1 = n - k + 1
    BY <1>1, <1>2, <1>3, <1>5, <1>7
  <2>2. x + 1 <= n
    BY <1>1, <1>7, <2>1
  <2> QED
    BY <1>6, <1>7, <2>1, <2>2 DEF p, to, W
<1>8. CASE k > n
  <2>1. ~ (x + 1 <= n)
    BY <1>1, <1>2, <1>3, <1>5, <1>8
  <2>2. h - (k - n) \in Int /\ -W <= h - (k - n) /\ h - (k - n) < 2 * W
    BY <1>1, <1>8
  <2>3. (h - (k - n)) % W = IF h - (k - n) < 0 THEN h - (k - n) + W ELSE h - (k - n)
    BY <1>1, <1>8, <2>2
  <2>4. p = (h - (k - n)) % W
    BY <1>1, <1>2, <1>3, <1>8, <2>3
  <2> QED
    BY <1>1, <1>6, <1>8, <2>1, <2>4 DEF p, to, W
<1> QED
  BY <1>1, <1>7, <1>8

\* The k-th cell from the new head of the lookahead, n further: one of those
\* behind the n that were replaced, or one of the f symbols just read.
LEMMA RefilledAt ==
    ASSUME NEW h \in LookIndex, NEW l, NEW n \in 0 .. MaxCoded, NEW f \in 0 .. n,
           NEW k \in 1 .. MaxCoded
    PROVE  Refilled(l, h, f)[(Advanced(h, n, MaxCoded) + k - 1) % MaxCoded] =
               IF k > MaxCoded - n /\ k - (MaxCoded - n) <= f
                 THEN input[read + (k - (MaxCoded - n))]
                 ELSE l[(Advanced(h, n, MaxCoded) + k - 1) % MaxCoded]
<1> DEFINE M == MaxCoded
           to == Advanced(h, n, M)
           q == (to + k - 1) % M
           x == (q - h) % M
<1> HIDE DEF M
<1>1. M \in Nat \ {0} /\ h \in 0 .. M - 1 /\ n \in 0 .. M /\ f \in 0 .. n /\ k \in 1 .. M
  BY Sizes DEF M, LookIndex
<1>2. to = IF h + n < M THEN h + n ELSE h + n - M
  BY <1>1 DEF Advanced
<1> HIDE DEF to
<1>3. q = IF to + k - 1 < M THEN to + k - 1 ELSE to + k - 1 - M
  BY <1>1, <1>2
<1> HIDE DEF q
<1>4. q \in 0 .. M - 1
  BY <1>1, <1>2, <1>3
<1>5. x = IF q - h < 0 THEN q - h + M ELSE q - h
  BY <1>1, <1>4
<1> HIDE DEF x
<1>6. Refilled(l, h, f)[q] = IF x + 1 <= f THEN input[read + (x + 1)] ELSE l[q]
  BY <1>4 DEF Refilled, x, M, LookIndex
<1>7. x + 1 = IF k > M - n THEN k - (M - n) ELSE n + k
  BY <1>1, <1>2, <1>3, <1>5
<1>8. x + 1 <= f <=> k > M - n /\ k - (M - n) <= f
  BY <1>1, <1>7
<1> QED
  BY <1>6, <1>7, <1>8 DEF q, to, M

-----------------------------------------------------------------------------
(* How many symbols a token stands for.                                    *)

LEMMA MatchLength == FindMatch.length \in 0 .. MaxCoded
<1>0. MaxCoded \in Nat \ {0} /\ WindowSize \in Nat /\ MaxCoded <= WindowSize
  BY Sizes
<1>1. LongestMatch \in 0 .. MaxCoded
  <2> DEFINE S == {n \in 0 .. MaxCoded : \E i \in WindowIndex : Matches(i, n)}
  <2>1. 0 \in WindowIndex /\ 0 \in 0 .. MaxCoded
    BY <1>0 DEF WindowIndex
  <2>2. Matches(0, 0)
    <3>1. 0 .. 0 - 1 = {}
      OBVIOUS
    <3> QED
      BY <3>1 DEF Matches
  <2>3. 0 \in S
    BY <2>1, <2>2
  <2>4. S \in SUBSET (0 .. MaxCoded) /\ S # {}
    BY <2>3
  <2> HIDE DEF S
  <2>5. Max(S) \in S
    BY <1>0, <2>4, MaxExists
  <2> QED
    BY <2>4, <2>5 DEF LongestMatch, S
<1>2. BruteMatch.length \in 0 .. MaxCoded
  BY <1>1 DEF BruteMatch
<1>3. ListMatch.length \in 0 .. MaxCoded
  <2> DEFINE chain == Chain(heads, links, lookahead[uncodedHead])
             S == {0} \union {n \in 1 .. MaxCoded :
                                 \E k \in DOMAIN chain : MatchesOnward(chain[k], n)}
  <2> HIDE DEF chain
  <2>1. S \in SUBSET (0 .. MaxCoded) /\ S # {}
    BY <1>0
  <2>2. ListMatch.length = Max(S)
    BY DEF ListMatch, chain
  <2> HIDE DEF S
  <2>3. Max(S) \in S
    BY <1>0, <2>1, MaxExists
  <2> QED
    BY <2>1, <2>2, <2>3
<1> QED
  BY <1>2, <1>3 DEF FindMatch

\* A token stands for one symbol at least, and for no more than are left.
LEMMA TokenFits ==
    ASSUME TypeOK, len > 0
    PROVE  TokenLength(Clipped(FindMatch)) \in 1 .. len
<1> DEFINE m == FindMatch
           c == Clipped(m)
<1>1. m.length \in Nat /\ len \in Nat /\ MaxUncoded \in Nat \ {0}
  BY MatchLength, Sizes DEF TypeOK
<1>2. m = [m EXCEPT !.length = m.length]
  BY DEF FindMatch, ListMatch, BruteMatch
<1>3. c.length = Min({m.length, len})
  BY DEF Clipped, FindMatch, ListMatch, BruteMatch
<1> HIDE DEF m, c
<1>4. c.length \in Nat /\ c.length <= len
  BY <1>1, <1>3, MinOfTwo
<1>5. TokenLength(c) \in 1 .. len
  BY <1>1, <1>4 DEF TokenLength, IsCoded
<1> QED
  BY <1>5 DEF c, m

-----------------------------------------------------------------------------
(* The steps.                                                              *)

LEMMA InvInit == Init => IInv
<1> SUFFICES ASSUME Init PROVE IInv
  OBVIOUS
<1>1. MaxCoded \in Nat \ {0} /\ WindowSize \in Nat \ {0}
  BY Sizes
<1>2. 0 \in WindowIndex /\ 0 \in LookIndex /\ 0 \in 0 .. MaxCoded
  BY <1>1 DEF WindowIndex, LookIndex
<1>3. input \in Seq(Symbols)
  <2>1. PICK n \in 0 .. MaxInput : input \in [1 .. n -> Symbols]
    BY DEF Init
  <2>2. n \in Nat
    BY LzssAssumption
  <2> QED
    BY <2>1, <2>2
<1> QED
  BY <1>2, <1>3 DEF Init, IInv, TypeOK, Phases, AtStart, LookaheadFull, BuffersFollowInput

LEMMA StartStep == ASSUME IInv, StartEncoding PROVE IInv'
<1> DEFINE n == Min({MaxCoded, Len(input)})
<1>1. /\ phase = "start" /\ phase' = "encode"
      /\ lookahead' = Refilled(lookahead, 0, n) /\ len' = n /\ read' = n
      /\ UNCHANGED <<input, window, windowHead, uncodedHead>>
  BY DEF StartEncoding
<1>2. /\ TypeOK /\ windowHead = 0 /\ uncodedHead = 0 /\ read = 0
      /\ window = [p \in WindowIndex |-> Space]
  BY <1>1 DEF IInv, AtStart
<1>3. /\ MaxCoded \in Nat \ {0} /\ WindowSize \in Nat \ {0} /\ Len(input) \in Nat
      /\ 0 \in LookIndex
  BY <1>2, Sizes DEF TypeOK, LookIndex
<1>4. n = IF MaxCoded <= Len(input) THEN MaxCoded ELSE Len(input)
  BY <1>3, MinOfTwo
<1> HIDE DEF n
<1>5. n \in 0 .. MaxCoded /\ n <= Len(input) /\ (n < MaxCoded => n = Len(input))
  BY <1>3, <1>4
<1>6. TypeOK' /\ AtStart' /\ LookaheadFull'
  BY <1>1, <1>2, <1>3, <1>5 DEF TypeOK, Phases, AtStart, LookaheadFull
<1>7. ASSUME NEW k \in 1 .. n
      PROVE  lookahead'[(uncodedHead' + k - 1) % MaxCoded] = input[k]
  <2>1. k \in 1 .. MaxCoded /\ MaxCoded \in 0 .. MaxCoded /\ n \in 0 .. MaxCoded
    BY <1>3, <1>5
  <2>2. Advanced(0, MaxCoded, MaxCoded) = 0
    BY <1>3 DEF Advanced
  <2>3. Refilled(lookahead, 0, n)[(Advanced(0, MaxCoded, MaxCoded) + k - 1) % MaxCoded] =
           IF k > MaxCoded - MaxCoded /\ k - (MaxCoded - MaxCoded) <= n
             THEN input[read + (k - (MaxCoded - MaxCoded))]
             ELSE lookahead[(Advanced(0, MaxCoded, MaxCoded) + k - 1) % MaxCoded]
    BY <1>3, <2>1, RefilledAt, Zenon
  <2>4. MaxCoded - MaxCoded = 0 /\ k - 0 = k /\ k > 0 /\ k <= n
    BY <1>3, <1>5
  <2>5. Refilled(lookahead, 0, n)[(0 + k - 1) % MaxCoded] = input[read + k]
    BY <2>2, <2>3, <2>4
  <2>6. read + k = k
    BY <1>2, <1>5
  <2> QED
    BY <1>1, <1>2, <2>5, <2>6
<1>8. ASSUME NEW k \in 1 .. WindowSize
      PROVE  window'[(windowHead' - k) % WindowSize] = Space
  <2>1. (0 - k) % WindowSize \in WindowIndex
    BY <1>3 DEF WindowIndex
  <2> QED
    BY <1>1, <1>2, <2>1
<1>9. BuffersFollowInput'
  <2>1. read' - len' = 0
    BY <1>1, <1>5
  <2> QED
    BY <1>1, <1>7, <1>8, <2>1 DEF BuffersFollowInput
<1> QED
  BY <1>6, <1>9 DEF IInv

LEMMA EncodeStep == ASSUME IInv, EncodeToken PROVE IInv' /\ read' - len' > read - len
<1> DEFINE n == TokenLength(Clipped(FindMatch))
           fresh == Min({n, Len(input) - read})
           past == read - len
           next == NextOf(lookahead, uncodedHead, n)
<1>1. /\ phase = "encode" /\ phase' = "encode" /\ len > 0
      /\ window' = Slid(window, windowHead, next)
      /\ lookahead' = Refilled(lookahead, uncodedHead, fresh)
      /\ windowHead' = Advanced(windowHead, n, WindowSize)
      /\ uncodedHead' = Advanced(uncodedHead, n, MaxCoded)
      /\ len' = len - (n - fresh) /\ read' = read + fresh /\ input' = input
  BY DEF EncodeToken, MoreToEncode
<1>2. /\ MaxCoded \in Nat \ {0} /\ WindowSize \in Nat \ {0} /\ MaxCoded <= WindowSize
      /\ Len(input) \in Nat
  BY Sizes DEF IInv, TypeOK
<1>3. /\ windowHead \in WindowIndex /\ uncodedHead \in LookIndex
      /\ len \in 0 .. MaxCoded /\ read \in Nat /\ len <= read /\ read <= Len(input)
      /\ len < MaxCoded => read = Len(input)
  BY <1>1 DEF IInv, TypeOK, LookaheadFull
<1>4. n \in 1 .. len
  BY <1>1, TokenFits DEF IInv
<1>5. fresh = IF n <= Len(input) - read THEN n ELSE Len(input) - read
  BY <1>2, <1>3, <1>4, MinOfTwo
<1>6. Len(next) = n /\ \A k \in 1 .. n : next[k] = input[past + k]
  <2>1. \A k \in 1 .. len :
           lookahead[(uncodedHead + k - 1) % MaxCoded] = input[past + k]
    BY <1>1 DEF IInv, BuffersFollowInput
  <2>2. n \in Nat /\ \A k \in 1 .. n : k \in 1 .. len
    BY <1>3, <1>4
  <2> HIDE DEF n
  <2> QED
    BY <2>1, <2>2 DEF NextOf
<1> HIDE DEF n, fresh, next
<1>7. fresh \in 0 .. n /\ read + fresh <= Len(input) /\ (len < MaxCoded => fresh = 0)
      /\ (fresh < n => read + fresh = Len(input))
  BY <1>2, <1>3, <1>4, <1>5
<1>8. /\ read' - len' = past + n /\ len' \in 0 .. MaxCoded /\ read' \in Nat
      /\ len' <= read' /\ read' <= Len(input')
      /\ len' < MaxCoded => read' = Len(input')
  BY <1>1, <1>2, <1>3, <1>4, <1>7
<1>9. windowHead' \in WindowIndex /\ uncodedHead' \in LookIndex
  BY <1>1, <1>2, <1>3, <1>4 DEF Advanced, WindowIndex, LookIndex
<1>10. TypeOK' /\ AtStart' /\ LookaheadFull'
  BY <1>1, <1>8, <1>9 DEF IInv, TypeOK, Phases, AtStart, LookaheadFull
<1>11. ASSUME NEW k \in 1 .. len'
       PROVE  lookahead'[(uncodedHead' + k - 1) % MaxCoded] = input'[past + n + k]
  <2>1. k \in 1 .. MaxCoded /\ n \in 0 .. MaxCoded
    BY <1>2, <1>3, <1>4, <1>8
  <2>2. lookahead'[(uncodedHead' + k - 1) % MaxCoded] =
           IF k > MaxCoded - n /\ k - (MaxCoded - n) <= fresh
             THEN input[read + (k - (MaxCoded - n))]
             ELSE lookahead[(Advanced(uncodedHead, n, MaxCoded) + k - 1) % MaxCoded]
    <3>1. Refilled(lookahead, uncodedHead, fresh)
             [(Advanced(uncodedHead, n, MaxCoded) + k - 1) % MaxCoded] =
             IF k > MaxCoded - n /\ k - (MaxCoded - n) <= fresh
               THEN input[read + (k - (MaxCoded - n))]
               ELSE lookahead[(Advanced(uncodedHead, n, MaxCoded) + k - 1) % MaxCoded]
      <4>1. uncodedHead \in LookIndex
        BY <1>3
      <4>2. fresh \in 0 .. n
        BY <1>7
      <4> QED
        BY <2>1, <4>1, <4>2, RefilledAt, Zenon
    <3> QED
      BY <1>1, <3>1
  <2>3. CASE k > MaxCoded - n
    <3>1. len = MaxCoded
      BY <1>1, <1>2, <1>3, <1>4, <1>7, <2>3
    <3>2. k - (MaxCoded - n) <= fresh
      BY <1>1, <1>2, <1>3, <1>4, <1>7, <3>1
    <3>3. read + (k - (MaxCoded - n)) = past + n + k
      BY <1>2, <1>3, <1>4, <3>1
    <3> QED
      BY <1>1, <2>2, <2>3, <3>2, <3>3
  <2>4. CASE ~ (k > MaxCoded - n)
    <3>1. n + k \in 1 .. len
      BY <1>1, <1>2, <1>3, <1>4, <1>7, <2>4
    <3>2. (Advanced(uncodedHead, n, MaxCoded) + k - 1) % MaxCoded =
             (uncodedHead + (n + k) - 1) % MaxCoded
      <4>1. Advanced(uncodedHead, n, MaxCoded) =
               IF uncodedHead + n < MaxCoded THEN uncodedHead + n
               ELSE uncodedHead + n - MaxCoded
        BY <1>2, <1>3, <1>4 DEF Advanced, LookIndex
      <4>2. CASE uncodedHead + n < MaxCoded
        <5>1. Advanced(uncodedHead, n, MaxCoded) + k - 1 = uncodedHead + (n + k) - 1
          BY <1>2, <1>3, <1>4, <4>1, <4>2 DEF LookIndex
        <5> QED
          BY <5>1
      <4>3. CASE ~ (uncodedHead + n < MaxCoded)
        <5> DEFINE a == uncodedHead + n - MaxCoded + k - 1
        <5>1. a \in 0 .. MaxCoded - 1 /\ uncodedHead + (n + k) - 1 = a + MaxCoded
          BY <1>2, <1>3, <1>4, <2>1, <3>1, <4>3 DEF LookIndex
        <5>2. Advanced(uncodedHead, n, MaxCoded) + k - 1 = a
          BY <1>2, <1>3, <1>4, <4>1, <4>3 DEF LookIndex
        <5> HIDE DEF a
        <5>3. a % MaxCoded = a /\ (a + MaxCoded) % MaxCoded = a
          BY <1>2, <5>1
        <5> QED
          BY <5>1, <5>2, <5>3
      <4> QED
        BY <4>2, <4>3
    <3>3. lookahead[(uncodedHead + (n + k) - 1) % MaxCoded] = input[past + (n + k)]
      BY <1>1, <3>1 DEF IInv, BuffersFollowInput
    <3>4. past + (n + k) = past + n + k
      BY <1>3, <1>4, <2>1
    <3> QED
      BY <1>1, <2>2, <2>4, <3>2, <3>3, <3>4
  <2> QED
    BY <2>3, <2>4
<1>12. ASSUME NEW k \in 1 .. WindowSize
       PROVE  window'[(windowHead' - k) % WindowSize] =
                  IF k <= past + n THEN input'[(past + n) - k + 1] ELSE Space
  <2>1. n \in 0 .. WindowSize
    BY <1>2, <1>3, <1>4
  <2>2. window'[(windowHead' - k) % WindowSize] =
           IF k <= n THEN next[n - k + 1]
           ELSE window[(windowHead - (k - n)) % WindowSize]
    BY <1>1, <1>3, <1>6, <2>1, SlidAt
  <2>3. CASE k <= n
    <3>1. n - k + 1 \in 1 .. n /\ past + (n - k + 1) = (past + n) - k + 1
          /\ k <= past + n
      BY <1>3, <1>4, <2>3
    <3> QED
      BY <1>1, <1>6, <2>2, <2>3, <3>1
  <2>4. CASE ~ (k <= n)
    <3>1. k - n \in 1 .. WindowSize
      BY <1>2, <2>1, <2>4
    <3>2. window[(windowHead - (k - n)) % WindowSize] =
             IF k - n <= past THEN input[past - (k - n) + 1] ELSE Space
      BY <1>1, <3>1 DEF IInv, BuffersFollowInput
    <3>3. (k - n <= past <=> k <= past + n)
          /\ past - (k - n) + 1 = (past + n) - k + 1
      BY <1>3, <1>4
    <3> QED
      BY <1>1, <2>2, <2>4, <3>2, <3>3
  <2> QED
    BY <2>3, <2>4
<1>13. BuffersFollowInput'
  <2>1. read' - len' = past + n
    BY <1>8
  <2> DEFINE since == past + n
  <2>2. \A k \in 1 .. len' :
           lookahead'[(uncodedHead' + k - 1) % MaxCoded] = input'[since + k]
    BY <1>11
  <2>3. \A k \in 1 .. WindowSize :
           window'[(windowHead' - k) % WindowSize] =
               IF k <= since THEN input'[since - k + 1] ELSE Space
    BY <1>12
  <2>4. read' - len' = since
    BY <2>1
  <2> HIDE DEF past, since
  <2> QED
    BY <2>2, <2>3, <2>4 DEF BuffersFollowInput
<1>14. past + n > past
  BY <1>3, <1>4
<1>15. read' - len' > read - len
  BY <1>8, <1>14
<1> QED
  BY <1>10, <1>13, <1>15 DEF IInv

LEMMA DecodeStep == ASSUME IInv, DecodeToken PROVE IInv' /\ read' > read
<1>1. /\ phase = "decode" /\ phase' = "decode"
      /\ UNCHANGED <<input, uncodedHead, len>>
  BY DEF DecodeToken, encoderVars
<1>2. read \in Nat
  BY DEF IInv, TypeOK
<1>3. ReadNow \in Nat /\ ReadNow >= read
  BY <1>2 DEF ReadNow
<1>4. read' = ReadNow + 1 \/ read' = ReadNow + 2
  BY DEF DecodeToken, Emit
<1>5. read' \in Nat /\ read' > read
  BY <1>2, <1>3, <1>4
<1>6. TypeOK'
  BY <1>1, <1>5 DEF IInv, TypeOK
<1> QED
  BY <1>1, <1>5, <1>6 DEF IInv, AtStart, LookaheadFull, BuffersFollowInput

LEMMA DriverKeeps == ASSUME IInv, DriverStops \/ StartOverwriting PROVE IInv'
<1>1. phase' \in {"stopped", "undefined"} /\ UNCHANGED <<input, uncodedHead, len, read>>
  BY DEF DriverStops, StartOverwriting, encoderVars
<1> QED
  BY <1>1 DEF IInv, TypeOK, Phases, AtStart, LookaheadFull, BuffersFollowInput

LEMMA InvStep == IInv /\ [Next]_vars => IInv'
<1> SUFFICES ASSUME IInv, [Next]_vars PROVE IInv'
  OBVIOUS
<1>1. CASE StartEncoding
  BY <1>1, StartStep
<1>2. CASE EncodeToken
  BY <1>2, EncodeStep
<1>3. CASE FinishEncoding
  <2>1. phase' = "decode" /\ read' = 0 /\ UNCHANGED <<input, uncodedHead, len>>
    BY <1>3 DEF FinishEncoding
  <2> QED
    BY <2>1 DEF IInv, TypeOK, Phases, AtStart, LookaheadFull, BuffersFollowInput
<1>4. CASE DecodeToken
  BY <1>4, DecodeStep
<1>5. CASE FinishDecoding
  <2>1. phase' = "done" /\ UNCHANGED <<input, uncodedHead, len, read>>
    BY <1>5 DEF FinishDecoding, encoderVars
  <2> QED
    BY <2>1 DEF IInv, TypeOK, Phases, AtStart, LookaheadFull, BuffersFollowInput
<1>6. CASE UNCHANGED vars
  BY <1>6 DEF IInv, TypeOK, AtStart, LookaheadFull, BuffersFollowInput, vars, encoderVars
<1>7. CASE DriverStops \/ StartOverwriting
  BY <1>7, DriverKeeps
<1> QED
  BY <1>1, <1>2, <1>3, <1>4, <1>5, <1>6, <1>7
     DEF Next, SerialDriverStops, GroupedDriverStops, StartSerial, StartGrouped, StartKernel, EncodeSerial, EncodeGrouped,
         EncodeKernel, DecodeSerial, DecodeGrouped, DecodeKernel

-----------------------------------------------------------------------------
(* The theorems.                                                           *)

\* IInv is an invariant of the four forms.
THEOREM InvariantHolds == Spec => []IInv
BY InvInit, InvStep, PTL DEF Spec

\* The lookahead holds what comes next in the input and the window what came
\* before it, for every size of the two cyclic buffers, wherever their heads
\* are: the replacement loops lose no symbol when a head wraps round.
THEOREM FollowsInput == Spec => []BuffersFollowInput
<1>1. IInv => BuffersFollowInput
  BY DEF IInv
<1> QED
  BY <1>1, InvariantHolds, PTL

\* No turn of an encoder's loop takes no symbol off the input, and none of a
\* decoder's takes no cell off the file: neither can run on for ever.
THEOREM ProgressMade == Spec => TurnsMakeProgress
<1> DEFINE Progress ==
             phase' = phase =>
                 IF phase = "encode" THEN read' - len' > read - len ELSE read' > read
<1>1. IInv /\ [Next]_vars => [Progress]_vars
  <2> SUFFICES ASSUME IInv, Next PROVE Progress
    OBVIOUS
  <2>1. CASE \/ DriverStops \/ StartOverwriting \/ StartEncoding
             \/ FinishEncoding \/ FinishDecoding
    BY <2>1 DEF DriverStops, StartOverwriting, StartEncoding, FinishEncoding, FinishDecoding
  <2>2. CASE EncodeToken
    BY <2>2, EncodeStep DEF EncodeToken
  <2>3. CASE DecodeToken
    BY <2>3, DecodeStep DEF DecodeToken
  <2> QED
    BY <2>1, <2>2, <2>3
       DEF Next, SerialDriverStops, GroupedDriverStops, StartSerial, StartGrouped, StartKernel, EncodeSerial, EncodeGrouped,
           EncodeKernel, DecodeSerial, DecodeGrouped, DecodeKernel
<1> QED
  BY <1>1, InvariantHolds, PTL DEF Spec, TurnsMakeProgress
-----------------------------------------------------------------------------
(* The lists of list.c.                                                    *)

LEMMA MinExists ==
    ASSUME NEW S \in SUBSET Nat, S # {}
    PROVE  Min(S) \in S
<1> DEFINE R == {p \in Nat \X Nat : p[1] < p[2]}
<1>1. IsWellFoundedOn(R, Nat)
  BY NatLessThanWellFounded DEF OpToRel
<1> HIDE DEF R
<1>2. PICK t \in S : \A u \in S : ~ (<<u, t>> \in R)
  BY <1>1, WFMin
<1>3. \A u \in S : t <= u
  <2> SUFFICES ASSUME NEW u \in S PROVE t <= u
    OBVIOUS
  <2>1. ~ (u < t)
    BY <1>2 DEF R
  <2> QED
    BY <2>1
<1> QED
  BY <1>3 DEF Min

\* The match found is one, whichever search found it.
LEMMA LeastExists ==
    ASSUME NEW S \in SUBSET Nat, S # {}
    PROVE  \E x \in S : \A y \in S : x <= y
<1> DEFINE L == {p \in Nat \X Nat : p[1] < p[2]}
<1>1. IsWellFoundedOn(L, Nat)
  BY NatLessThanWellFounded DEF OpToRel
<1> HIDE DEF L
<1>2. PICK x \in S : \A y \in S : ~ (<<y, x>> \in L)
  BY <1>1, WFMin
<1>3. \A y \in S : x <= y
  <2> SUFFICES ASSUME NEW y \in S PROVE x <= y
    OBVIOUS
  <2>1. x \in Nat /\ y \in Nat
    OBVIOUS
  <2>2. ASSUME y < x PROVE FALSE
    <3>1. <<y, x>> \in L
      BY <2>1, <2>2 DEF L
    <3> QED
      BY <3>1, <1>2
  <2> QED
    BY <2>1, <2>2
<1> QED
  BY <1>3

\* There is a sequence of elements of T that begins with a and goes on by g.
Recursion(T, a, N, g) ==
    \E f \in [0 .. N -> T] : f[0] = a /\ \A k \in 1 .. N : f[k] = g[<<k, f[k - 1]>>]

LEMMA RecursionExists ==
    ASSUME NEW T, NEW a, NEW N, NEW g,
           a \in T, N \in Nat, g \in [(1 .. N) \X T -> T]
    PROVE  Recursion(T, a, N, g)
<1> DEFINE Upto(f, k) == f[0] = a /\ \A j \in 1 .. k : f[j] = g[<<j, f[j - 1]>>]
           Bad == {k \in 0 .. N : \A f \in [0 .. k -> T] : ~ Upto(f, k)}
<1>1. Bad = {}
  <2> SUFFICES ASSUME Bad # {} PROVE FALSE
    OBVIOUS
  <2>1. PICK k \in Bad : \A j \in Bad : k <= j
    <3>1. Bad \in SUBSET Nat
      OBVIOUS
    <3> QED
      BY <3>1, LeastExists
  <2>2. k # 0
    <3>1. [j \in 0 .. 0 |-> a] \in [0 .. 0 -> T] /\ Upto([j \in 0 .. 0 |-> a], 0)
      OBVIOUS
    <3> QED
      BY <3>1
  <2>3. k - 1 \in 0 .. N /\ k - 1 \notin Bad
    <3>1. k \in 0 .. N
      OBVIOUS
    <3> HIDE DEF Bad
    <3>2. k - 1 \in 0 .. N /\ ~ (k <= k - 1)
      BY <3>1, <2>2
    <3> QED
      BY <3>2, <2>1
  <2>4. PICK f \in [0 .. k - 1 -> T] : Upto(f, k - 1)
    BY <2>3
  <2> DEFINE h == [j \in 0 .. k |-> IF j = k THEN g[<<k, f[k - 1]>>] ELSE f[j]]
  <2>5. k \in 1 .. N
    BY <2>1, <2>2
  <2>6. h \in [0 .. k -> T]
    <3>1. <<k, f[k - 1]>> \in (1 .. N) \X T
      BY <2>5, <2>4
    <3>2. g[<<k, f[k - 1]>>] \in T
      BY <3>1
    <3> QED
      BY <3>2, <2>5
  <2>7. Upto(h, k)
    <3>1. h[0] = a
      BY <2>4, <2>5
    <3>2. ASSUME NEW j \in 1 .. k PROVE h[j] = g[<<j, h[j - 1]>>]
      <4>1. h[j - 1] = f[j - 1]
        BY <2>5
      <4>2. CASE j = k
        BY <4>1, <4>2, <2>5
      <4>3. CASE j # k
        <5>1. j \in 1 .. k - 1
          BY <4>3, <2>5
        <5>2. h[j] = f[j]
          BY <4>3, <2>5
        <5> QED
          BY <5>1, <5>2, <4>1, <2>4
      <4> QED
        BY <4>2, <4>3
    <3> QED
      BY <3>1, <3>2
  <2> QED
    BY <2>6, <2>7, <2>1
<1>2. N \notin Bad
  BY <1>1
<1> QED
  BY <1>2 DEF Recursion

\* x is the oldest position of S, or the end of a list if there is none.
IsOldest(x, head, S) ==
    IF S = {} THEN x = NullIndex
    ELSE x \in S /\ \A q \in S : Older(head, x) <= Older(head, q)

Same(w, R, c) == {q \in R : w[q] = c}
Later(w, head, R, p) == {q \in R : w[q] = w[p] /\ Older(head, p) < Older(head, q)}

Link == WindowIndex \union {NullIndex}

\* The lists hs with links ls hold the positions R of window w.
Listed(hs, ls, w, head, R) ==
    /\ hs \in [Symbols -> Link] /\ ls \in [WindowIndex -> Link]
    /\ \A c \in Symbols : IsOldest(hs[c], head, Same(w, R, c))
    /\ \A p \in R : IsOldest(ls[p], head, Later(w, head, R, p))

LEMMA OlderIs ==
    ASSUME NEW h \in WindowIndex, NEW p \in WindowIndex
    PROVE  /\ Older(h, p) \in WindowIndex
           /\ Older(h, p) = IF p < h THEN p - h + WindowSize ELSE p - h
           /\ (h + Older(h, p)) % WindowSize = p
<1>1. WindowSize \in Nat \ {0} /\ h \in 0 .. WindowSize - 1 /\ p \in 0 .. WindowSize - 1
  BY Sizes DEF WindowIndex
<1> DEFINE W == WindowSize  d == p - h
<1> HIDE DEF W
<1>2. W \in Nat \ {0} /\ h \in 0 .. W - 1 /\ p \in 0 .. W - 1
  BY <1>1 DEF W
<1>3. d \in Int /\ -W <= d /\ d < 2 * W
  BY <1>2
<1>4. d % W = IF d < 0 THEN d + W ELSE IF d < W THEN d ELSE d - W
  BY <1>2, <1>3, ModNear
<1>5. d % W = IF p < h THEN p - h + W ELSE p - h
  BY <1>2, <1>4
<1>6. d % W \in 0 .. W - 1
  BY <1>2, <1>5
<1> DEFINE s == h + (d % W)
<1>7. s = IF p < h THEN p + W ELSE p
  BY <1>2, <1>5
<1>8. s \in Int /\ -W <= s /\ s < 2 * W
  BY <1>2, <1>7
<1>9. s % W = IF s < 0 THEN s + W ELSE IF s < W THEN s ELSE s - W
  BY <1>2, <1>8, ModNear
<1> HIDE DEF s
<1>10. s % W = p
  BY <1>2, <1>7, <1>9
<1> QED
  BY <1>5, <1>6, <1>10 DEF Older, W, WindowIndex, s

\* No two positions are of the same age.
LEMMA OlderApart ==
    ASSUME NEW h \in WindowIndex, NEW p \in WindowIndex, NEW q \in WindowIndex,
           Older(h, p) = Older(h, q)
    PROVE  p = q
BY OlderIs

LEMMA NullIsNone == NullIndex \notin WindowIndex
BY Sizes DEF NullIndex, WindowIndex

\* A list has the positions of its symbol, the oldest first.
ChainOf(ch, w, head, R, c, m) ==
    /\ ch \in [1 .. m -> WindowIndex]
    /\ {ch[k] : k \in 1 .. m} = Same(w, R, c)
    /\ \A j, k \in 1 .. m : j < k => Older(head, ch[j]) < Older(head, ch[k])

\* The positions on a list, and NullIndex behind its end.
Along(hs, ls, c, f) ==
    /\ f \in [1 .. WindowSize -> Link]
    /\ f[1] = hs[c]
    /\ \A k \in 2 .. WindowSize :
          f[k] = IF f[k - 1] = NullIndex THEN NullIndex ELSE ls[f[k - 1]]
    /\ Chain(hs, ls, c) = [k \in {n \in 1 .. WindowSize : f[n] # NullIndex} |-> f[k]]

LEMMA AlongExists ==
    ASSUME NEW hs \in [Symbols -> Link], NEW ls \in [WindowIndex -> Link],
           NEW c \in Symbols
    PROVE  \E f : Along(hs, ls, c, f)
<1> DEFINE W == WindowSize
           g == [y \in (1 .. W - 1) \X Link |-> IF y[2] = NullIndex THEN NullIndex ELSE ls[y[2]]]
<1>1. W \in Nat \ {0} /\ W - 1 \in Nat /\ NullIndex \notin WindowIndex
  BY Sizes, NullIsNone
<1>2. hs[c] \in Link
  OBVIOUS
<1>3. \A x \in Link : x = NullIndex \/ ls[x] \in Link
  BY DEF Link
<1>4. NullIndex \in Link
  BY DEF Link
<1> HIDE DEF W
<1>5. g \in [(1 .. W - 1) \X Link -> Link]
  BY <1>3, <1>4
<1> HIDE DEF g
<1>6. Recursion(Link, hs[c], W - 1, g)
  BY <1>1, <1>2, <1>5, RecursionExists
<1>7. PICK e \in [0 .. W - 1 -> Link] :
         e[0] = hs[c] /\ \A k \in 1 .. W - 1 : e[k] = g[<<k, e[k - 1]>>]
  BY <1>6 DEF Recursion
<1> DEFINE f == [k \in 1 .. W |-> e[k - 1]]
<1>8. f \in [1 .. W -> Link] /\ f[1] = hs[c]
  BY <1>1, <1>7
<1>9. \A k \in 2 .. W : f[k] = IF f[k - 1] = NullIndex THEN NullIndex ELSE ls[f[k - 1]]
  <2> SUFFICES ASSUME NEW k \in 2 .. W
               PROVE  f[k] = IF f[k - 1] = NullIndex THEN NullIndex ELSE ls[f[k - 1]]
    OBVIOUS
  <2>1. k - 1 \in 1 .. W - 1 /\ k \in 1 .. W /\ k - 1 \in 1 .. W /\ (k - 1) - 1 \in 0 .. W - 1
    BY <1>1
  <2>2. f[k] = e[k - 1] /\ f[k - 1] = e[(k - 1) - 1]
    BY <2>1
  <2>3. e[k - 1] = g[<<k - 1, e[(k - 1) - 1]>>]
    BY <1>7, <2>1
  <2>4. e[(k - 1) - 1] \in Link
    BY <1>7, <2>1
  <2> HIDE DEF f
  <2> QED
    BY <2>1, <2>2, <2>3, <2>4 DEF g
<1> HIDE DEF f
<1> DEFINE D(at) == at = [k \in 1 .. W |->
                    IF k = 1 THEN hs[c]
                    ELSE IF at[k - 1] = NullIndex THEN NullIndex ELSE ls[at[k - 1]]]
<1>10. D(f)
  BY <1>8, <1>9, <1>1
<1>11. \A a : D(a) => a = f
  <2> SUFFICES ASSUME NEW a, D(a) PROVE a = f
    OBVIOUS
  <2>1. /\ DOMAIN a = 1 .. W /\ a = [k \in 1 .. W |-> a[k]] /\ a[1] = hs[c]
        /\ \A k \in 2 .. W : a[k] = IF a[k - 1] = NullIndex THEN NullIndex ELSE ls[a[k - 1]]
    <3>1. DOMAIN a = 1 .. W /\ a = [k \in 1 .. W |-> a[k]]
      BY Zenon
    <3>2. \A k \in 1 .. W :
             a[k] = IF k = 1 THEN hs[c]
                    ELSE IF a[k - 1] = NullIndex THEN NullIndex ELSE ls[a[k - 1]]
      BY Zenon
    <3>3. 1 \in 1 .. W /\ \A k \in 2 .. W : k \in 1 .. W /\ k # 1
      BY <1>1
    <3> HIDE DEF D
    <3> QED
      BY <3>1, <3>2, <3>3
  <2> HIDE DEF D
  <2> DEFINE Bad == {k \in 1 .. W : a[k] # f[k]}
  <2>2. ASSUME Bad # {} PROVE FALSE
    <3>1. PICK k \in Bad : \A j \in Bad : k <= j
      <4>1. Bad \in SUBSET Nat
        BY <1>1
      <4> QED
        BY <4>1, <2>2, LeastExists
    <3>2. k \in 1 .. W /\ a[k] # f[k] /\ k # 1
      BY <2>1, <1>8
    <3>3. k - 1 \in 1 .. W /\ k \in 2 .. W /\ ~ (k <= k - 1)
      BY <3>2, <1>1
    <3>4. a[k - 1] = f[k - 1]
      BY <3>1, <3>3
    <3> QED
      BY <3>2, <3>3, <3>4, <2>1, <1>9
  <2>3. \A k \in 1 .. W : a[k] = f[k]
    BY <2>2
  <2> QED
    BY <2>1, <2>3, <1>8
<1>12. f = CHOOSE a : D(a)
  BY <1>10, <1>11
<1> HIDE DEF D
<1>13. Chain(hs, ls, c) = [k \in {n \in 1 .. W : f[n] # NullIndex} |-> f[k]]
  BY <1>12 DEF Chain, D, W
<1> QED
  BY <1>8, <1>9, <1>13 DEF Along, W

LEMMA ChainIs ==
    ASSUME NEW hs, NEW ls, NEW w, NEW head \in WindowIndex,
           NEW R \in SUBSET WindowIndex, NEW c \in Symbols,
           Listed(hs, ls, w, head, R)
    PROVE  \E m \in 0 .. WindowSize : ChainOf(Chain(hs, ls, c), w, head, R, c, m)
<1> DEFINE S == Same(w, R, c)
           W == WindowSize
           Age(x) == Older(head, x)
<1>1. /\ hs \in [Symbols -> Link] /\ ls \in [WindowIndex -> Link]
      /\ IsOldest(hs[c], head, S)
      /\ \A p \in R : IsOldest(ls[p], head, Later(w, head, R, p))
  BY DEF Listed
<1>2. PICK f : Along(hs, ls, c, f)
  BY <1>1, AlongExists
<1>3. /\ f \in [1 .. W -> Link] /\ f[1] = hs[c]
      /\ \A k \in 2 .. W : f[k] = IF f[k - 1] = NullIndex THEN NullIndex ELSE ls[f[k - 1]]
  BY <1>2 DEF Along
<1>4. W \in Nat \ {0} /\ NullIndex \notin WindowIndex
  BY Sizes, NullIsNone
<1>5. \A x \in WindowIndex : Age(x) \in 0 .. W - 1
  BY OlderIs DEF WindowIndex
<1>6. S \subseteq R /\ R \subseteq WindowIndex /\ \A x \in R : x \in S <=> w[x] = c
  BY DEF Same
<1>7. \A x \in S : Later(w, head, R, x) = {q \in S : Age(x) < Age(q)}
  BY DEF Same, Later
<1> HIDE DEF W, S, Age
<1>8. \A x \in S : IF \E q \in S : Age(x) < Age(q)
                     THEN ls[x] \in S /\ Age(x) < Age(ls[x])
                          /\ \A q \in S : Age(x) < Age(q) => Age(ls[x]) <= Age(q)
                     ELSE ls[x] = NullIndex
  <2> SUFFICES ASSUME NEW x \in S
               PROVE  IF \E q \in S : Age(x) < Age(q)
                        THEN ls[x] \in S /\ Age(x) < Age(ls[x])
                          /\ \A q \in S : Age(x) < Age(q) => Age(ls[x]) <= Age(q)
                        ELSE ls[x] = NullIndex
    OBVIOUS
  <2> DEFINE L == {q \in S : Age(x) < Age(q)}
  <2>1. IsOldest(ls[x], head, L)
    BY <1>1, <1>6, <1>7
  <2>2. IF L = {} THEN ls[x] = NullIndex
        ELSE ls[x] \in L /\ \A q \in L : Age(ls[x]) <= Age(q)
    BY <2>1, Zenon DEF IsOldest, Age
  <2> QED
    BY <2>2
<1>9. IF S = {} THEN f[1] = NullIndex
      ELSE f[1] \in S /\ \A q \in S : Age(f[1]) <= Age(q)
  BY <1>1, <1>3 DEF IsOldest, Age
\* What is at k is on the list, behind at least k - 1 others.
<1> DEFINE Good(k) == f[k] # NullIndex =>
                         /\ f[k] \in S /\ Age(f[k]) >= k - 1
                         /\ \A j \in 1 .. k - 1 : f[j] # NullIndex /\ Age(f[j]) < Age(f[k])
           Bad == {k \in 1 .. W : ~ Good(k)}
<1>10. ASSUME Bad # {} PROVE FALSE
  <2>1. PICK k \in Bad : \A j \in Bad : k <= j
    <3>1. Bad \in SUBSET Nat
      BY <1>4
    <3> QED
      BY <1>10, <3>1, LeastExists
  <2>2. k \in 1 .. W /\ ~ Good(k)
    BY <2>1
  <2>3. k # 1
    <3>1. Good(1)
      <4>1. f[1] # NullIndex => f[1] \in S
        BY <1>9
      <4>2. f[1] \in S => Age(f[1]) >= 0
        BY <1>5, <1>6
      <4>3. 1 .. 1 - 1 = {} /\ 1 - 1 = 0
        OBVIOUS
      <4> QED
        BY <4>1, <4>2, <4>3
    <3> QED
      BY <2>2, <3>1
  <2>4. k - 1 \in 1 .. W /\ k \in 2 .. W /\ ~ (k <= k - 1)
    BY <1>4, <2>2, <2>3
  <2>5. Good(k - 1)
    BY <2>1, <2>4
  <2>6. f[k] # NullIndex => f[k - 1] # NullIndex /\ f[k] = ls[f[k - 1]]
    BY <1>3, <2>4
  <2> DEFINE x == f[k - 1]  y == f[k]
  <2>7. ASSUME y # NullIndex PROVE Good(k)
    <3>1. /\ x # NullIndex /\ y = ls[x] /\ x \in S /\ Age(x) >= (k - 1) - 1
          /\ \A j \in 1 .. (k - 1) - 1 : f[j] # NullIndex /\ Age(f[j]) < Age(x)
      BY <2>5, <2>6, <2>7
    <3>2. y \in S /\ Age(x) < Age(y)
      BY <1>8, <3>1, <2>7
    <3>3. Age(x) \in 0 .. W - 1 /\ Age(y) \in 0 .. W - 1
      BY <1>5, <1>6, <3>1, <3>2
    <3>4. Age(y) >= k - 1
      <4> DEFINE a == Age(x)  b == Age(y)
      <4> HIDE DEF a, b
      <4>1. a \in Int /\ b \in Int /\ a >= (k - 1) - 1 /\ a < b /\ k \in Int
        BY <1>4, <2>2, <3>1, <3>2, <3>3 DEF a, b
      <4> QED
        BY <4>1 DEF b
    <3>5. \A j \in 1 .. k - 1 : f[j] # NullIndex /\ Age(f[j]) < Age(y)
      <4> SUFFICES ASSUME NEW j \in 1 .. k - 1
                   PROVE  f[j] # NullIndex /\ Age(f[j]) < Age(y)
        OBVIOUS
      <4>1. CASE j = k - 1
        BY <3>1, <3>2, <4>1
      <4>2. CASE j # k - 1
        <5>1. j \in 1 .. (k - 1) - 1 /\ j \in 1 .. W
          BY <1>4, <2>2, <4>2
        <5>2. f[j] # NullIndex /\ Age(f[j]) < Age(x)
          BY <3>1, <5>1
        <5>3. Age(f[j]) \in 0 .. W - 1
          <6>1. f[j] \in Link
            BY <1>3, <5>1
          <6> QED
            BY <1>5, <5>2, <6>1 DEF Link
        <5> DEFINE a == Age(f[j])  b == Age(x)  d == Age(y)
        <5> HIDE DEF a, b, d
        <5>4. a \in Int /\ b \in Int /\ d \in Int /\ a < b /\ b < d
          BY <1>4, <3>2, <3>3, <5>2, <5>3 DEF a, b, d
        <5>5. a < d
          BY <5>4
        <5> QED
          BY <5>2, <5>5 DEF a, d
      <4> QED
        BY <4>1, <4>2
    <3> QED
      BY <3>2, <3>4, <3>5
  <2> QED
    BY <2>2, <2>7
<1>11. \A k \in 1 .. W : Good(k)
  BY <1>10
<1> DEFINE D == {n \in 1 .. W : f[n] # NullIndex}
<1>12. \E m \in 0 .. W : D = 1 .. m
  <2>1. CASE D = {}
    <3>1. 1 .. 0 = {} /\ 0 \in 0 .. W
      BY <1>4
    <3> QED
      BY <2>1, <3>1
  <2>2. CASE D # {}
    <3> DEFINE m == Max(D)
    <3>1. D \in SUBSET (0 .. W)
      BY <1>4
    <3>2. m \in D /\ \A x \in D : x <= m
      <4> HIDE DEF D
      <4> QED
        BY <1>4, <2>2, <3>1, MaxExists
    <3> HIDE DEF m
    <3>3. m \in 1 .. W /\ \A j \in 1 .. m - 1 : f[j] # NullIndex
      BY <1>11, <3>2
    <3>4. \A x \in 1 .. m : x \in D
      <4> SUFFICES ASSUME NEW x \in 1 .. m PROVE x \in D
        OBVIOUS
      <4>1. x \in 1 .. W /\ (x = m \/ x \in 1 .. m - 1)
        BY <1>4, <3>3
      <4> QED
        BY <3>2, <3>3, <4>1
    <3>5. \A x \in D : x \in 1 .. m
      BY <3>2, <3>3, <1>4
    <3>6. D = 1 .. m
      <4> HIDE DEF D
      <4> QED
        BY <3>4, <3>5
    <3> QED
      BY <1>4, <3>3, <3>6
  <2> QED
    BY <2>1, <2>2
<1>13. PICK m \in 0 .. W : D = 1 .. m
  BY <1>12
<1>14. Chain(hs, ls, c) = [k \in 1 .. m |-> f[k]]
  BY <1>2, <1>13 DEF Along, W
<1>15. \A k \in 1 .. m : k \in 1 .. W /\ f[k] # NullIndex /\ f[k] \in S
  BY <1>11, <1>13
<1>16. \A j, k \in 1 .. m : j < k => Age(f[j]) < Age(f[k])
  <2> SUFFICES ASSUME NEW j \in 1 .. m, NEW k \in 1 .. m, j < k
               PROVE  Age(f[j]) < Age(f[k])
    OBVIOUS
  <2>1. j \in 1 .. k - 1
    BY <1>4
  <2> QED
    BY <1>11, <1>15, <2>1
\* No position of the symbol is left out.
<1>17. \A q \in S : \E k \in 1 .. m : f[k] = q
  <2> SUFFICES ASSUME NEW q \in S PROVE \E k \in 1 .. m : f[k] = q
    OBVIOUS
  <2> DEFINE J == {k \in 1 .. m : Age(f[k]) <= Age(q)}
  <2>1. J # {}
    <3>1. f[1] \in S /\ Age(f[1]) <= Age(q)
      BY <1>9
    <3>2. f[1] # NullIndex
      BY <1>4, <1>6, <3>1
    <3>3. 1 \in D
      BY <1>4, <3>2
    <3>4. 1 \in 1 .. m
      BY <1>13, <3>3
    <3> QED
      BY <3>1, <3>4
  <2>2. J \in SUBSET (0 .. m) /\ m \in Nat
    BY <1>4
  <2> DEFINE k == Max(J)
  <2>3. k \in J /\ \A j \in J : j <= k
    <3> HIDE DEF J
    <3> QED
      BY <2>1, <2>2, MaxExists
  <2> HIDE DEF k
  <2>4. k \in 1 .. m /\ Age(f[k]) <= Age(q) /\ f[k] \in S /\ Age(f[k]) >= k - 1 /\ k \in 1 .. W
    BY <1>11, <1>15, <2>3
  <2>5. Age(f[k]) \in 0 .. W - 1 /\ Age(q) \in 0 .. W - 1
    BY <1>5, <1>6, <2>4
  <2>6. CASE Age(f[k]) = Age(q)
    <3>1. f[k] = q
      BY <1>6, <2>4, <2>6, OlderApart DEF Age
    <3> QED
      BY <2>4, <3>1
  <2>7. CASE Age(f[k]) # Age(q)
    <3>1. Age(f[k]) < Age(q)
      <4> DEFINE a == Age(f[k])  b == Age(q)
      <4> HIDE DEF a, b
      <4>1. a \in Int /\ b \in Int /\ a <= b /\ a # b
        BY <1>4, <2>4, <2>5, <2>7 DEF a, b
      <4>2. a < b
        BY <4>1
      <4> QED
        BY <4>2 DEF a, b
    <3>2. ls[f[k]] \in S /\ Age(ls[f[k]]) <= Age(q)
      BY <1>8, <2>4, <3>1
    <3>3. k < W
      <4> DEFINE a == Age(f[k])  b == Age(q)
      <4> HIDE DEF a, b
      <4>1. a >= k - 1 /\ a < b /\ a \in 0 .. W - 1 /\ b \in 0 .. W - 1 /\ k \in 1 .. W
        BY <2>4, <2>5, <3>1 DEF a, b
      <4> QED
        BY <1>4, <4>1
    <3>4. k + 1 \in 2 .. W /\ (k + 1) - 1 = k /\ k + 1 \in 1 .. W
      BY <1>4, <2>4, <3>3
    <3>5. f[k + 1] = ls[f[k]]
      <4>1. f[k] # NullIndex
        BY <1>15, <2>4
      <4>2. f[k + 1] = IF f[(k + 1) - 1] = NullIndex THEN NullIndex ELSE ls[f[(k + 1) - 1]]
        BY <1>3, <3>4
      <4> QED
        BY <3>4, <4>1, <4>2
    <3>6. f[k + 1] # NullIndex
      BY <1>4, <1>6, <3>2, <3>5
    <3>7. k + 1 \in D
      BY <3>4, <3>6
    <3>8. k + 1 \in 1 .. m
      BY <1>13, <3>7
    <3>9. k + 1 \in J
      BY <3>2, <3>5, <3>8
    <3>10. ~ (k + 1 <= k)
      BY <2>4
    <3> QED
      BY <2>3, <3>9, <3>10
  <2> QED
    BY <2>6, <2>7
<1> DEFINE ch == Chain(hs, ls, c)
<1>18. ch \in [1 .. m -> WindowIndex] /\ \A k \in 1 .. m : ch[k] = f[k]
  <2>1. \A k \in 1 .. m : f[k] \in WindowIndex
    BY <1>6, <1>15
  <2> QED
    BY <1>14, <2>1
<1> HIDE DEF ch, D
<1>19. {ch[k] : k \in 1 .. m} = S
  BY <1>15, <1>17, <1>18
<1>20. \A j, k \in 1 .. m : j < k => Age(ch[j]) < Age(ch[k])
  BY <1>16, <1>18
<1>21. ChainOf(ch, w, head, R, c, m)
  BY <1>18, <1>19, <1>20 DEF ChainOf, Age, S
<1> QED
  BY <1>13, <1>21 DEF ch, W

-----------------------------------------------------------------------------
(* ReplaceChar.                                                            *)

\* The window and its head with lists that hold the positions R.
ListState ==
    [heads : [Symbols -> Link], links : [WindowIndex -> Link],
     window : [WindowIndex -> Symbols], at : WindowIndex]

\* The oldest position is at the head of its list.
LEMMA RemovedIs ==
    ASSUME NEW s \in ListState, Listed(s.heads, s.links, s.window, s.at, WindowIndex)
    PROVE  LET c == s.window[s.at]
               t == RemoveChar(s, s.at, c)
           IN  /\ t = [s EXCEPT !.heads[c] = s.links[s.at], !.links[s.at] = NullIndex]
               /\ Listed(t.heads, t.links, s.window, s.at, WindowIndex \ {s.at})
<1> DEFINE p == s.at
           w == s.window
           c == w[p]
           R == WindowIndex \ {p}
           Age(x) == Older(p, x)
           t == RemoveChar(s, p, c)
<1>1. /\ s.heads \in [Symbols -> Link] /\ s.links \in [WindowIndex -> Link]
      /\ w \in [WindowIndex -> Symbols] /\ p \in WindowIndex /\ c \in Symbols
  BY DEF ListState
<1>2. /\ \A d \in Symbols : IsOldest(s.heads[d], p, Same(w, WindowIndex, d))
      /\ \A q \in WindowIndex : IsOldest(s.links[q], p, Later(w, p, WindowIndex, q))
  BY DEF Listed
<1> HIDE DEF p, w
<1>3. \A x \in WindowIndex : Age(x) \in WindowIndex /\ (x # p => Age(x) > 0)
  <2> SUFFICES ASSUME NEW x \in WindowIndex
               PROVE  Age(x) \in WindowIndex /\ (x # p => Age(x) > 0)
    OBVIOUS
  <2>1. WindowSize \in Nat \ {0} /\ x \in 0 .. WindowSize - 1 /\ p \in 0 .. WindowSize - 1
    BY <1>1, Sizes DEF WindowIndex
  <2>2. Age(x) \in WindowIndex /\ Age(x) = IF x < p THEN x - p + WindowSize ELSE x - p
    BY <1>1, OlderIs
  <2> HIDE DEF Age
  <2> QED
    BY <2>1, <2>2
<1>4. Age(p) = 0
  <2>1. Age(p) = IF p < p THEN p - p + WindowSize ELSE p - p
    BY <1>1, OlderIs
  <2>2. p \in Int
    BY <1>1, Sizes DEF WindowIndex
  <2> HIDE DEF Age
  <2> QED
    BY <2>1, <2>2
<1> HIDE DEF Age
<1>5. s.heads[c] = p
  <2> DEFINE S == Same(w, WindowIndex, c)
             x == s.heads[c]
  <2>1. p \in S
    BY <1>1 DEF Same
  <2>2. x \in S /\ Age(x) <= Age(p)
    <3>1. IsOldest(x, p, S)
      BY <1>1, <1>2
    <3> HIDE DEF S, x
    <3> QED
      BY <2>1, <3>1 DEF IsOldest, Age
  <2>3. x \in WindowIndex
    BY <2>2 DEF Same
  <2> HIDE DEF x
  <2>4. Age(x) \in Int /\ ~ (Age(x) > 0)
    BY <1>3, <1>4, <2>2, <2>3, Sizes DEF WindowIndex
  <2>5. x = p
    BY <1>3, <2>3, <2>4
  <2> QED
    BY <2>5 DEF x
<1>6. t = [s EXCEPT !.heads[c] = s.links[p], !.links[p] = NullIndex]
  BY <1>5 DEF RemoveChar
<1> DEFINE hs == [s.heads EXCEPT ![c] = s.links[p]]
           ls == [s.links EXCEPT ![p] = NullIndex]
<1>7. t.heads = hs /\ t.links = ls
  BY <1>6 DEF ListState
<1> HIDE DEF t
<1>8. hs \in [Symbols -> Link] /\ ls \in [WindowIndex -> Link]
  <2>1. NullIndex \in Link
    BY DEF Link
  <2> QED
    BY <1>1, <2>1
<1>9. ASSUME NEW d \in Symbols PROVE IsOldest(hs[d], p, Same(w, R, d))
  <2>1. CASE d = c
    <3>1. Same(w, R, c) = Later(w, p, WindowIndex, p)
      <4>1. \A x \in WindowIndex : x \in R <=> Age(p) < Age(x)
        BY <1>3, <1>4
      <4> QED
        BY <4>1 DEF Same, Later, Age
    <3>2. hs[c] = s.links[p]
      BY <1>1
    <3> QED
      BY <1>1, <1>2, <2>1, <3>1, <3>2
  <2>2. CASE d # c
    <3>1. Same(w, R, d) = Same(w, WindowIndex, d)
      BY <2>2 DEF Same
    <3>2. hs[d] = s.heads[d]
      BY <1>1, <2>2
    <3> QED
      BY <1>2, <3>1, <3>2
  <2> QED
    BY <2>1, <2>2
<1>10. ASSUME NEW q \in R PROVE IsOldest(ls[q], p, Later(w, p, R, q))
  <2>1. q \in WindowIndex /\ q # p
    OBVIOUS
  <2>2. Later(w, p, R, q) = Later(w, p, WindowIndex, q)
    <3>1. ~ (Age(q) < Age(p))
      <4>1. Age(q) \in Int /\ Age(q) > 0
        BY <1>3, <2>1, Sizes DEF WindowIndex
      <4> QED
        BY <1>4, <4>1
    <3> QED
      BY <3>1 DEF Later, Age
  <2>3. ls[q] = s.links[q]
    BY <1>1, <2>1
  <2> QED
    BY <1>2, <2>1, <2>2, <2>3
<1>11. Listed(hs, ls, w, p, R)
  <2> HIDE DEF hs, ls, R
  <2> QED
    BY <1>8, <1>9, <1>10 DEF Listed
<1> QED
  BY <1>6, <1>7, <1>11 DEF p, w, t

\* The position just written is the youngest, under the head behind it, and
\* the others are one older than they were.
LEMMA HeadMoves ==
    ASSUME NEW p \in WindowIndex
    PROVE  LET h == (p + 1) % WindowSize
           IN  /\ h \in WindowIndex
               /\ Older(h, p) = WindowSize - 1
               /\ \A x \in WindowIndex \ {p} : Older(h, x) = Older(p, x) - 1
<1> DEFINE W == WindowSize
           h == (p + 1) % W
<1>1. W \in Nat \ {0}
  BY Sizes
<1>2. p \in 0 .. W - 1
  BY DEF WindowIndex
<1> HIDE DEF W
<1>3. h = IF p + 1 < W THEN p + 1 ELSE p + 1 - W
  <2> DEFINE a == p + 1
  <2>1. a \in Int /\ -W <= a /\ a < 2 * W /\ a >= 0
    BY <1>1, <1>2
  <2> HIDE DEF a
  <2>2. a % W = IF a < 0 THEN a + W ELSE IF a < W THEN a ELSE a - W
    BY <1>1, <2>1, ModNear
  <2>3. a % W = IF a < W THEN a ELSE a - W
    BY <1>1, <2>1, <2>2
  <2>4. h = a % W
    BY DEF a
  <2> HIDE DEF h
  <2> QED
    BY <1>1, <1>2, <2>3, <2>4 DEF a
<1> HIDE DEF h
<1>4. h \in 0 .. W - 1
  BY <1>1, <1>2, <1>3
<1>5. h \in WindowIndex
  BY <1>4 DEF W, WindowIndex
<1>6. \A x \in 0 .. W - 1 :
         /\ Older(h, x) = IF x < h THEN x - h + W ELSE x - h
         /\ Older(p, x) = IF x < p THEN x - p + W ELSE x - p
  BY <1>5, OlderIs DEF W, WindowIndex
<1>7. Older(h, p) = W - 1
  BY <1>1, <1>2, <1>3, <1>6
<1>8. \A x \in (0 .. W - 1) \ {p} : Older(h, x) = Older(p, x) - 1
  <2> SUFFICES ASSUME NEW x \in (0 .. W - 1) \ {p}
               PROVE  Older(h, x) = Older(p, x) - 1
    OBVIOUS
  <2>1. x \in 0 .. W - 1 /\ x # p
    OBVIOUS
  <2> QED
    BY <1>1, <1>2, <1>3, <1>6, <2>1
<1> QED
  BY <1>5, <1>7, <1>8 DEF h, W, WindowIndex

\* The youngest position goes to the end of the list of its symbol.
LEMMA AddedIs ==
    ASSUME NEW s \in ListState, NEW p \in WindowIndex, NEW c \in Symbols,
           s.window[p] = c, Older(s.at, p) = WindowSize - 1,
           s.links[p] = NullIndex,
           Listed(s.heads, s.links, s.window, s.at, WindowIndex \ {p})
    PROVE  LET t == AddChar(s, p, c)
           IN  /\ t \in ListState /\ t.window = s.window /\ t.at = s.at
               /\ Listed(t.heads, t.links, s.window, s.at, WindowIndex)
<1> DEFINE h == s.at
           w == s.window
           R == WindowIndex \ {p}
           S == Same(w, R, c)
           ch == Chain(s.heads, s.links, c)
           t == AddChar(s, p, c)
           Age(x) == Older(h, x)
<1>1. /\ s.heads \in [Symbols -> Link] /\ s.links \in [WindowIndex -> Link]
      /\ w \in [WindowIndex -> Symbols] /\ h \in WindowIndex
      /\ s = [heads |-> s.heads, links |-> s.links, window |-> w, at |-> h]
  BY DEF ListState
<1>2. PICK m \in 0 .. WindowSize : ChainOf(ch, w, h, R, c, m)
  <2>1. R \in SUBSET WindowIndex
    OBVIOUS
  <2> QED
    BY <1>1, <2>1, ChainIs
<1>3. /\ ch \in [1 .. m -> WindowIndex] /\ {ch[k] : k \in 1 .. m} = S
      /\ \A j, k \in 1 .. m : j < k => Age(ch[j]) < Age(ch[k])
  BY <1>2 DEF ChainOf
<1>4. m \in Nat /\ ch \in Seq(WindowIndex) /\ Len(ch) = m
  <2>1. m \in Nat
    BY <1>2, Sizes
  <2> HIDE DEF ch
  <2> QED
    BY <1>3, <2>1
<1>5. /\ \A x \in WindowIndex : Age(x) \in Nat /\ Age(x) <= Age(p)
      /\ \A x \in R : Age(x) < Age(p)
      /\ \A x, y \in WindowIndex : Age(x) = Age(y) => x = y
  <2>1. \A x, y \in WindowIndex : Age(x) = Age(y) => x = y
    BY <1>1, OlderApart
  <2>2. \A x \in WindowIndex : Age(x) \in 0 .. WindowSize - 1
    BY <1>1, OlderIs DEF WindowIndex
  <2>3. WindowSize \in Nat \ {0} /\ Age(p) = WindowSize - 1
    BY Sizes
  <2> HIDE DEF Age
  <2>4. \A x \in WindowIndex : Age(x) \in Nat /\ Age(x) <= Age(p)
    BY <2>2, <2>3
  <2>5. \A x \in R : Age(x) < Age(p)
    <3> SUFFICES ASSUME NEW x \in R PROVE Age(x) < Age(p)
      OBVIOUS
    <3>1. Age(x) \in Nat /\ Age(x) <= Age(p) /\ Age(x) # Age(p) /\ Age(p) \in Nat
      BY <2>1, <2>4
    <3> DEFINE a == Age(x)  b == Age(p)
    <3> HIDE DEF a, b
    <3>2. a \in Nat /\ b \in Nat /\ a <= b /\ a # b
      BY <3>1 DEF a, b
    <3>3. a < b
      BY <3>2
    <3> QED
      BY <3>3 DEF a, b
  <2> QED
    BY <2>1, <2>4, <2>5
<1>6. NullIndex \in Link /\ p \in Link
  BY DEF Link
<1> DEFINE last == ch[m]
           hs == IF m = 0 THEN [s.heads EXCEPT ![c] = p] ELSE s.heads
           ls == IF m = 0 THEN [s.links EXCEPT ![p] = NullIndex]
                 ELSE [s.links EXCEPT ![last] = p, ![p] = NullIndex]
\* The last on the list is the youngest of it.
<1>7. m # 0 => /\ last \in S /\ last \in R
               /\ \A x \in S : Age(x) <= Age(last)
  <2> SUFFICES ASSUME m # 0
               PROVE  last \in S /\ last \in R /\ \A x \in S : Age(x) <= Age(last)
    OBVIOUS
  <2>1. m \in 1 .. m
    BY <1>4
  <2>2. last \in S
    BY <1>3, <2>1
  <2>3. last \in R /\ S \subseteq WindowIndex
    BY <2>2 DEF Same
  <2>4. ASSUME NEW x \in S PROVE Age(x) <= Age(last)
    <3>1. PICK k \in 1 .. m : ch[k] = x
      BY <1>3
    <3>2. CASE k = m
      <4>1. Age(last) \in Nat
        BY <1>5, <2>3
      <4> QED
        BY <3>1, <3>2, <4>1
    <3>3. CASE k # m
      <4>1. k < m
        BY <1>4, <3>3
      <4>2. Age(x) < Age(last)
        BY <1>3, <2>1, <3>1, <4>1
      <4>3. Age(x) \in Nat /\ Age(last) \in Nat
        BY <1>5, <2>3
      <4> HIDE DEF Age, last
      <4> QED
        BY <4>2, <4>3
    <3> QED
      BY <3>2, <3>3
  <2> QED
    BY <2>2, <2>3, <2>4
<1>8. m = 0 <=> S = {}
  <2>1. m = 0 => 1 .. m = {}
    OBVIOUS
  <2>2. m # 0 => m \in 1 .. m
    BY <1>4
  <2> HIDE DEF ch, S
  <2> QED
    BY <1>3, <2>1, <2>2
<1>9. t = [heads |-> hs, links |-> ls, window |-> w, at |-> h]
  <2> DEFINE u == s.heads  v == s.links
  <2> HIDE DEF ch, w, h, u, v
  <2>1. s = [heads |-> u, links |-> v, window |-> w, at |-> h]
    BY <1>1 DEF u, v
  <2>2. CASE m = 0
    <3>1. ch = <<>>
      BY <1>4, <2>2
    <3>2. t = [s EXCEPT !.heads[c] = p, !.links[p] = NullIndex]
      BY <3>1 DEF AddChar, ch
    <3>3. t = [heads |-> [u EXCEPT ![c] = p], links |-> [v EXCEPT ![p] = NullIndex],
               window |-> w, at |-> h]
      <4> HIDE DEF t
      <4> QED
        BY <2>1, <3>2
    <3> QED
      BY <2>2, <3>3 DEF u, v
  <2>3. CASE m # 0
    <3>1. ch # <<>> /\ Last(ch) = last
      BY <1>4, <2>3 DEF Last
    <3>2. t = [s EXCEPT !.links[last] = p, !.links[p] = NullIndex]
      BY <3>1 DEF AddChar, ch
    <3>3. t = [heads |-> u, links |-> [v EXCEPT ![last] = p, ![p] = NullIndex],
               window |-> w, at |-> h]
      <4> HIDE DEF t, last
      <4> QED
        BY <2>1, <3>2
    <3> QED
      BY <2>3, <3>3 DEF u, v
  <2> QED
    BY <2>2, <2>3
<1>10. hs \in [Symbols -> Link] /\ ls \in [WindowIndex -> Link]
  BY <1>1, <1>6, <1>7
<1>11. /\ \A d \in Symbols : hs[d] = IF d = c /\ m = 0 THEN p ELSE s.heads[d]
       /\ ls[p] = NullIndex
       /\ \A q \in R : ls[q] = IF m # 0 /\ q = last THEN p ELSE s.links[q]
  BY <1>1, <1>7
<1> HIDE DEF ch, last, hs, ls, t
<1>12. ASSUME NEW d \in Symbols PROVE IsOldest(hs[d], h, Same(w, WindowIndex, d))
  <2>1. IsOldest(s.heads[d], h, Same(w, R, d))
    BY DEF Listed
  <2>2. CASE d # c
    <3>1. Same(w, WindowIndex, d) = Same(w, R, d)
      BY <2>2 DEF Same
    <3> QED
      BY <1>11, <2>1, <2>2, <3>1
  <2>3. CASE d = c
    <3>1. Same(w, WindowIndex, c) = S \union {p}
      BY DEF Same
    <3>2. CASE m = 0
      <4>1. hs[c] = p /\ Same(w, WindowIndex, c) = {p}
        BY <1>8, <1>11, <3>1, <3>2
      <4>2. Age(p) <= Age(p)
        BY <1>5
      <4> QED
        BY <2>3, <4>1, <4>2 DEF IsOldest
    <3>3. CASE m # 0
      <4> DEFINE x == s.heads[c]
      <4>1. x \in S /\ \A q \in S : Age(x) <= Age(q)
        <5>1. IsOldest(x, h, S) /\ S # {}
          BY <1>8, <2>1, <2>3, <3>3
        <5> HIDE DEF S, x, h
        <5> QED
          BY <5>1 DEF IsOldest
      <4>2. x \in WindowIndex
        BY <4>1 DEF Same
      <4>3. hs[c] = x /\ Age(x) <= Age(p)
        BY <1>5, <1>11, <3>3, <4>2
      <4> HIDE DEF x, S, h
      <4> QED
        BY <2>3, <3>1, <4>1, <4>3 DEF IsOldest
    <3> QED
      BY <3>2, <3>3
  <2> QED
    BY <2>2, <2>3
<1>13. ASSUME NEW q \in WindowIndex PROVE IsOldest(ls[q], h, Later(w, h, WindowIndex, q))
  <2>1. CASE q = p
    <3>1. Later(w, h, WindowIndex, p) = {}
      <4>1. \A x \in WindowIndex : ~ (Age(p) < Age(x))
        <5> SUFFICES ASSUME NEW x \in WindowIndex PROVE ~ (Age(p) < Age(x))
          OBVIOUS
        <5>1. Age(p) \in Nat /\ Age(x) \in Nat /\ Age(x) <= Age(p)
          BY <1>5
        <5> HIDE DEF Age
        <5> QED
          BY <5>1
      <4> QED
        BY <4>1 DEF Later
    <3> QED
      BY <1>11, <2>1, <3>1 DEF IsOldest
  <2>2. CASE q # p
    <3>1. q \in R
      BY <2>2
    <3> DEFINE L == Later(w, h, R, q)
    <3>2. IsOldest(s.links[q], h, L)
      BY <3>1 DEF Listed
    <3>3. Later(w, h, WindowIndex, q) = IF w[q] = c THEN L \union {p} ELSE L
      <4>1. Age(q) < Age(p)
        BY <1>5, <3>1
      <4> QED
        BY <4>1 DEF Later
    <3>4. CASE w[q] # c
      <4>1. ~ (m # 0 /\ q = last)
        BY <1>7, <3>4 DEF Same
      <4> QED
        BY <1>11, <3>1, <3>2, <3>3, <3>4, <4>1
    <3>5. CASE w[q] = c
      <4>1. q \in S /\ m # 0
        <5>1. q \in S
          BY <3>1, <3>5 DEF Same
        <5> QED
          BY <1>8, <5>1
      <4>2. L = {x \in S : Age(q) < Age(x)}
        BY <3>5 DEF Same, Later
      <4>3. L = {} <=> q = last
        <5>1. q = last => L = {}
          <6> SUFFICES ASSUME q = last, NEW x \in S PROVE ~ (Age(q) < Age(x))
            BY <4>2
          <6>1. Age(x) <= Age(last) /\ x \in WindowIndex /\ last \in WindowIndex
            BY <1>7, <4>1 DEF Same
          <6>2. Age(x) \in Nat /\ Age(last) \in Nat
            BY <1>5, <6>1
          <6> HIDE DEF Age
          <6> QED
            BY <6>1, <6>2
        <5>2. q # last => last \in L
          <6> SUFFICES ASSUME q # last PROVE Age(q) < Age(last)
            BY <1>7, <4>1, <4>2
          <6>1. Age(q) <= Age(last) /\ q \in WindowIndex /\ last \in WindowIndex
            BY <1>7, <4>1 DEF Same
          <6>2. Age(q) \in Nat /\ Age(last) \in Nat /\ Age(q) # Age(last)
            BY <1>5, <6>1
          <6> HIDE DEF Age
          <6> QED
            BY <6>1, <6>2
        <5> QED
          BY <5>1, <5>2
      <4>4. CASE q = last
        <5>1. ls[q] = p /\ Later(w, h, WindowIndex, q) = {p}
          BY <1>11, <3>1, <3>3, <3>5, <4>1, <4>3, <4>4
        <5>2. Age(p) <= Age(p)
          BY <1>5
        <5> QED
          BY <5>1, <5>2 DEF IsOldest
      <4>5. CASE q # last
        <5> DEFINE x == s.links[q]
        <5>1. x \in L /\ \A y \in L : Age(x) <= Age(y)
          <6>1. L # {}
            BY <4>3, <4>5
          <6> HIDE DEF L, x, h
          <6> QED
            BY <3>2, <6>1 DEF IsOldest, x
        <5>2. x \in WindowIndex
          BY <5>1 DEF Later
        <5>3. ls[q] = x /\ Age(x) <= Age(p)
          BY <1>5, <1>11, <3>1, <4>5, <5>2
        <5> HIDE DEF x, L, h
        <5> QED
          BY <3>3, <3>5, <5>1, <5>3 DEF IsOldest
      <4> QED
        BY <4>4, <4>5
    <3> QED
      BY <3>4, <3>5
  <2> QED
    BY <2>1, <2>2
<1>14. Listed(hs, ls, w, h, WindowIndex)
  <2> HIDE DEF h, w
  <2> QED
    BY <1>10, <1>12, <1>13 DEF Listed
<1>15. t \in ListState
  <2> HIDE DEF h, w
  <2>1. w \in [WindowIndex -> Symbols] /\ h \in WindowIndex
    BY <1>1
  <2> QED
    BY <1>9, <1>10, <2>1 DEF ListState
<1> QED
  BY <1>9, <1>14, <1>15 DEF t

LEMMA ReplacedIs ==
    ASSUME NEW s \in ListState, NEW c \in Symbols,
           Listed(s.heads, s.links, s.window, s.at, WindowIndex)
    PROVE  LET t == ReplaceChar(s, c)
           IN  /\ t \in ListState
               /\ t.window = [s.window EXCEPT ![s.at] = c]
               /\ t.at = (s.at + 1) % WindowSize
               /\ Listed(t.heads, t.links, t.window, t.at, WindowIndex)
<1> DEFINE p == s.at
           h == (p + 1) % WindowSize
           w == s.window
           wc == [w EXCEPT ![p] = c]
           r == RemoveChar(s, p, w[p])
           u == [r EXCEPT !.window[p] = c, !.at = (@ + 1) % WindowSize]
           R == WindowIndex \ {p}
<1>1. /\ s.heads \in [Symbols -> Link] /\ s.links \in [WindowIndex -> Link]
      /\ w \in [WindowIndex -> Symbols] /\ p \in WindowIndex
      /\ s = [heads |-> s.heads, links |-> s.links, window |-> w, at |-> p]
  BY DEF ListState
<1>2. /\ r = [s EXCEPT !.heads[w[p]] = s.links[p], !.links[p] = NullIndex]
      /\ Listed(r.heads, r.links, w, p, R)
  BY RemovedIs
<1>3. /\ h \in WindowIndex /\ Older(h, p) = WindowSize - 1
      /\ \A x \in R : Older(h, x) = Older(p, x) - 1
  BY <1>1, HeadMoves
<1> DEFINE hs == r.heads  ls == r.links
<1>4. /\ r = [heads |-> hs, links |-> ls, window |-> w, at |-> p]
      /\ ls[p] = NullIndex
  <2> DEFINE a == s.heads  b == s.links
  <2>1. s = [heads |-> a, links |-> b, window |-> w, at |-> p] /\ b \in [WindowIndex -> Link]
    BY <1>1
  <2>2. r = [s EXCEPT !.heads[w[p]] = b[p], !.links[p] = NullIndex]
    BY <1>2
  <2>3. p \in WindowIndex
    BY <1>1
  <2> HIDE DEF a, b, w, p, r
  <2>4. r = [heads |-> [a EXCEPT ![w[p]] = b[p]], links |-> [b EXCEPT ![p] = NullIndex],
             window |-> w, at |-> p]
    BY <2>1, <2>2
  <2> QED
    BY <2>1, <2>3, <2>4
<1>5. Listed(hs, ls, w, p, R)
  BY <1>2
<1> HIDE DEF r, hs, ls, h
<1>6. u = [heads |-> hs, links |-> ls, window |-> wc, at |-> h]
  <2>1. r.at = p /\ r.window = w
    BY <1>4
  <2>2. u = [r EXCEPT !.window[p] = c, !.at = h]
    BY <2>1 DEF h
  <2> HIDE DEF w, p, u
  <2> QED
    BY <1>4, <2>2
<1>7. wc \in [WindowIndex -> Symbols] /\ wc[p] = c /\ \A x \in R : wc[x] = w[x]
  BY <1>1
<1>8. u \in ListState
  <2>1. hs \in [Symbols -> Link] /\ ls \in [WindowIndex -> Link]
    BY <1>5 DEF Listed
  <2> HIDE DEF u, wc
  <2> QED
    BY <1>3, <1>6, <1>7, <2>1 DEF ListState
<1>9. \A x \in R : Older(p, x) \in Int /\ Older(h, x) = Older(p, x) - 1
  <2>1. \A x \in R : Older(p, x) \in WindowIndex
    BY <1>1, OlderIs
  <2> QED
    BY <1>3, <2>1, Sizes DEF WindowIndex
<1> HIDE DEF wc, w, p
<1>10. \A x, y \in R : /\ Older(p, x) < Older(p, y) <=> Older(h, x) < Older(h, y)
                       /\ Older(p, x) <= Older(p, y) <=> Older(h, x) <= Older(h, y)
  <2> SUFFICES ASSUME NEW x \in R, NEW y \in R
               PROVE  /\ Older(p, x) < Older(p, y) <=> Older(h, x) < Older(h, y)
                      /\ Older(p, x) <= Older(p, y) <=> Older(h, x) <= Older(h, y)
    OBVIOUS
  <2> DEFINE a == Older(p, x)  b == Older(p, y)  d == Older(h, x)  e == Older(h, y)
  <2> HIDE DEF a, b, d, e
  <2>1. a \in Int /\ b \in Int /\ d = a - 1 /\ e = b - 1
    BY <1>9 DEF a, b, d, e
  <2>2. (a < b <=> d < e) /\ (a <= b <=> d <= e)
    BY <2>1
  <2> QED
    BY <2>2 DEF a, b, d, e
<1>11. \A x : \A S \in SUBSET R : IsOldest(x, p, S) <=> IsOldest(x, h, S)
  BY <1>10 DEF IsOldest
<1>12. Listed(hs, ls, wc, h, R)
  <2>1. /\ hs \in [Symbols -> Link] /\ ls \in [WindowIndex -> Link]
        /\ \A d \in Symbols : IsOldest(hs[d], p, Same(w, R, d))
        /\ \A q \in R : IsOldest(ls[q], p, Later(w, p, R, q))
    BY <1>5 DEF Listed
  <2>2. \A d : Same(wc, R, d) = Same(w, R, d) /\ Same(w, R, d) \in SUBSET R
    BY <1>7 DEF Same
  <2>3. \A q \in R : Later(wc, h, R, q) = Later(w, p, R, q) /\ Later(w, p, R, q) \in SUBSET R
    BY <1>7, <1>10 DEF Later
  <2> HIDE DEF R
  <2>4. \A d \in Symbols : IsOldest(hs[d], h, Same(wc, R, d))
    BY <1>11, <2>1, <2>2
  <2>5. \A q \in R : IsOldest(ls[q], h, Later(wc, h, R, q))
    BY <1>11, <2>1, <2>3
  <2> QED
    BY <2>1, <2>4, <2>5 DEF Listed
<1>13. ReplaceChar(s, c) = AddChar(u, p, c)
  BY DEF ReplaceChar, r, w, p
<1>14. u.heads = hs /\ u.links = ls /\ u.window = wc /\ u.at = h
  <2> HIDE DEF u
  <2> QED
    BY <1>6
<1>15. p \in WindowIndex
  BY <1>1 DEF p
<1> HIDE DEF u
<1> DEFINE t == AddChar(u, p, c)
<1>16. /\ t \in ListState /\ t.window = u.window /\ t.at = u.at
       /\ Listed(t.heads, t.links, u.window, u.at, WindowIndex)
  BY <1>3, <1>4, <1>7, <1>8, <1>12, <1>14, <1>15, AddedIs
<1> HIDE DEF t
<1> QED
  BY <1>13, <1>14, <1>16 DEF t, wc, h, w, p

\* The window and the lists after the first k symbols of syms.
LEMMA ReplaceKeeps ==
    ASSUME variant = "list", windowHead \in WindowIndex,
           window \in [WindowIndex -> Symbols],
           Listed(heads, links, window, windowHead, WindowIndex),
           NEW syms, NEW n \in 0 .. WindowSize, Len(syms) = n,
           \A k \in 1 .. n : syms[k] \in Symbols,
           ReplaceChars(syms)
    PROVE  Listed(heads', links', Slid(window, windowHead, syms),
                  Advanced(windowHead, n, WindowSize), WindowIndex)
<1> DEFINE W == WindowSize
           h == windowHead
           T == {s \in ListState : Listed(s.heads, s.links, s.window, s.at, WindowIndex)}
           first == [heads |-> heads, links |-> links, window |-> window, at |-> windowHead]
           g == [y \in (1 .. n) \X T |-> ReplaceChar(y[2], syms[y[1]])]
           D(s) == s = [k \in 0 .. Len(syms) |->
                          IF k = 0 THEN [heads |-> heads, links |-> links,
                                         window |-> window, at |-> windowHead]
                          ELSE ReplaceChar(s[k - 1], syms[k])]
<1>1. W \in Nat \ {0} /\ n \in Nat /\ n <= W
  BY Sizes
<1>2. first \in T
  <2>1. heads \in [Symbols -> Link] /\ links \in [WindowIndex -> Link]
    BY DEF Listed
  <2> QED
    BY <2>1 DEF ListState
<1>3. \A s \in T, c \in Symbols :
         /\ ReplaceChar(s, c) \in T
         /\ ReplaceChar(s, c).window = [s.window EXCEPT ![s.at] = c]
         /\ ReplaceChar(s, c).at = (s.at + 1) % W
  <2> SUFFICES ASSUME NEW s \in T, NEW c \in Symbols
               PROVE  /\ ReplaceChar(s, c) \in T
                      /\ ReplaceChar(s, c).window = [s.window EXCEPT ![s.at] = c]
                      /\ ReplaceChar(s, c).at = (s.at + 1) % W
    OBVIOUS
  <2>1. s \in ListState /\ Listed(s.heads, s.links, s.window, s.at, WindowIndex)
    OBVIOUS
  <2> DEFINE t == ReplaceChar(s, c)
  <2>2. /\ t \in ListState
        /\ t.window = [s.window EXCEPT ![s.at] = c]
        /\ t.at = (s.at + 1) % WindowSize
        /\ Listed(t.heads, t.links, t.window, t.at, WindowIndex)
    BY <2>1, ReplacedIs
  <2> HIDE DEF t
  <2>3. t \in T
    BY <2>2
  <2> QED
    BY <2>2, <2>3 DEF t
<1>4. \A s \in T : s.window \in [WindowIndex -> Symbols] /\ s.at \in WindowIndex
  BY DEF ListState
<1>5. \A s \in T : Listed(s.heads, s.links, s.window, s.at, WindowIndex)
  OBVIOUS
<1> HIDE DEF T, first
<1>6. g \in [(1 .. n) \X T -> T]
  <2>1. \A y \in (1 .. n) \X T : ReplaceChar(y[2], syms[y[1]]) \in T
    BY <1>3
  <2> QED
    BY <2>1
<1> HIDE DEF g
<1>7. Recursion(T, first, n, g)
  BY <1>1, <1>2, <1>6, RecursionExists
<1>8. PICK f \in [0 .. n -> T] :
         f[0] = first /\ \A k \in 1 .. n : f[k] = g[<<k, f[k - 1]>>]
  BY <1>7 DEF Recursion
<1>9. \A k \in 1 .. n : k - 1 \in 0 .. n /\ f[k - 1] \in T /\ f[k] = ReplaceChar(f[k - 1], syms[k])
  <2> SUFFICES ASSUME NEW k \in 1 .. n
               PROVE  k - 1 \in 0 .. n /\ f[k - 1] \in T /\ f[k] = ReplaceChar(f[k - 1], syms[k])
    OBVIOUS
  <2>1. k - 1 \in 0 .. n
    BY <1>1
  <2>2. f[k - 1] \in T
    BY <1>8, <2>1
  <2> QED
    BY <1>8, <2>1, <2>2 DEF g
<1>10. D(f)
  <2>1. Len(syms) = n
    OBVIOUS
  <2>2. \A k \in 0 .. n : f[k] = IF k = 0 THEN first ELSE ReplaceChar(f[k - 1], syms[k])
    BY <1>1, <1>8, <1>9
  <2>3. f = [k \in 0 .. n |-> f[k]]
    BY <1>8
  <2> QED
    BY <2>1, <2>2, <2>3, Zenon DEF first
<1>11. \A s : D(s) => s = f
  <2> SUFFICES ASSUME NEW s, D(s) PROVE s = f
    OBVIOUS
  <2>1. s = [k \in 0 .. n |-> s[k]]
    BY Zenon
  <2>2. \A k \in 0 .. n : s[k] = IF k = 0 THEN first ELSE ReplaceChar(s[k - 1], syms[k])
    BY Zenon DEF first
  <2> HIDE DEF D
  <2> DEFINE Bad == {k \in 0 .. n : s[k] # f[k]}
  <2>3. ASSUME Bad # {} PROVE FALSE
    <3>1. PICK k \in Bad : \A j \in Bad : k <= j
      <4>1. Bad \in SUBSET Nat
        BY <1>1
      <4> QED
        BY <4>1, <2>3, LeastExists
    <3>2. k \in 0 .. n /\ s[k] # f[k]
      BY <3>1
    <3>3. k # 0
      BY <1>8, <2>2, <3>2
    <3>4. k \in 1 .. n /\ ~ (k <= k - 1)
      BY <1>1, <3>2, <3>3
    <3>5. s[k - 1] = f[k - 1]
      BY <1>9, <3>1, <3>4
    <3> QED
      BY <1>9, <2>2, <3>2, <3>3, <3>4, <3>5
  <2>4. \A k \in 0 .. n : s[k] = f[k]
    BY <2>3
  <2> QED
    BY <1>8, <2>1, <2>4
<1>12. f = CHOOSE s : D(s)
  BY <1>10, <1>11
<1> HIDE DEF D
<1>13. heads' = f[n].heads /\ links' = f[n].links
  <2>1. /\ heads' = (CHOOSE s : D(s))[Len(syms)].heads
        /\ links' = (CHOOSE s : D(s))[Len(syms)].links
    BY Zenon DEF ReplaceChars, D
  <2> QED
    BY <1>12, <2>1
\* The first k symbols are in the window, and the head is behind them.
<1> DEFINE Good(k) == /\ f[k].at = Advanced(h, k, W)
                      /\ \A q \in WindowIndex :
                            f[k].window[q] = IF Older(h, q) + 1 <= k
                                               THEN syms[Older(h, q) + 1] ELSE window[q]
           Bad == {k \in 0 .. n : ~ Good(k)}
<1>14. \A q \in WindowIndex : Older(h, q) \in 0 .. W - 1 /\ (h + Older(h, q)) % W = q
  BY OlderIs DEF WindowIndex
<1>15. ASSUME Bad # {} PROVE FALSE
  <2>1. PICK k \in Bad : \A j \in Bad : k <= j
    <3>1. Bad \in SUBSET Nat
      BY <1>1
    <3> QED
      BY <1>15, <3>1, LeastExists
  <2>2. k \in 0 .. n /\ ~ Good(k)
    BY <2>1
  <2>3. k # 0
    <3>1. Good(0)
      <4>1. first.at = h /\ first.window = window
        BY DEF first
      <4>2. Advanced(h, 0, W) = h
        <5>1. h \in 0 .. W - 1
          BY DEF WindowIndex
        <5>2. h % W = h /\ h + 0 = h
          BY <1>1, <5>1
        <5> QED
          BY <5>2 DEF Advanced
      <4>3. \A q \in WindowIndex : ~ (Older(h, q) + 1 <= 0)
        <5> SUFFICES ASSUME NEW q \in WindowIndex PROVE ~ (Older(h, q) + 1 <= 0)
          OBVIOUS
        <5> DEFINE a == Older(h, q)
        <5>1. a \in 0 .. W - 1
          BY <1>14
        <5> HIDE DEF a
        <5>2. ~ (a + 1 <= 0)
          BY <1>1, <5>1
        <5> QED
          BY <5>2 DEF a
      <4> QED
        BY <1>8, <4>1, <4>2, <4>3
    <3> QED
      BY <2>2, <3>1
  <2>4. k \in 1 .. n /\ k - 1 \in 0 .. n /\ ~ (k <= k - 1) /\ k - 1 \in 0 .. W - 1
    BY <1>1, <2>2, <2>3
  <2>5. Good(k - 1)
    BY <2>1, <2>4
  <2> DEFINE s == f[k - 1]
             p == s.at
  <2>6. s \in T /\ f[k] = ReplaceChar(s, syms[k]) /\ syms[k] \in Symbols
    BY <1>9, <2>4
  <2> HIDE DEF s
  <2>7. /\ f[k].window = [s.window EXCEPT ![p] = syms[k]]
        /\ f[k].at = (p + 1) % W
        /\ s.window \in [WindowIndex -> Symbols] /\ p \in WindowIndex
    BY <1>3, <1>4, <2>6
  <2>8. p = (h + (k - 1)) % W
    BY <2>5 DEF Advanced, s
  <2>9. \A q \in WindowIndex : q = p <=> Older(h, q) = k - 1
    <3>1. Older(h, p) = k - 1
      <4>1. h \in 0 .. W - 1 /\ k - 1 \in 0 .. W - 1 /\ p \in 0 .. W - 1
        BY <2>4, <2>7 DEF WindowIndex
      <4> DEFINE x == h + (k - 1)
      <4>2. x \in Int /\ -W <= x /\ x < 2 * W /\ x >= 0
        BY <1>1, <4>1
      <4> HIDE DEF x
      <4>3. x % W = IF x < 0 THEN x + W ELSE IF x < W THEN x ELSE x - W
        BY <1>1, <4>2, ModNear
      <4>4. p = IF x < W THEN x ELSE x - W
        BY <2>8, <4>2, <4>3 DEF x
      <4>5. Older(h, p) = IF p < h THEN p - h + W ELSE p - h
        BY <2>7, OlderIs
      <4> DEFINE a == Older(h, p)
      <4>6. a = IF p < h THEN p - h + W ELSE p - h
        BY <4>5
      <4> HIDE DEF a, p, h
      <4>7. a = k - 1
        BY <1>1, <4>1, <4>4, <4>6 DEF x
      <4> QED
        BY <4>7 DEF a
    <3> QED
      BY <2>7, <3>1, OlderApart
  <2>10. f[k].at = Advanced(h, k, W)
    <3>1. h \in 0 .. W - 1 /\ k - 1 \in 0 .. W - 1 /\ p \in 0 .. W - 1 /\ k \in 0 .. W
      BY <1>1, <2>4, <2>7 DEF WindowIndex
    <3> DEFINE x == h + (k - 1)  y == p + 1  z == h + k
    <3>2. /\ x \in Int /\ -W <= x /\ x < 2 * W /\ x >= 0
          /\ y \in Int /\ -W <= y /\ y < 2 * W /\ y >= 0
          /\ z \in Int /\ -W <= z /\ z < 2 * W /\ z >= 0
          /\ z = x + 1
      BY SMTT(30), <1>1, <3>1
    <3>3. p = x % W
      BY <2>8
    <3>4. y = p + 1
      OBVIOUS
    <3> HIDE DEF x, y, z
    <3>5. /\ x % W = IF x < 0 THEN x + W ELSE IF x < W THEN x ELSE x - W
          /\ y % W = IF y < 0 THEN y + W ELSE IF y < W THEN y ELSE y - W
          /\ z % W = IF z < 0 THEN z + W ELSE IF z < W THEN z ELSE z - W
      BY <1>1, <3>2, ModNear
    <3> HIDE DEF p
    <3>6. y % W = z % W
      BY SMTT(30), <1>1, <3>2, <3>3, <3>4, <3>5
    <3> QED
      BY <2>7, <3>6 DEF Advanced, y, z, p
  <2>11. ASSUME NEW q \in WindowIndex
         PROVE  f[k].window[q] = IF Older(h, q) + 1 <= k
                                   THEN syms[Older(h, q) + 1] ELSE window[q]
    <3> DEFINE a == Older(h, q)
    <3>1. a \in 0 .. W - 1 /\ (q = p <=> a = k - 1)
      BY <1>14, <2>9
    <3>2. s.window[q] = IF a + 1 <= k - 1 THEN syms[a + 1] ELSE window[q]
      BY <2>5 DEF s
    <3>3. f[k].window[q] = IF q = p THEN syms[k] ELSE s.window[q]
      BY <2>7
    <3> HIDE DEF a, p
    <3>4. CASE a = k - 1
      <4>1. a + 1 = k /\ a + 1 <= k
        BY <2>4, <3>4
      <4> QED
        BY <3>1, <3>3, <3>4, <4>1 DEF a
    <3>5. CASE a # k - 1
      <4>1. a + 1 <= k - 1 <=> a + 1 <= k
        BY <1>1, <2>4, <3>1, <3>5
      <4> QED
        BY <3>1, <3>2, <3>3, <3>5, <4>1 DEF a
    <3> QED
      BY <3>4, <3>5
  <2> QED
    BY <2>2, <2>10, <2>11
<1>16. Good(n)
  BY <1>1, <1>15
<1>17. f[n] \in T
  BY <1>1, <1>8
<1>18. f[n].window = Slid(window, h, syms)
  <2>1. f[n].window \in [WindowIndex -> Symbols]
    BY <1>4, <1>17
  <2>2. \A q \in WindowIndex : f[n].window[q] = Slid(window, h, syms)[q]
    BY <1>16 DEF Slid, Older
  <2>3. Slid(window, h, syms) = [q \in WindowIndex |-> Slid(window, h, syms)[q]]
    BY DEF Slid
  <2> QED
    BY <2>1, <2>2, <2>3
<1>19. Listed(f[n].heads, f[n].links, f[n].window, f[n].at, WindowIndex)
  BY <1>5, <1>17
<1> QED
  BY <1>13, <1>16, <1>18, <1>19

-----------------------------------------------------------------------------
(* The lists, as the encoder goes on.                                      *)

ListInv ==
    /\ phase \in {"start", "encode"} =>
          window \in [WindowIndex -> Symbols] /\ lookahead \in [LookIndex -> Symbols]
    /\ phase = "encode" /\ variant = "list" =>
          Listed(heads, links, window, windowHead, WindowIndex)

LEMMA InitLists == Init => ListInv
<1> SUFFICES ASSUME Init PROVE ListInv
  OBVIOUS
<1>1. Space \in Symbols /\ Zero \in Symbols
  BY LzssAssumption
<1>2. PICK s \in Symbols : lookahead = [q \in LookIndex |-> s]
  BY <1>1 DEF Init
<1> QED
  BY <1>1, <1>2 DEF Init, ListInv

LEMMA RefilledType ==
    ASSUME NEW l \in [LookIndex -> Symbols], NEW h \in LookIndex, NEW n \in Nat,
           input \in Seq(Symbols), read \in Nat, read + n <= Len(input)
    PROVE  Refilled(l, h, n) \in [LookIndex -> Symbols]
<1> SUFFICES ASSUME NEW q \in LookIndex PROVE Refilled(l, h, n)[q] \in Symbols
  BY DEF Refilled
<1> DEFINE x == (q - h) % MaxCoded
           k == x + 1
<1>1. x \in Nat
  BY Sizes DEF LookIndex
<1>2. Refilled(l, h, n)[q] = IF k <= n THEN input[read + k] ELSE l[q]
  BY DEF Refilled
<1> HIDE DEF x
<1>3. k <= n => read + k \in 1 .. Len(input)
  BY <1>1
<1> QED
  BY <1>2, <1>3

LEMMA StartLists ==
    ASSUME IInv, ListInv, StartEncoding,
           variant = "list" => InitializeSearchStructures
    PROVE  ListInv'
<1> DEFINE n == Min({MaxCoded, Len(input)})
<1>1. /\ phase = "start" /\ phase' = "encode" /\ lookahead' = Refilled(lookahead, 0, n)
      /\ UNCHANGED <<variant, window, windowHead>>
  BY DEF StartEncoding
<1>2. /\ TypeOK /\ windowHead = 0 /\ read = 0
      /\ window = [p \in WindowIndex |-> Space]
      /\ window \in [WindowIndex -> Symbols] /\ lookahead \in [LookIndex -> Symbols]
  BY <1>1 DEF IInv, AtStart, ListInv
<1>3. /\ MaxCoded \in Nat \ {0} /\ WindowSize \in Nat \ {0} /\ input \in Seq(Symbols)
      /\ Len(input) \in Nat
  BY <1>2, Sizes DEF TypeOK
<1>4. n \in Nat /\ n <= Len(input)
  BY <1>3, MinOfTwo
<1> HIDE DEF n
<1>5. 0 \in WindowIndex /\ 0 \in LookIndex /\ read \in Nat /\ read + n <= Len(input)
  BY <1>2, <1>3, <1>4 DEF WindowIndex, LookIndex
<1>6. lookahead' \in [LookIndex -> Symbols]
  BY <1>1, <1>2, <1>3, <1>4, <1>5, RefilledType
<1>7. ASSUME variant = "list"
      PROVE  Listed(heads', links', window, 0, WindowIndex)
  <2> DEFINE W == WindowSize
             hs == [c \in Symbols |-> IF c = window[0] THEN 0 ELSE NullIndex]
             ls == [p \in WindowIndex |-> IF p = W - 1 THEN NullIndex ELSE p + 1]
  <2>1. heads' = hs /\ links' = ls
    BY <1>7 DEF InitializeSearchStructures
  <2>2. \A p \in WindowIndex : p \in 0 .. W - 1 /\ Older(0, p) = p /\ window[p] = Space
    <3> SUFFICES ASSUME NEW p \in WindowIndex
                 PROVE  p \in 0 .. W - 1 /\ Older(0, p) = p /\ window[p] = Space
      OBVIOUS
    <3>1. p \in 0 .. W - 1 /\ window[p] = Space
      BY <1>2 DEF WindowIndex
    <3>2. Older(0, p) = IF p < 0 THEN p - 0 + W ELSE p - 0
      BY <1>5, OlderIs
    <3> QED
      BY <1>3, <3>1, <3>2
  <2>3. hs \in [Symbols -> Link] /\ ls \in [WindowIndex -> Link]
    <3>1. \A p \in WindowIndex : p # W - 1 => p + 1 \in WindowIndex
      BY <1>3 DEF WindowIndex
    <3> QED
      BY <1>5, <3>1 DEF Link
  <2>4. ASSUME NEW c \in Symbols PROVE IsOldest(hs[c], 0, Same(window, WindowIndex, c))
    <3>1. CASE c = Space
      <4>1. Same(window, WindowIndex, c) = WindowIndex /\ hs[c] = 0
        BY <1>5, <2>2, <3>1 DEF Same
      <4>2. \A q \in WindowIndex : Older(0, 0) <= Older(0, q)
        BY <1>3, <1>5, <2>2
      <4> QED
        BY <1>5, <4>1, <4>2 DEF IsOldest
    <3>2. CASE c # Space
      <4>1. Same(window, WindowIndex, c) = {} /\ hs[c] = NullIndex
        BY <1>5, <2>2, <3>2 DEF Same
      <4> QED
        BY <4>1 DEF IsOldest
    <3> QED
      BY <3>1, <3>2
  <2>5. ASSUME NEW p \in WindowIndex
        PROVE  IsOldest(ls[p], 0, Later(window, 0, WindowIndex, p))
    <3> DEFINE L == Later(window, 0, WindowIndex, p)
    <3>1. \A q : q \in L <=> q \in WindowIndex /\ p < q
      BY <2>2 DEF Later
    <3>2. CASE p = W - 1
      <4>1. \A q \in WindowIndex : ~ (p < q)
        BY <1>3, <2>2, <3>2
      <4>2. L = {} /\ ls[p] = NullIndex
        BY <3>1, <3>2, <4>1
      <4> QED
        BY <4>2 DEF IsOldest
    <3>3. CASE p # W - 1
      <4>1. p + 1 \in WindowIndex /\ p < p + 1 /\ p \in 0 .. W - 1
        BY <1>3, <3>3 DEF WindowIndex
      <4>2. p + 1 \in L /\ ls[p] = p + 1
        BY <3>1, <3>3, <4>1
      <4>3. \A q \in L : Older(0, p + 1) <= Older(0, q)
        <5> SUFFICES ASSUME NEW q \in L PROVE Older(0, p + 1) <= Older(0, q)
          OBVIOUS
        <5>1. q \in 0 .. W - 1 /\ p < q /\ Older(0, q) = q /\ Older(0, p + 1) = p + 1
          BY <2>2, <3>1, <4>1
        <5> QED
          BY <1>3, <4>1, <5>1
      <4> HIDE DEF L, ls
      <4>4. IsOldest(ls[p], 0, L)
        BY <4>2, <4>3 DEF IsOldest
      <4> QED
        BY <4>4 DEF L, ls
    <3> QED
      BY <3>2, <3>3
  <2> HIDE DEF hs, ls
  <2> QED
    BY <2>1, <2>3, <2>4, <2>5 DEF Listed
<1> QED
  BY <1>1, <1>2, <1>6, <1>7 DEF ListInv

LEMMA EncodeLists == ASSUME IInv, ListInv, EncodeToken PROVE ListInv'
<1> DEFINE n == TokenLength(Clipped(FindMatch))
           fresh == Min({n, Len(input) - read})
           syms == NextOf(lookahead, uncodedHead, n)
<1>1. /\ phase = "encode" /\ phase' = "encode" /\ len > 0 /\ variant' = variant
      /\ window' = Slid(window, windowHead, syms)
      /\ windowHead' = Advanced(windowHead, n, WindowSize)
      /\ lookahead' = Refilled(lookahead, uncodedHead, fresh)
      /\ ReplaceChars(syms)
  BY DEF EncodeToken, MoreToEncode
<1>2. /\ TypeOK /\ LookaheadFull
      /\ window \in [WindowIndex -> Symbols] /\ lookahead \in [LookIndex -> Symbols]
  BY <1>1 DEF IInv, ListInv
<1>3. n \in 1 .. len /\ len \in 0 .. MaxCoded
  BY <1>1, <1>2, TokenFits DEF TypeOK
<1> HIDE DEF n
<1>4. /\ MaxCoded \in Nat \ {0} /\ WindowSize \in Nat \ {0} /\ MaxCoded <= WindowSize
      /\ input \in Seq(Symbols) /\ Len(input) \in Nat /\ read \in Nat
      /\ windowHead \in WindowIndex /\ uncodedHead \in LookIndex /\ read <= Len(input)
  BY <1>1, <1>2, Sizes DEF TypeOK, LookaheadFull
<1>5. fresh \in Nat /\ read + fresh <= Len(input)
  BY <1>3, <1>4, MinOfTwo
<1> HIDE DEF fresh
<1>6. lookahead' \in [LookIndex -> Symbols]
  BY <1>1, <1>2, <1>4, <1>5, RefilledType
<1>7. n \in 0 .. WindowSize /\ Len(syms) = n /\ \A k \in 1 .. n : syms[k] \in Symbols
  <2>1. n \in 0 .. WindowSize
    BY <1>3, <1>4
  <2>2. \A k \in 1 .. n : (uncodedHead + k - 1) % MaxCoded \in LookIndex
    BY <1>3, <1>4 DEF LookIndex
  <2> QED
    BY <1>2, <2>1, <2>2 DEF NextOf
<1> HIDE DEF syms
<1>8. window' \in [WindowIndex -> Symbols]
  <2> SUFFICES ASSUME NEW p \in WindowIndex
               PROVE  Slid(window, windowHead, syms)[p] \in Symbols
    BY <1>1 DEF Slid
  <2> DEFINE k == ((p - windowHead) % WindowSize) + 1
  <2>1. k \in Nat \ {0}
    <3> DEFINE x == (p - windowHead) % WindowSize
    <3>1. x \in Nat
      BY <1>4 DEF WindowIndex
    <3> HIDE DEF x
    <3> QED
      BY <3>1 DEF x
  <2>2. Slid(window, windowHead, syms)[p] = IF k <= n THEN syms[k] ELSE window[p]
    BY <1>7 DEF Slid
  <2> HIDE DEF k
  <2>3. k <= n => k \in 1 .. n
    BY <1>7, <2>1
  <2> QED
    BY <1>2, <1>7, <2>2, <2>3
<1>9. variant = "list" => Listed(heads', links', window', windowHead', WindowIndex)
  <2> SUFFICES ASSUME variant = "list"
               PROVE  Listed(heads', links', window', windowHead', WindowIndex)
    OBVIOUS
  <2>1. Listed(heads, links, window, windowHead, WindowIndex)
    BY <1>1 DEF ListInv
  <2> QED
    BY <1>1, <1>2, <1>4, <1>7, <2>1, ReplaceKeeps
<1> QED
  BY <1>1, <1>6, <1>8, <1>9 DEF ListInv

LEMMA ListStep == IInv /\ ListInv /\ [Next]_vars => ListInv'
<1> SUFFICES ASSUME IInv, ListInv, [Next]_vars PROVE ListInv'
  OBVIOUS
<1>1. CASE StartEncoding /\ (variant = "list" => InitializeSearchStructures)
  BY <1>1, StartLists
<1>2. CASE EncodeToken
  BY <1>2, EncodeLists
<1>3. CASE phase' \notin {"start", "encode"}
  BY <1>3 DEF ListInv
<1>4. CASE UNCHANGED vars
  BY <1>4 DEF ListInv, vars, encoderVars, listVars
<1>5. CASE DecodeToken
  <2>1. phase' = "decode"
    BY <1>5 DEF DecodeToken
  <2> QED
    BY <1>3, <2>1
<1> QED
  BY <1>1, <1>2, <1>3, <1>4, <1>5
     DEF Next, SerialDriverStops, GroupedDriverStops, DriverStops, StartOverwriting, StartSerial,
         StartGrouped, StartKernel, EncodeSerial, EncodeGrouped, EncodeKernel,
         FinishEncoding, DecodeSerial, DecodeGrouped, DecodeKernel, FinishDecoding

\* The lists hold the window, the oldest position first, for every input, in
\* every build that puts no other variable where the last symbol's head goes.
THEOREM ListsInvariant == Spec => []ListInv
<1>1. Spec => []IInv
  BY InvariantHolds
<1>2. Init => ListInv
  BY InitLists
<1>3. IInv /\ ListInv /\ [Next]_vars => ListInv'
  BY ListStep
<1> QED
  BY <1>1, <1>2, <1>3, PTL DEF Spec

\* The positions on the list of a symbol are those where the window has it,
\* from the oldest to the youngest, for every size of window and alphabet:
\* ReplaceChar takes the oldest position off the head of its list, wherever
\* in the window that is, and appends it to the list of the new symbol.  (Where
\* another variable lies behind the heads, the program leaves phase "encode".)
THEOREM ListsFollow == Spec => []ListsFollowWindow
<1>1. IInv /\ ListInv => ListsFollowWindow
  <2> SUFFICES ASSUME IInv, ListInv, phase = "encode", variant = "list", NEW c \in Symbols
               PROVE  LET chain == Chain(heads, links, c)
                      IN  /\ {chain[k] : k \in DOMAIN chain} = {p \in WindowIndex : window[p] = c}
                          /\ \A j, k \in DOMAIN chain :
                                j < k => Older(windowHead, chain[j]) < Older(windowHead, chain[k])
    BY DEF ListsFollowWindow
  <2>1. Listed(heads, links, window, windowHead, WindowIndex) /\ windowHead \in WindowIndex
    BY DEF ListInv, IInv, TypeOK
  <2> DEFINE ch == Chain(heads, links, c)
  <2>2. PICK m \in 0 .. WindowSize : ChainOf(ch, window, windowHead, WindowIndex, c, m)
    BY <2>1, ChainIs
  <2> HIDE DEF ch
  <2>3. DOMAIN ch = 1 .. m
    BY <2>2 DEF ChainOf
  <2> QED
    BY <2>2, <2>3 DEF ChainOf, Same, ch
<1> QED
  BY <1>1, InvariantHolds, ListsInvariant, PTL

\* What matches in one symbol at least is on the list of that symbol, so both
\* searches have the same choice; and the list is in the order of brute.c.
LEMMA SearchesSame ==
    ASSUME windowHead \in WindowIndex, uncodedHead \in LookIndex,
           window \in [WindowIndex -> Symbols], lookahead \in [LookIndex -> Symbols],
           Listed(heads, links, window, windowHead, WindowIndex)
    PROVE  ListMatch = BruteMatch
<1> DEFINE h == windowHead
           c == lookahead[uncodedHead]
           ch == Chain(heads, links, c)
           Age(x) == Older(h, x)
           SL == {0} \union {n \in 1 .. MaxCoded : \E k \in DOMAIN ch : MatchesOnward(ch[k], n)}
           SB == {n \in 0 .. MaxCoded : \E i \in WindowIndex : Matches(i, n)}
           l == LongestMatch
           KL == {k \in DOMAIN ch : MatchesOnward(ch[k], l)}
           K == {k \in DOMAIN ch : Matches(ch[k], l)}
           D == {d \in WindowIndex : Matches((h + d) % WindowSize, l)}
<1>1. c \in Symbols /\ MaxCoded \in Nat \ {0} /\ WindowSize \in Nat \ {0}
  BY Sizes
<1>2. PICK m \in 0 .. WindowSize : ChainOf(ch, window, h, WindowIndex, c, m)
  BY <1>1, ChainIs
<1>3. /\ DOMAIN ch = 1 .. m /\ m \in Nat
      /\ \A k \in 1 .. m : ch[k] \in WindowIndex /\ window[ch[k]] = c
      /\ \A i \in WindowIndex : window[i] = c => \E k \in 1 .. m : ch[k] = i
      /\ \A j, k \in 1 .. m : j < k => Age(ch[j]) < Age(ch[k])
  <2>1. m \in Nat
    BY <1>1
  <2> HIDE DEF ch
  <2> QED
    BY <1>2, <2>1 DEF ChainOf, Same
<1> HIDE DEF ch
<1>4. \A i \in WindowIndex : \A n \in 1 .. MaxCoded : Matches(i, n) => window[i] = c
  <2> SUFFICES ASSUME NEW i \in WindowIndex, NEW n \in 1 .. MaxCoded, Matches(i, n)
               PROVE  window[i] = c
    OBVIOUS
  <2>1. 0 \in 0 .. n - 1
    OBVIOUS
  <2>2. window[(i + 0) % WindowSize] = lookahead[(uncodedHead + 0) % MaxCoded]
    BY <2>1 DEF Matches
  <2>3. i \in 0 .. WindowSize - 1 /\ uncodedHead \in 0 .. MaxCoded - 1
    BY DEF WindowIndex, LookIndex
  <2>4. i + 0 = i /\ uncodedHead + 0 = uncodedHead
    BY <1>1, <2>3
  <2>5. i % WindowSize = i /\ uncodedHead % MaxCoded = uncodedHead
    BY <1>1, <2>3
  <2> QED
    BY <2>2, <2>4, <2>5
<1>5. ASSUME NEW k \in DOMAIN ch, NEW n \in 1 .. MaxCoded
       PROVE  MatchesOnward(ch[k], n) <=> Matches(ch[k], n)
  <2> DEFINE i == ch[k]
  <2>1. i \in 0 .. WindowSize - 1 /\ uncodedHead \in 0 .. MaxCoded - 1 /\ window[i] = c
    BY <1>3 DEF WindowIndex, LookIndex
  <2> HIDE DEF i
  <2>2. (i + 0) % WindowSize = i /\ (uncodedHead + 0) % MaxCoded = uncodedHead
    BY <1>1, <2>1
  <2>3. window[(i + 0) % WindowSize] = lookahead[(uncodedHead + 0) % MaxCoded]
    BY <2>1, <2>2
  <2>4. \A j \in 0 .. n - 1 : j = 0 \/ j \in 1 .. n - 1
    BY <1>1
  <2>5. \A j \in 1 .. n - 1 : j \in 0 .. n - 1
    BY <1>1
  <2>6. MatchesOnward(i, n) <=> Matches(i, n)
    BY <2>3, <2>4, <2>5 DEF MatchesOnward, Matches
  <2> QED
    BY <2>6 DEF i
<1>6. 0 \in WindowIndex /\ Matches(0, 0)
  <2>1. 0 \in WindowIndex
    BY <1>1 DEF WindowIndex
  <2>2. 0 .. 0 - 1 = {}
    OBVIOUS
  <2> QED
    BY <2>1, <2>2 DEF Matches
<1>7. SL = SB
  <2>1. ASSUME NEW n \in 1 .. MaxCoded
        PROVE  (\E k \in DOMAIN ch : MatchesOnward(ch[k], n)) <=> \E i \in WindowIndex : Matches(i, n)
    <3>1. ASSUME NEW k \in DOMAIN ch, MatchesOnward(ch[k], n)
          PROVE  \E i \in WindowIndex : Matches(i, n)
      BY <1>3, <1>5, <3>1
    <3>2. ASSUME NEW i \in WindowIndex, Matches(i, n)
          PROVE  \E k \in DOMAIN ch : MatchesOnward(ch[k], n)
      <4>1. window[i] = c
        BY <1>4, <3>2
      <4>2. PICK k \in 1 .. m : ch[k] = i
        BY <1>3, <4>1
      <4> QED
        BY <1>3, <1>5, <3>2, <4>2
    <3> QED
      BY <3>1, <3>2
  <2>2. 0 \in 0 .. MaxCoded
    BY <1>1
  <2>3. \A n \in 0 .. MaxCoded : n = 0 \/ n \in 1 .. MaxCoded
    BY <1>1
  <2>4. \A n \in 1 .. MaxCoded : n \in 0 .. MaxCoded
    BY <1>1
  <2> QED
    BY <1>6, <2>1, <2>2, <2>3, <2>4
<1>8. ListMatch = [offset |-> IF l = 0 THEN 0 ELSE ch[Min(KL)], length |-> l]
  <2>1. Max(SL) = l
    BY <1>7 DEF LongestMatch
  <2> DEFINE x == Max(SL)
  <2>2. ListMatch = [offset |-> IF x = 0 THEN 0
                                ELSE ch[Min({k \in DOMAIN ch : MatchesOnward(ch[k], x)})],
                     length |-> x]
    BY DEF ListMatch, ch
  <2> HIDE DEF x, SL
  <2> QED
    BY <2>1, <2>2 DEF x
<1>9. BruteMatch = [offset |-> IF l = 0 THEN 0 ELSE (h + Min(D)) % WindowSize, length |-> l]
  BY DEF BruteMatch
<1>10. l \in 0 .. MaxCoded /\ \E i \in WindowIndex : Matches(i, l)
  <2>1. SB \in SUBSET (0 .. MaxCoded) /\ SB # {} /\ l = Max(SB)
    <3>1. 0 \in 0 .. MaxCoded
      BY <1>1
    <3>2. 0 \in SB
      BY <1>6, <3>1
    <3>3. l = Max(SB)
      BY DEF LongestMatch
    <3> QED
      BY <3>2, <3>3
  <2> HIDE DEF SB, l
  <2>2. l \in SB
    BY <1>1, <2>1, MaxExists
  <2> QED
    BY <2>2 DEF SB
<1> HIDE DEF l, SL, SB
<1>11. l # 0 => KL = K
  <2>1. l # 0 => l \in 1 .. MaxCoded
    BY <1>1, <1>10
  <2> QED
    BY <1>5, <2>1
<1>12. ASSUME l # 0 PROVE ch[Min(K)] = (h + Min(D)) % WindowSize
  <2>1. l \in 1 .. MaxCoded
    BY <1>1, <1>10, <1>12
  <2>2. \A i \in WindowIndex : Matches(i, l) => \E k \in K : ch[k] = i
    BY <1>3, <1>4, <2>1
  <2>3. K # {} /\ K \in SUBSET Nat
    BY <1>3, <1>10, <2>2
  <2>4. Min(K) \in K /\ \A k \in K : Min(K) <= k
    <3> HIDE DEF K
    <3>1. PICK k \in K : \A j \in K : k <= j
      BY <2>3, LeastExists
    <3>2. Min(K) \in K
      BY <2>3, MinExists
    <3> QED
      BY <2>3, <3>1, <3>2 DEF Min
  <2> DEFINE x == ch[Min(K)]
  <2>5. x \in WindowIndex /\ Matches(x, l)
    BY <1>3, <2>4
  <2>6. Age(x) \in D
    <3>1. Age(x) \in WindowIndex /\ (h + Age(x)) % WindowSize = x
      BY <2>5, OlderIs
    <3> QED
      BY <2>5, <3>1
  <2>7. ASSUME NEW d \in D PROVE Age(x) <= d
    <3> DEFINE i == (h + d) % WindowSize
    <3>1. h \in 0 .. WindowSize - 1 /\ d \in 0 .. WindowSize - 1
      BY DEF WindowIndex
    <3>2. i \in WindowIndex /\ Matches(i, l)
      BY <1>1, <3>1 DEF WindowIndex
    <3>3. Age(i) = d
      <4> DEFINE W == WindowSize  s == h + d  a == Age(i)
      <4> HIDE DEF W, s
      <4>1. W \in Nat \ {0} /\ s \in Int /\ -W <= s /\ s < 2 * W /\ s >= 0
        BY <1>1, <3>1 DEF W, s
      <4>2. s % W = IF s < 0 THEN s + W ELSE IF s < W THEN s ELSE s - W
        BY <4>1, ModNear
      <4>3. i = IF s < W THEN s ELSE s - W
        BY <4>1, <4>2 DEF s, W
      <4>4. a = IF i < h THEN i - h + W ELSE i - h
        BY <3>2, OlderIs DEF W
      <4> HIDE DEF a, i
      <4>5. h \in 0 .. W - 1 /\ d \in 0 .. W - 1
        BY <3>1 DEF W
      <4>6. a = d
        BY <4>1, <4>3, <4>4, <4>5 DEF s
      <4> QED
        BY <4>6 DEF a
    <3>4. PICK k \in K : ch[k] = i
      BY <2>2, <3>2
    <3>5. Min(K) <= k /\ Min(K) \in 1 .. m /\ k \in 1 .. m
      BY <1>3, <2>4
    <3>6. CASE Min(K) = k
      <4>1. Age(x) = d
        BY <3>3, <3>4, <3>6
      <4> QED
        BY <3>1, <4>1
    <3>7. CASE Min(K) # k
      <4>1. Min(K) < k
        BY <3>5, <3>7
      <4>2. Age(ch[Min(K)]) < Age(ch[k])
        BY <1>3, <3>5, <4>1
      <4>3. Age(x) < d
        BY <3>3, <3>4, <4>2
      <4>4. Age(x) \in Int
        <5>1. Age(x) \in WindowIndex
          BY <2>5, OlderIs
        <5>2. \A y \in WindowIndex : y \in Int
          BY <1>1 DEF WindowIndex
        <5> QED
          BY <5>1, <5>2
      <4> HIDE DEF Age, x
      <4> QED
        BY <1>1, <3>1, <4>3, <4>4
    <3> QED
      BY <3>6, <3>7
  <2>8. Min(D) = Age(x)
    <3>1. D \in SUBSET Nat /\ D # {}
      BY <1>1, <2>6 DEF WindowIndex
    <3> DEFINE y == Age(x)
    <3>2. y \in D /\ \A d \in D : y <= d
      BY <2>6, <2>7
    <3> HIDE DEF D, y
    <3>3. Min(D) \in D /\ \A d \in D : Min(D) <= d
      BY <3>1, <3>2, MinExists DEF Min
    <3>4. Min(D) <= y /\ y <= Min(D) /\ y \in Nat /\ Min(D) \in Nat
      BY <3>1, <3>2, <3>3
    <3>5. Min(D) = y
      BY <3>4
    <3> QED
      BY <3>5 DEF y
  <2>9. (h + Age(x)) % WindowSize = x
    BY <2>5, OlderIs
  <2> QED
    BY <2>8, <2>9
<1> HIDE DEF K, KL, D
<1> QED
  BY <1>8, <1>9, <1>12, <1>11

\* list.c, which only looks along the list of the next symbol and does not look
\* at the first symbol of what it finds there, finds the match
\* that brute.c finds when it looks through the whole window, with the same
\* offset of several: the programs built with either write the same file.
THEOREM SearchesFindTheSame == Spec => []SearchesAgree
<1>1. IInv /\ ListInv => SearchesAgree
  BY SearchesSame DEF ListInv, IInv, TypeOK, SearchesAgree
<1> QED
  BY <1>1, InvariantHolds, ListsInvariant, PTL

-----------------------------------------------------------------------------
(* What a file means: the decoder's way through it, from token to token.   *)

\* A place between two tokens: the cell with the flags of their group, which
\* flag comes next (the first one if the next group begins), the cells and the
\* symbols before the place, and the window's head.
Places == [at : Nat, bit : Nat \ {0}, read : Nat, from : Nat, head : WindowIndex]
Beginning == [at |-> 0, bit |-> 1, read |-> 0, from |-> 0, head |-> 0]

FlagCell(p) == IF p.bit = 1 THEN p.read + 1 ELSE p.at
Before(p) == IF p.bit = 1 THEN p.read + 1 ELSE p.read

\* The window with its head at h when the first n symbols of inp went through.
WindowAt(inp, n, h) ==
    [x \in WindowIndex |->
        LET k == ((h - x - 1) % WindowSize) + 1
        IN IF k <= n THEN inp[n - k + 1] ELSE Space]

\* The token between p and q is cells cells long and stands for n symbols.
Moves(p, q, cells, n) ==
    /\ q.read = Before(p) + cells
    /\ q.from = p.from + n
    /\ q.head = Advanced(p.head, n, WindowSize)

IsLiteral(inp, file, p, q) ==
    /\ file[FlagCell(p)][p.bit] = TRUE
    /\ Moves(p, q, 1, 1)
    /\ file[Before(p) + 1] = inp[p.from + 1]

IsCopy(inp, file, p, q) ==
    LET n == file[Before(p) + 2] + MaxUncoded + 1
    IN  /\ file[FlagCell(p)][p.bit] = FALSE
        /\ n \in 1 .. WindowSize
        /\ Moves(p, q, 2, n)
        /\ \A k \in 1 .. n :
              WindowAt(inp, p.from, p.head)
                  [(file[Before(p) + 1] + k - 1) % WindowSize] = inp[p.from + k]

\* With g flags in a group, the file has a token between p and q, and it stands
\* for the symbols of inp between them.
IsToken(inp, file, g, p, q) ==
    /\ FlagCell(p) \in 1 .. Len(file)
    /\ p.bit \in 1 .. g /\ p.bit \in 1 .. Len(file[FlagCell(p)])
    /\ q.at = FlagCell(p) /\ q.bit = IF p.bit = g THEN 1 ELSE p.bit + 1
    /\ q.read <= Len(file) /\ q.from <= Len(inp)
    /\ IsLiteral(inp, file, p, q) \/ IsCopy(inp, file, p, q)

-----------------------------------------------------------------------------
(* The invariant of encoding and decoding.                                 *)

\* The file if the encoder stopped now.
FileSoFar == out \o Pending

\* The place the encoder has come to.
EncoderAt(p) ==
    /\ p.read = Len(FileSoFar) /\ p.from = read - len /\ p.head = windowHead
    /\ p.bit = Len(flags) + 1
    /\ p.bit > 1 => p.at = Len(out) + 1

Collecting ==
    phase \in {"start", "encode"} =>
        /\ flags \in Seq(BOOLEAN) /\ Len(flags) < Flags(variant)
        /\ encodedData = <<>> <=> flags = <<>>
        /\ \E C : out \in Seq(C) /\ encodedData \in Seq(C)
        /\ decoded = <<>>
        /\ window = WindowAt(input, read - len, windowHead)

\* From any of some places, among them the beginning, the file goes on to
\* another of them, or it is the place of the encoder.  No token overlaps with
\* the flags of the group in the making, which are still to change.
EncodedRight ==
    phase \in {"start", "encode"} =>
        \E P \in SUBSET Places :
            /\ Beginning \in P
            /\ \A p \in P :
                  \/ EncoderAt(p)
                  \/ \E q \in P :
                        /\ IsToken(input, FileSoFar, Flags(variant), p, q)
                        /\ Len(out) + 1 \notin Before(p) + 1 .. q.read

EndOfFile(p) ==
    /\ p.read = Len(out) /\ p.from = Len(input) - len
    /\ p.bit \in 1 .. Flags(variant)

\* The place the decoder has come to.
DecoderAt(p) ==
    /\ read = p.read /\ windowHead = p.head /\ Len(decoded) = p.from
    /\ window = WindowAt(input, p.from, p.head)
    /\ flags \in Seq(BOOLEAN)
    /\ Len(flags) = IF p.bit = 1 THEN 0 ELSE Flags(variant) - p.bit + 1
    /\ p.bit > 1 =>
          \A k \in 1 .. Len(flags) : flags[k] = Padded(out[p.at])[p.bit + k - 1]

\* The decoder is at one of the places the encoder has been at.
DecodesRight ==
    phase = "decode" =>
        /\ Len(out) \in Nat
        /\ \E P \in SUBSET Places :
              /\ \A p \in P :
                    EndOfFile(p) \/ \E q \in P : IsToken(input, out, Flags(variant), p, q)
              /\ \E p \in P : DecoderAt(p)

DecodedSoFar ==
    /\ decoded \in Seq(Symbols) /\ Len(decoded) <= Len(input)
    /\ \A k \in 1 .. Len(decoded) : decoded[k] = input[k]
    /\ phase = "done" => Len(decoded) = Len(input) - len
    /\ phase \in {"decode", "done"} /\ variant # "opencl" => len = 0

FileInv == IInv /\ Collecting /\ EncodedRight /\ DecodesRight /\ DecodedSoFar

-----------------------------------------------------------------------------
(* The window.                                                             *)

LEMMA WindowMoves ==
    ASSUME NEW inp, NEW n \in Nat, NEW h \in WindowIndex, NEW m \in 0 .. WindowSize,
           NEW s, Len(s) = m, \A k \in 1 .. m : s[k] = inp[n + k]
    PROVE  Slid(WindowAt(inp, n, h), h, s) =
               WindowAt(inp, n + m, Advanced(h, m, WindowSize))
<1> DEFINE W == WindowSize
           to == Advanced(h, m, W)
           w == WindowAt(inp, n, h)
           v == WindowAt(inp, n + m, to)
<1> SUFFICES ASSUME NEW x \in WindowIndex
             PROVE  (IF ((x - h) % W) + 1 <= Len(s) THEN s[((x - h) % W) + 1] ELSE w[x]) = v[x]
  BY DEF Slid, WindowAt
<1> DEFINE c == (x - h) % W
           d == (h - x - 1) % W
           e == (to - x - 1) % W
<1> HIDE DEF W
<1>1. W \in Nat \ {0} /\ h \in 0 .. W - 1 /\ x \in 0 .. W - 1 /\ m \in 0 .. W
  BY Sizes DEF W, WindowIndex
<1>2. to = IF h + m < W THEN h + m ELSE h + m - W
  <2> DEFINE a == h + m
  <2>1. a \in Int /\ -W <= a /\ a < 2 * W /\ ~ (a < 0)
    BY <1>1
  <2>2. to = a % W /\ (h + m) - W = a - W
    BY DEF Advanced
  <2> HIDE DEF a, to
  <2>3. a % W = IF a < 0 THEN a + W ELSE IF a < W THEN a ELSE a - W
    BY <1>1, <2>1, ModNear
  <2>4. to = IF a < W THEN a ELSE a - W
    BY <2>1, <2>2, <2>3
  <2> QED
    BY <1>1, <2>4 DEF a
<1>3. w[x] = IF d + 1 <= n THEN inp[n - (d + 1) + 1] ELSE Space
  BY DEF WindowAt, W
<1>4. v[x] = IF e + 1 <= n + m THEN inp[(n + m) - (e + 1) + 1] ELSE Space
  BY DEF WindowAt, W
<1> HIDE DEF to, w, v
<1>5. c = IF x - h < 0 THEN x - h + W ELSE x - h
  <2>1. x - h \in Int /\ -W <= x - h /\ x - h < W /\ x - h < 2 * W
    BY <1>1
  <2> QED
    BY <1>1, <2>1, ModNear
<1>6. d = IF h - x - 1 < 0 THEN h - x - 1 + W ELSE h - x - 1
  <2>1. h - x - 1 \in Int /\ -W <= h - x - 1 /\ h - x - 1 < W /\ h - x - 1 < 2 * W
    BY <1>1
  <2> QED
    BY <1>1, <2>1, ModNear
<1>7. e = IF to - x - 1 < 0 THEN to - x - 1 + W ELSE to - x - 1
  <2>1. to \in 0 .. W - 1
    BY <1>1, <1>2
  <2>2. to - x - 1 \in Int /\ -W <= to - x - 1 /\ to - x - 1 < W /\ to - x - 1 < 2 * W
    BY <1>1, <2>1
  <2> QED
    BY <1>1, <2>2, ModNear
<1> HIDE DEF c, d, e
<1>8. CASE c + 1 <= m
  <2>1. e + 1 = m - c
    BY <1>1, <1>2, <1>5, <1>7, <1>8
  <2>2. c + 1 \in 1 .. m /\ e + 1 <= n + m /\ (n + m) - (e + 1) + 1 = n + (c + 1)
    BY <1>1, <1>5, <1>8, <2>1
  <2>3. s[c + 1] = inp[n + (c + 1)]
    BY <2>2
  <2> QED
    BY <1>4, <1>8, <2>2, <2>3 DEF c
<1>9. CASE ~ (c + 1 <= m)
  <2>1. e + 1 = d + 1 + m
    BY <1>1, <1>2, <1>5, <1>6, <1>7, <1>9
  <2>2. d \in Nat
    BY <1>1, <1>6
  <2>3. (d + 1 <= n <=> e + 1 <= n + m) /\ n - (d + 1) + 1 = (n + m) - (e + 1) + 1
    BY <1>1, <2>1, <2>2
  <2> QED
    BY <1>3, <1>4, <1>9, <2>3 DEF c
<1> QED
  BY <1>8, <1>9

LEMMA WindowOfSpaces ==
    ASSUME NEW inp, NEW h \in WindowIndex
    PROVE  WindowAt(inp, 0, h) = [x \in WindowIndex |-> Space]
<1> SUFFICES ASSUME NEW x \in WindowIndex
             PROVE  ~ (((h - x - 1) % WindowSize) + 1 <= 0)
  BY DEF WindowAt
<1>1. (h - x - 1) % WindowSize \in 0 .. WindowSize - 1
  BY Sizes DEF WindowIndex
<1> QED
  BY <1>1
-----------------------------------------------------------------------------
(* What the encoder writes.                                                *)

LEMMA MatchFound ==
    ASSUME windowHead \in WindowIndex, FindMatch.length # 0, FindMatch = BruteMatch
    PROVE  Matches(FindMatch.offset, FindMatch.length)
<1> DEFINE l == LongestMatch
           S == {n \in 0 .. MaxCoded : \E i \in WindowIndex : Matches(i, n)}
           D == {d \in WindowIndex : Matches((windowHead + d) % WindowSize, l)}
<1>1. FindMatch = BruteMatch
  OBVIOUS
<1>2. FindMatch.length = l
  BY <1>1 DEF BruteMatch
<1>3. l \in S
  <2>1. 0 \in WindowIndex /\ 0 \in 0 .. MaxCoded /\ MaxCoded \in Nat
    BY Sizes DEF WindowIndex
  <2>2. Matches(0, 0)
    <3>1. 0 .. 0 - 1 = {}
      OBVIOUS
    <3> QED
      BY <3>1 DEF Matches
  <2>3. S \in SUBSET (0 .. MaxCoded) /\ S # {}
    BY <2>1, <2>2
  <2>4. l = Max(S)
    BY DEF LongestMatch
  <2> HIDE DEF S, l
  <2> QED
    BY <2>1, <2>3, <2>4, MaxExists
<1>4. PICK i \in WindowIndex : Matches(i, l)
  BY <1>3
<1> HIDE DEF l
<1>5. D # {}
  <2> DEFINE d == IF i < windowHead THEN i - windowHead + WindowSize ELSE i - windowHead
  <2>1. d \in WindowIndex /\ (windowHead + d = i \/ windowHead + d = i + WindowSize)
        /\ i \in Int /\ i \in 0 .. WindowSize - 1
    BY Sizes DEF WindowIndex
  <2>2. i % WindowSize = i /\ (i + WindowSize) % WindowSize = i
    BY <2>1, Sizes
  <2>3. (windowHead + d) % WindowSize = i
    BY <2>1, <2>2
  <2> HIDE DEF d
  <2> QED
    BY <1>4, <2>1, <2>3
<1>6. D \in SUBSET Nat
  BY Sizes DEF WindowIndex
<1>7. FindMatch.offset = (windowHead + Min(D)) % WindowSize
  BY <1>1, <1>2 DEF BruteMatch, l
<1> HIDE DEF D
<1>8. Min(D) \in D
  BY <1>5, <1>6, MinExists
<1> QED
  BY <1>2, <1>7, <1>8 DEF D

\* The token the encoder writes stands for the symbols it takes.
LEMMA TokenStands ==
    ASSUME IInv, ListInv, phase = "encode", len > 0
    PROVE  LET m == Clipped(FindMatch)
               n == TokenLength(m)
               past == read - len
           IN  /\ ~ IsCoded(m) => n = 1 /\ Token(m) = <<input[past + 1]>>
               /\ IsCoded(m) =>
                     /\ n \in 1 .. WindowSize
                     /\ \E c : Token(m) = <<m.offset, c>> /\ c + MaxUncoded + 1 = n
                     /\ \A k \in 1 .. n :
                           window[(m.offset + k - 1) % WindowSize] = input[past + k]
<1> DEFINE f == FindMatch
           m == Clipped(f)
           n == TokenLength(m)
           past == read - len
<1>1. /\ windowHead \in WindowIndex /\ uncodedHead \in LookIndex
      /\ len \in 1 .. MaxCoded
      /\ \A k \in 1 .. len :
            lookahead[(uncodedHead + k - 1) % MaxCoded] = input[past + k]
  BY Sizes DEF IInv, TypeOK, BuffersFollowInput
<1>2. f.length \in 0 .. MaxCoded /\ f = [f EXCEPT !.length = f.length]
  BY MatchLength DEF FindMatch, ListMatch, BruteMatch
<1>3. m.length = Min({f.length, len}) /\ m.offset = f.offset
  BY DEF Clipped, FindMatch, ListMatch, BruteMatch
<1>4. f.length # 0 => Matches(f.offset, f.length)
  <2>1. ListMatch = BruteMatch \/ variant # "list"
    BY <1>1, SearchesSame DEF ListInv
  <2>2. f = BruteMatch
    BY <2>1 DEF FindMatch
  <2> QED
    BY <1>1, <2>2, MatchFound
<1> HIDE DEF f
<1>5. m.length \in 0 .. len /\ m.length <= f.length /\ m.length \in Int
  <2> DEFINE a == f.length
  <2>1. a \in Nat /\ len \in Nat
    BY <1>1, <1>2, Sizes
  <2> HIDE DEF a
  <2>2. Min({a, len}) = IF a <= len THEN a ELSE len
    BY <2>1, MinOfTwo
  <2>3. m.length = IF a <= len THEN a ELSE len
    BY <1>3, <2>2 DEF a
  <2> HIDE DEF m
  <2>4. m.length \in 0 .. len /\ m.length <= a /\ m.length \in Int
    BY <2>1, <2>3
  <2> QED
    BY <2>4 DEF a
<1> HIDE DEF m
<1>6. CASE ~ IsCoded(m)
  <2>1. n = 1 /\ Token(m) = <<lookahead[uncodedHead]>>
    BY <1>6 DEF TokenLength, Token
  <2>2. (uncodedHead + 1 - 1) % MaxCoded = uncodedHead
    <3>1. uncodedHead + 1 - 1 = uncodedHead /\ uncodedHead \in 0 .. MaxCoded - 1
          /\ MaxCoded \in Nat \ {0}
      BY <1>1, Sizes DEF LookIndex
    <3>2. uncodedHead % MaxCoded = uncodedHead
      BY <3>1
    <3> QED
      BY <3>1, <3>2
  <2>3. 1 \in 1 .. len
    BY <1>1, Sizes
  <2> QED
    BY <1>1, <1>6, <2>1, <2>2, <2>3 DEF m, f
<1>7. CASE IsCoded(m)
  <2> DEFINE two == 2 ^ LengthBits
             c == (m.length - (MaxUncoded + 1)) % two
  <2>1. n = m.length /\ m.length > MaxUncoded /\ Token(m) = <<m.offset, c>>
    BY <1>7 DEF TokenLength, Token, IsCoded
  <2>2. two \in Nat \ {0} /\ MaxCoded = two + MaxUncoded
    BY Sizes
  <2> HIDE DEF two
  <2>3. m.length - (MaxUncoded + 1) \in 0 .. two - 1
    BY <1>1, <1>5, <2>1, <2>2, Sizes
  <2>4. c = m.length - (MaxUncoded + 1)
    BY <2>2, <2>3
  <2>5. c + MaxUncoded + 1 = n
    BY <1>5, <2>1, <2>4, Sizes
  <2>6. n \in 1 .. len /\ n \in 1 .. WindowSize /\ n <= f.length /\ f.length # 0
    BY <1>1, <1>2, <1>5, <2>1, Sizes
  <2>7. ASSUME NEW k \in 1 .. n
        PROVE  window[(m.offset + k - 1) % WindowSize] = input[past + k]
    <3>1. k - 1 \in 0 .. f.length - 1 /\ k \in 1 .. len
      BY <1>1, <1>2, <2>6, Sizes
    <3>2. window[(f.offset + (k - 1)) % WindowSize] =
             lookahead[(uncodedHead + (k - 1)) % MaxCoded]
      BY <1>4, <2>6, <3>1 DEF Matches
    <3> QED
      BY <1>1, <1>3, <3>1, <3>2
  <2> HIDE DEF c, n
  <2>8. \E d : Token(m) = <<m.offset, d>> /\ d + MaxUncoded + 1 = n
    BY <2>1, <2>5
  <2> QED
    BY <1>7, <2>6, <2>7, <2>8 DEF n, m, f
<1> QED
  BY <1>6, <1>7

LEMMA Concatenated ==
    ASSUME NEW C, NEW s \in Seq(C), NEW t \in Seq(C)
    PROVE  /\ s \o t \in Seq(C) /\ Len(s \o t) = Len(s) + Len(t)
           /\ \A i \in 1 .. Len(s) : (s \o t)[i] = s[i]
           /\ \A i \in 1 .. Len(t) : (s \o t)[Len(s) + i] = t[i]
<1>1. Len(s) \in Nat /\ Len(t) \in Nat
  OBVIOUS
<1>2. \A i \in 1 .. Len(s) : i \in 1 .. Len(s) + Len(t) /\ i <= Len(s)
  BY <1>1
<1>3. \A i \in 1 .. Len(t) : /\ Len(s) + i \in 1 .. Len(s) + Len(t)
                             /\ ~ (Len(s) + i <= Len(s)) /\ Len(s) + i - Len(s) = i
  BY <1>1
<1> QED
  BY <1>2, <1>3, ConcatProperties

\* A file that consists of whole groups, of the flags of another, and of the
\* cells of its tokens.
LEMMA ThreeParts ==
    ASSUME NEW C, NEW o \in Seq(C), NEW g \in C, NEW e \in Seq(C)
    PROVE  LET S == o \o (<<g>> \o e)
           IN  /\ S \in Seq(C) /\ (o \o <<g>>) \o e = S
               /\ Len(S) = Len(o) + 1 + Len(e)
               /\ \A i \in 1 .. Len(o) : S[i] = o[i]
               /\ S[Len(o) + 1] = g
               /\ \A i \in 1 .. Len(e) : S[Len(o) + 1 + i] = e[i]
<1> DEFINE f == <<g>>
           r == f \o e
           S == o \o r
<1>1. f \in Seq(C) /\ Len(f) = 1 /\ f[1] = g
  OBVIOUS
<1> HIDE DEF f
<1>2. /\ r \in Seq(C) /\ Len(r) = 1 + Len(e) /\ r[1] = g
      /\ \A i \in 1 .. Len(e) : r[1 + i] = e[i]
  <2>1. /\ r \in Seq(C) /\ Len(r) = Len(f) + Len(e)
        /\ \A i \in 1 .. Len(f) : r[i] = f[i]
        /\ \A i \in 1 .. Len(e) : r[Len(f) + i] = e[i]
    <3>1. f \in Seq(C) /\ e \in Seq(C)
      BY <1>1
    <3> QED
      BY <3>1, Concatenated
  <2> HIDE DEF r
  <2> QED
    BY <1>1, <2>1
<1>3. (o \o f) \o e = S
  BY <1>1, ConcatAssociative
<1> HIDE DEF r
<1>4. /\ S \in Seq(C) /\ Len(S) = Len(o) + Len(r)
      /\ \A i \in 1 .. Len(o) : S[i] = o[i]
      /\ \A i \in 1 .. Len(r) : S[Len(o) + i] = r[i]
  <2>1. r \in Seq(C)
    BY <1>2
  <2> QED
    BY <2>1, Concatenated
<1> HIDE DEF S
<1>5. Len(o) \in Nat /\ Len(e) \in Nat
  OBVIOUS
<1>6. Len(S) = Len(o) + 1 + Len(e) /\ S[Len(o) + 1] = g
  <2>1. 1 \in 1 .. Len(r)
    BY <1>2, <1>5
  <2> QED
    BY <1>2, <1>4, <1>5, <2>1
<1>7. ASSUME NEW i \in 1 .. Len(e) PROVE S[Len(o) + 1 + i] = e[i]
  <2>1. 1 + i \in 1 .. Len(r) /\ Len(o) + 1 + i = Len(o) + (1 + i)
    BY <1>2, <1>5
  <2> QED
    BY <1>2, <1>4, <2>1
<1> QED
  BY <1>3, <1>4, <1>6, <1>7 DEF S, r, f
\* What Collect does to the file: the flag goes to the flags of the group in the
\* making, the token to the end of it.
LEMMA Collected ==
    ASSUME Collecting, phase = "encode", variant' = variant,
           NEW u \in BOOLEAN, NEW D, NEW t \in Seq(D), t # <<>>, Collect(u, t)
    PROVE  /\ flags' \in Seq(BOOLEAN) /\ Len(flags') < Flags(variant)
           /\ encodedData' = <<>> <=> flags' = <<>>
           /\ \E C : out' \in Seq(C) /\ encodedData' \in Seq(C)
           /\ Len(flags) \in Nat /\ Len(out) \in Nat /\ Len(encodedData) \in Nat
           /\ Len(flags) + 1 <= Flags(variant)
           /\ Len(FileSoFar') = Len(out) + 1 + Len(encodedData) + Len(t)
           /\ \A i \in 1 .. Len(FileSoFar) :
                 i # Len(out) + 1 => FileSoFar'[i] = FileSoFar[i]
           /\ FileSoFar'[Len(out) + 1] = Append(flags, u)
           /\ \A i \in 1 .. Len(t) :
                 FileSoFar'[Len(out) + 1 + Len(encodedData) + i] = t[i]
           /\ IF flags = <<>>
                THEN Len(FileSoFar) = Len(out) /\ Len(encodedData) = 0
                ELSE /\ Len(FileSoFar) = Len(out) + 1 + Len(encodedData)
                     /\ FileSoFar[Len(out) + 1] = flags
           /\ IF Len(flags) + 1 = Flags(variant)
                THEN flags' = <<>> /\ Len(out') = Len(FileSoFar')
                ELSE flags' = Append(flags, u) /\ out' = out
<1> DEFINE fs == Append(flags, u)
           es == encodedData \o t
           S == out \o (<<fs>> \o es)
<1>1. /\ flags \in Seq(BOOLEAN) /\ Len(flags) < Flags(variant)
      /\ encodedData = <<>> <=> flags = <<>>
  BY DEF Collecting
<1>2. PICK B : out \in Seq(B) /\ encodedData \in Seq(B)
  BY DEF Collecting
<1> DEFINE C == (B \cup D) \cup (Seq(BOOLEAN))
<1>3. out \in Seq(C) /\ encodedData \in Seq(C) /\ t \in Seq(C)
  BY <1>2
<1>4. fs \in Seq(BOOLEAN) /\ fs # <<>> /\ Len(fs) = Len(flags) + 1 /\ fs \in C /\ flags \in C
  BY <1>1
<1> HIDE DEF C, fs
<1>5. /\ es \in Seq(C) /\ Len(es) = Len(encodedData) + Len(t)
      /\ \A i \in 1 .. Len(encodedData) : es[i] = encodedData[i]
      /\ \A i \in 1 .. Len(t) : es[Len(encodedData) + i] = t[i]
  BY <1>3, Concatenated
<1>6. Len(out) \in Nat /\ Len(encodedData) \in Nat /\ Len(t) \in Nat \ {0} /\ Len(flags) \in Nat
      /\ Flags(variant) \in Nat
  BY <1>1, <1>3, Sizes DEF Flags
<1> HIDE DEF es
<1>7. es # <<>>
  BY <1>5, <1>6
<1>8. /\ S \in Seq(C) /\ (out \o <<fs>>) \o es = S
      /\ Len(S) = Len(out) + 1 + Len(es)
      /\ \A i \in 1 .. Len(out) : S[i] = out[i]
      /\ S[Len(out) + 1] = fs
      /\ \A i \in 1 .. Len(es) : S[Len(out) + 1 + i] = es[i]
  <2>1. out \in Seq(C) /\ fs \in C /\ es \in Seq(C)
    BY <1>3, <1>4, <1>5
  <2> QED
    BY <2>1, ThreeParts
<1>9. /\ FileSoFar' = S
      /\ flags' \in Seq(BOOLEAN) /\ Len(flags') < Flags(variant)
      /\ encodedData' = <<>> <=> flags' = <<>>
      /\ out' \in Seq(C) /\ encodedData' \in Seq(C)
      /\ IF Len(flags) + 1 = Flags(variant)
           THEN flags' = <<>> /\ Len(out') = Len(FileSoFar')
           ELSE flags' = fs /\ out' = out
  <2>1. FileSoFar' = out' \o (IF encodedData' = <<>> THEN <<>> ELSE <<flags'>> \o encodedData')
    BY DEF FileSoFar, Pending
  <2>2. CASE Len(fs) = Flags(variant)
    <3>1. out' = (out \o <<fs>>) \o es /\ flags' = <<>> /\ encodedData' = <<>>
      BY <2>2 DEF Collect, fs, es
    <3>2. out' = S
      BY <1>8, <3>1
    <3>3. FileSoFar' = S \o <<>>
      BY <2>1, <3>1, <3>2
    <3> HIDE DEF S
    <3>4. FileSoFar' = S
      BY <1>8, <3>3
    <3>5. Len(<<>>) = 0 /\ <<>> \in Seq(BOOLEAN) /\ <<>> \in Seq(C)
      OBVIOUS
    <3>6. flags' \in Seq(BOOLEAN) /\ Len(flags') < Flags(variant)
      BY <1>4, <1>6, <2>2, <3>1, <3>5
    <3>7. out' \in Seq(C) /\ encodedData' \in Seq(C)
      BY <1>8, <3>1, <3>2, <3>5
    <3>8. Len(flags) + 1 = Flags(variant) /\ Len(out') = Len(FileSoFar')
      BY <1>4, <2>2, <3>2, <3>4
    <3> QED
      BY <3>1, <3>4, <3>6, <3>7, <3>8
  <2>3. CASE Len(fs) # Flags(variant)
    <3>1. out' = out /\ flags' = fs /\ encodedData' = es
      BY <2>3 DEF Collect, fs, es
    <3>2. FileSoFar' = S
      BY <1>7, <2>1, <3>1
    <3> HIDE DEF S
    <3>3. Len(fs) < Flags(variant)
      BY <1>1, <1>4, <1>6, <2>3
    <3> QED
      BY <1>3, <1>4, <1>5, <1>7, <2>3, <3>1, <3>2, <3>3
  <2> QED
    BY <2>2, <2>3
<1>10. /\ Len(flags) + 1 <= Flags(variant)
       /\ Len(FileSoFar') = Len(out) + 1 + Len(encodedData) + Len(t)
       /\ FileSoFar'[Len(out) + 1] = fs
  <2> HIDE DEF S
  <2>1. Len(flags) + 1 <= Flags(variant)
    BY <1>1, <1>6
  <2>2. Len(S) = Len(out) + 1 + Len(encodedData) + Len(t)
    BY <1>5, <1>6, <1>8
  <2> QED
    BY <1>8, <1>9, <2>1, <2>2
<1>11. ASSUME NEW i \in 1 .. Len(t)
       PROVE  FileSoFar'[Len(out) + 1 + Len(encodedData) + i] = t[i]
  <2> HIDE DEF S
  <2>1. /\ Len(encodedData) + i \in 1 .. Len(es)
        /\ Len(out) + 1 + Len(encodedData) + i = Len(out) + 1 + (Len(encodedData) + i)
    BY <1>5, <1>6
  <2> QED
    BY <1>5, <1>8, <1>9, <2>1
<1>12. CASE flags = <<>>
  <2>1. FileSoFar = out \o <<>> /\ Len(encodedData) = 0
    BY <1>1, <1>12 DEF FileSoFar, Pending
  <2>2. FileSoFar = out
    BY <1>3, <2>1
  <2>3. \A i \in 1 .. Len(FileSoFar) : i # Len(out) + 1 => FileSoFar'[i] = FileSoFar[i]
    BY <1>8, <1>9, <2>2
  <2> QED
    BY <1>3, <1>6, <1>9, <1>10, <1>11, <1>12, <2>1, <2>2, <2>3 DEF fs
<1>13. CASE flags # <<>>
  <2> DEFINE R == out \o (<<flags>> \o encodedData)
  <2>1. FileSoFar = R
    BY <1>1, <1>13 DEF FileSoFar, Pending
  <2>2. /\ Len(R) = Len(out) + 1 + Len(encodedData)
        /\ \A i \in 1 .. Len(out) : R[i] = out[i]
        /\ R[Len(out) + 1] = flags
        /\ \A i \in 1 .. Len(encodedData) : R[Len(out) + 1 + i] = encodedData[i]
    BY <1>3, <1>4, ThreeParts
  <2> HIDE DEF R, S
  <2>3. ASSUME NEW i \in 1 .. Len(FileSoFar), i # Len(out) + 1
        PROVE  FileSoFar'[i] = FileSoFar[i]
    <3>1. CASE i <= Len(out)
      BY <1>6, <1>8, <1>9, <2>1, <2>2, <3>1
    <3>2. CASE i > Len(out)
      <4> DEFINE j == i - (Len(out) + 1)
      <4>1. j \in 1 .. Len(encodedData) /\ i = Len(out) + 1 + j /\ j \in 1 .. Len(es)
        BY <1>5, <1>6, <2>1, <2>2, <2>3, <3>2
      <4> HIDE DEF j
      <4> QED
        BY <1>5, <1>8, <1>9, <2>1, <2>2, <4>1
    <3> QED
      BY <1>6, <3>1, <3>2
  <2> QED
    BY <1>3, <1>6, <1>9, <1>10, <1>11, <1>13, <2>1, <2>2, <2>3 DEF fs
<1> QED
  BY <1>12, <1>13

\* A token stays one when the file grows at its end and in the flags of the
\* group in the making, the cell f, which is no part of it.
LEMMA TokenKept ==
    ASSUME NEW inp, NEW old, NEW new, NEW g, NEW f, NEW p \in Places, NEW q \in Places,
           IsToken(inp, old, g, p, q), f \notin Before(p) + 1 .. q.read,
           Len(old) \in Nat, Len(new) \in Nat, Len(old) <= Len(new),
           \A i \in 1 .. Len(old) : i # f => new[i] = old[i],
           f \in 1 .. Len(old) =>
              \A b \in 1 .. Len(old[f]) : b \in 1 .. Len(new[f]) /\ new[f][b] = old[f][b]
    PROVE  IsToken(inp, new, g, p, q)
<1> DEFINE c == FlagCell(p)
           b == Before(p)
<1>1. c \in 1 .. Len(old) /\ p.bit \in 1 .. Len(old[c]) /\ q.read <= Len(old)
  BY DEF IsToken
<1>2. c \in 1 .. Len(new) /\ q.read <= Len(new)
  BY <1>1 DEF Places
<1>3. p.bit \in 1 .. Len(new[c]) /\ new[c][p.bit] = old[c][p.bit]
  <2>1. CASE c = f
    BY <1>1, <2>1
  <2>2. CASE c # f
    BY <1>1, <2>2
  <2> QED
    BY <2>1, <2>2
<1>4. b \in Nat
  BY DEF Before, Places
<1>5. IsLiteral(inp, old, p, q) => IsLiteral(inp, new, p, q)
  <2> SUFFICES ASSUME IsLiteral(inp, old, p, q) PROVE IsLiteral(inp, new, p, q)
    OBVIOUS
  <2>1. q.read = b + 1
    BY DEF IsLiteral, Moves
  <2>2. b + 1 \in 1 .. Len(old) /\ b + 1 # f
    BY <1>1, <1>4, <2>1
  <2>3. new[b + 1] = old[b + 1]
    BY <2>2
  <2> QED
    BY <1>3, <2>3 DEF IsLiteral
<1>6. IsCopy(inp, old, p, q) => IsCopy(inp, new, p, q)
  <2> SUFFICES ASSUME IsCopy(inp, old, p, q) PROVE IsCopy(inp, new, p, q)
    OBVIOUS
  <2>1. q.read = b + 2
    BY DEF IsCopy, Moves
  <2>2. b + 1 \in 1 .. Len(old) /\ b + 1 # f /\ b + 2 \in 1 .. Len(old) /\ b + 2 # f
    BY <1>1, <1>4, <2>1
  <2>3. new[b + 1] = old[b + 1] /\ new[b + 2] = old[b + 2]
    BY <2>2
  <2> QED
    BY <1>3, <2>3 DEF IsCopy
<1> QED
  BY <1>2, <1>3, <1>5, <1>6 DEF IsToken
\* The symbols a turn replaces are the next ones of the input.
LEMMA NextIsInput ==
    ASSUME IInv, phase = "encode", NEW n \in 1 .. len
    PROVE  LET s == NextOf(lookahead, uncodedHead, n)
           IN  Len(s) = n /\ \A k \in 1 .. n : s[k] = input[read - len + k]
<1>1. \A k \in 1 .. len :
         lookahead[(uncodedHead + k - 1) % MaxCoded] = input[read - len + k]
  BY DEF IInv, BuffersFollowInput
<1>2. n \in Nat /\ \A k \in 1 .. n : k \in 1 .. len
  BY DEF IInv, TypeOK
<1> QED
  BY <1>1, <1>2 DEF NextOf

-----------------------------------------------------------------------------
(* The steps.                                                              *)

LEMMA EncodeFile == ASSUME FileInv, ListInv, EncodeToken PROVE FileInv'
<1> DEFINE m == Clipped(FindMatch)
           n == TokenLength(m)
           t == Token(m)
           u == ~ IsCoded(m)
           next == NextOf(lookahead, uncodedHead, n)
           past == read - len
           g == Flags(variant)
           new == FileSoFar'
<1>1. /\ phase = "encode" /\ phase' = "encode" /\ len > 0
      /\ Collect(u, t)
      /\ window' = Slid(window, windowHead, next)
      /\ windowHead' = Advanced(windowHead, n, WindowSize)
      /\ UNCHANGED <<variant, input, decoded>>
  BY DEF EncodeToken, MoreToEncode
<1>2. IInv /\ IInv'
  BY EncodeStep DEF FileInv
<1>3. /\ n \in 1 .. len /\ past \in Nat /\ past + len <= Len(input) /\ Len(input) \in Nat
      /\ windowHead \in WindowIndex /\ windowHead' \in WindowIndex /\ len \in 1 .. MaxCoded
  BY <1>1, <1>2, TokenFits, Sizes DEF IInv, TypeOK, LookaheadFull
<1>4. read' - len' = past + n /\ past + n \in Nat /\ past + n <= Len(input)
  <2> DEFINE fresh == Min({n, Len(input) - read})
  <2>1. len' = len - (n - fresh) /\ read' = read + fresh
    BY DEF EncodeToken
  <2>2. read \in Nat /\ len \in Nat /\ n \in Nat
    BY <1>2, <1>3, Sizes DEF IInv, TypeOK
  <2>3. fresh \in Int
    <3> HIDE DEF n
    <3>1. Len(input) - read \in Int /\ n \in Int
      BY <1>3, <2>2
    <3> QED
      BY <3>1, MinOfTwo
  <2> HIDE DEF fresh, n
  <2> QED
    BY <1>3, <2>1, <2>2, <2>3
<1>5. /\ u => n = 1 /\ t = <<input[past + 1]>>
      /\ ~ u =>
            /\ n \in 1 .. WindowSize
            /\ \E c : t = <<m.offset, c>> /\ c + MaxUncoded + 1 = n
            /\ \A k \in 1 .. n :
                  window[(m.offset + k - 1) % WindowSize] = input[past + k]
  BY <1>1, <1>2, TokenStands
<1>6. u \in BOOLEAN /\ t # <<>> /\ \E D : t \in Seq(D)
  <2> DEFINE off == m.offset
  <2>1. u \in BOOLEAN
    BY DEF IsCoded
  <2>2. CASE u
    <3>1. t = <<input[past + 1]>>
      BY <1>5, <2>2
    <3> HIDE DEF t, u, past
    <3>2. t # <<>> /\ t \in Seq({input[past + 1]})
      BY <3>1
    <3> QED
      BY <2>1, <3>2
  <2>3. CASE ~ u
    <3>1. PICK c : t = <<off, c>>
      BY <1>5, <2>3
    <3> HIDE DEF t, u, off
    <3>2. t # <<>> /\ t \in Seq({off, c})
      BY <3>1
    <3> QED
      BY <2>1, <3>2
  <2> QED
    BY <2>2, <2>3
<1>7. Len(next) = n /\ \A k \in 1 .. n : next[k] = input[past + k]
  BY <1>1, <1>2, <1>3, NextIsInput
<1> HIDE DEF m, n, t, u, next
<1>8. window = WindowAt(input, past, windowHead)
  BY <1>1 DEF FileInv, Collecting
<1>9. window' = WindowAt(input, past + n, windowHead')
  <2>1. n \in 0 .. WindowSize
    BY <1>3, Sizes
  <2> HIDE DEF past
  <2> QED
    BY <1>1, <1>3, <1>7, <1>8, <2>1, WindowMoves
<1> HIDE DEF new
<1>10. /\ flags' \in Seq(BOOLEAN) /\ Len(flags') < g
       /\ encodedData' = <<>> <=> flags' = <<>>
       /\ \E C : out' \in Seq(C) /\ encodedData' \in Seq(C)
       /\ Len(flags) \in Nat /\ Len(out) \in Nat /\ Len(encodedData) \in Nat
       /\ Len(flags) + 1 <= g
       /\ Len(new) = Len(out) + 1 + Len(encodedData) + Len(t)
       /\ \A i \in 1 .. Len(FileSoFar) :
             i # Len(out) + 1 => new[i] = FileSoFar[i]
       /\ new[Len(out) + 1] = Append(flags, u)
       /\ \A i \in 1 .. Len(t) : new[Len(out) + 1 + Len(encodedData) + i] = t[i]
       /\ IF flags = <<>>
            THEN Len(FileSoFar) = Len(out) /\ Len(encodedData) = 0
            ELSE /\ Len(FileSoFar) = Len(out) + 1 + Len(encodedData)
                 /\ FileSoFar[Len(out) + 1] = flags
       /\ IF Len(flags) + 1 = g
            THEN flags' = <<>> /\ Len(out') = Len(new)
            ELSE flags' = Append(flags, u) /\ out' = out
  BY <1>1, <1>6, Collected DEF FileInv, new
<1>11. flags \in Seq(BOOLEAN)
  BY <1>1 DEF FileInv, Collecting
<1>12. /\ Append(flags, u) \in Seq(BOOLEAN)
       /\ Len(Append(flags, u)) = Len(flags) + 1
       /\ \A b \in 1 .. Len(flags) : Append(flags, u)[b] = flags[b]
       /\ Append(flags, u)[Len(flags) + 1] = u
  BY <1>6, <1>11
<1>13. Collecting'
  BY <1>1, <1>4, <1>9, <1>10 DEF Collecting, FileInv
<1>14. Len(t) \in Nat /\ Len(t) = IF u THEN 1 ELSE 2
  <2>1. CASE u
    BY <1>5, <2>1
  <2>2. CASE ~ u
    <3>1. PICK c : t = <<m.offset, c>>
      BY <1>5, <2>2
    <3> QED
      BY <2>2, <3>1
  <2> QED
    BY <2>1, <2>2
<1> HIDE DEF past, g
<1>15. PICK e \in Places :
          /\ e.at = Len(out) + 1
          /\ e.bit = IF Len(flags) + 1 = g THEN 1 ELSE Len(flags) + 2
          /\ e.read = Len(new) /\ e.from = past + n /\ e.head = windowHead'
  <2> DEFINE x == [at |-> Len(out) + 1,
                   bit |-> IF Len(flags) + 1 = g THEN 1 ELSE Len(flags) + 2,
                   read |-> Len(new), from |-> past + n, head |-> windowHead']
  <2>1. x \in Places
    BY <1>3, <1>4, <1>10, <1>14, SMTT(30) DEF Places
  <2> QED
    BY <2>1
<1>16. EncoderAt(e)'
  <2>1. Len(<<>>) = 0
    OBVIOUS
  <2>2. e.read = Len(new) /\ e.from = read' - len' /\ e.head = windowHead'
    BY <1>4, <1>15
  <2>3. e.bit = Len(flags') + 1 /\ (e.bit > 1 => e.at = Len(out') + 1)
    <3>1. CASE Len(flags) + 1 = g
      BY <1>10, <1>15, <2>1, <3>1
    <3>2. CASE Len(flags) + 1 # g
      BY <1>10, <1>12, <1>15, <3>2
    <3> QED
      BY <3>1, <3>2
  <2> QED
    BY <2>2, <2>3 DEF EncoderAt, new
<1> DEFINE whole == Len(out)
           cells == Len(encodedData)
           bits == Len(flags)
           size == Len(new)
           sized == Len(FileSoFar)
<1>17. /\ bits \in Nat /\ whole \in Nat /\ cells \in Nat /\ bits + 1 <= g
       /\ size = whole + 1 + cells + Len(t) /\ Len(t) \in 1 .. 2
       /\ whole < sized => sized = whole + 1 + cells
       /\ sized <= size /\ sized \in Nat /\ size \in Nat
       /\ Len(out') + 1 = whole + 1 \/ Len(out') + 1 = size + 1
  <2>1. /\ bits \in Nat /\ whole \in Nat /\ cells \in Nat /\ bits + 1 <= g
        /\ size = whole + 1 + cells + Len(t)
        /\ Len(out') = whole \/ Len(out') = size
    BY <1>10
  <2>2. sized = whole \/ sized = whole + 1 + cells
    BY <1>10
  <2>3. Len(t) \in 1 .. 2
    BY <1>14
  <2> HIDE DEF size, sized, whole, cells, bits
  <2> QED
    BY <2>1, <2>2, <2>3
<1>18. ASSUME NEW p \in Places, EncoderAt(p)
       PROVE  /\ IsToken(input, new, g, p, e)
              /\ Before(p) = Len(out) + 1 + Len(encodedData)
  <2>1. /\ p.read = Len(FileSoFar) /\ p.from = past /\ p.head = windowHead
        /\ p.bit = Len(flags) + 1 /\ (p.bit > 1 => p.at = Len(out) + 1)
    BY <1>18 DEF EncoderAt, past
  <2>2. FlagCell(p) = Len(out) + 1 /\ Before(p) = Len(out) + 1 + Len(encodedData)
    <3>1. CASE flags = <<>>
      BY <1>10, <2>1, <3>1 DEF FlagCell, Before
    <3>2. CASE flags # <<>>
      <4>1. Len(flags) # 0
        BY <1>11, <3>2
      <4> QED
        <5>1. p.bit > 1 /\ p.bit # 1
          BY <1>17, <2>1, <4>1
        <5>2. Len(FileSoFar) = Len(out) + 1 + Len(encodedData)
          BY <1>10, <3>2
        <5> QED
          BY <2>1, <5>1, <5>2 DEF FlagCell, Before
    <3> QED
      BY <3>1, <3>2
  <2>3. /\ FlagCell(p) \in 1 .. Len(new)
        /\ p.bit \in 1 .. g /\ p.bit \in 1 .. Len(new[FlagCell(p)])
        /\ new[FlagCell(p)][p.bit] = u
    BY <1>10, <1>12, <1>14, <2>1, <2>2
  <2>4. /\ e.at = FlagCell(p) /\ e.bit = IF p.bit = g THEN 1 ELSE p.bit + 1
        /\ e.read <= Len(new) /\ e.from <= Len(input)
    <3>1. e.bit = IF p.bit = g THEN 1 ELSE p.bit + 1
      BY <1>15, <1>17, <2>1
    <3>2. e.read <= Len(new) /\ e.from <= Len(input)
      BY <1>4, <1>15, <1>17
    <3> QED
      BY <1>15, <2>2, <3>1, <3>2
  <2>5. Moves(p, e, Len(t), n)
    BY <1>1, <1>10, <1>15, <2>1, <2>2 DEF Moves
  <2>6. \A i \in 1 .. Len(t) : new[Before(p) + i] = t[i]
    BY <1>10, <2>2
  <2>7. CASE u
    <3>1. Len(t) = 1 /\ n = 1 /\ t[1] = input[past + 1]
      BY <1>5, <2>7
    <3>2. new[Before(p) + 1] = input[p.from + 1]
      BY <2>1, <2>6, <3>1
    <3> QED
      BY <2>2, <2>3, <2>4, <2>5, <2>7, <3>1, <3>2 DEF IsToken, IsLiteral
  <2>8. CASE ~ u
    <3>1. PICK c : t = <<m.offset, c>> /\ c + MaxUncoded + 1 = n
      BY <1>5, <2>8
    <3>2. Len(t) = 2 /\ t[1] = m.offset /\ t[2] = c
      BY <3>1
    <3>3. new[Before(p) + 1] = m.offset /\ new[Before(p) + 2] = c
      BY <2>6, <3>2
    <3>4. new[Before(p) + 2] + MaxUncoded + 1 = n /\ n \in 1 .. WindowSize
      BY <1>5, <2>8, <3>1, <3>3
    <3>5. \A k \in 1 .. n : WindowAt(input, p.from, p.head)
                 [(new[Before(p) + 1] + k - 1) % WindowSize] = input[p.from + k]
      BY <1>5, <1>8, <2>1, <2>8, <3>3 DEF past
    <3>6. IsCopy(input, new, p, e)
      BY <2>3, <2>5, <2>8, <3>2, <3>4, <3>5 DEF IsCopy
    <3> QED
      BY <2>2, <2>3, <2>4, <3>6 DEF IsToken
  <2> QED
    BY <2>7, <2>8
<1>19. PICK P \in SUBSET Places :
          /\ Beginning \in P
          /\ \A p \in P :
                \/ EncoderAt(p)
                \/ \E q \in P : /\ IsToken(input, FileSoFar, g, p, q)
                                /\ Len(out) + 1 \notin Before(p) + 1 .. q.read
  BY <1>1 DEF FileInv, EncodedRight, g
<1>20. ASSUME NEW p \in P
       PROVE  \E q \in P \cup {e} : /\ IsToken(input, new, g, p, q)
                                    /\ Len(out') + 1 \notin Before(p) + 1 .. q.read
  <2>1. CASE EncoderAt(p)
    <3>1. /\ IsToken(input, new, g, p, e)
          /\ Before(p) = Len(out) + 1 + Len(encodedData)
      BY <1>18, <2>1
    <3>2. Len(out') + 1 \notin Before(p) + 1 .. e.read
      <4>1. Before(p) = whole + 1 + cells /\ e.read = size
        BY <1>15, <3>1
      <4> HIDE DEF whole, cells, size, bits, sized
      <4> QED
        BY <1>17, <4>1
    <3> QED
      BY <3>1, <3>2
  <2>2. CASE ~ EncoderAt(p)
    <3>1. PICK q \in P : /\ IsToken(input, FileSoFar, g, p, q)
                         /\ Len(out) + 1 \notin Before(p) + 1 .. q.read
      BY <1>19, <2>2
    <3>2. /\ Len(FileSoFar) \in Nat /\ Len(new) \in Nat /\ Len(FileSoFar) <= Len(new)
      BY SMTT(30), <1>10, <1>14
    <3>3. Len(out) + 1 \in 1 .. Len(FileSoFar) =>
             \A b \in 1 .. Len(FileSoFar[Len(out) + 1]) :
                /\ b \in 1 .. Len(new[Len(out) + 1])
                /\ new[Len(out) + 1][b] = FileSoFar[Len(out) + 1][b]
      <4>1. CASE flags = <<>>
        BY <1>10, <4>1
      <4>2. CASE flags # <<>>
        BY <1>10, <1>12, <4>2, SMTT(30)
      <4> QED
        BY <4>1, <4>2
    <3>4. p \in Places /\ q \in Places
      OBVIOUS
    <3>5. IsToken(input, new, g, p, q)
      <4>1. \A i \in 1 .. Len(FileSoFar) : i # Len(out) + 1 => new[i] = FileSoFar[i]
        BY <1>10
      <4> QED
        BY <3>1, <3>2, <3>3, <3>4, <4>1, TokenKept
    <3>6. q.read <= Len(FileSoFar) /\ q.read \in Nat /\ Before(p) \in Nat
      BY <3>1, <3>4 DEF IsToken, Places, Before
    <3>7. Len(out') + 1 \notin Before(p) + 1 .. q.read
      <4>1. q.read <= sized /\ whole + 1 \notin Before(p) + 1 .. q.read
        BY <3>1, <3>6
      <4> HIDE DEF whole, cells, size, bits, sized
      <4> QED
        BY <1>17, <3>6, <4>1
    <3> QED
      BY <3>1, <3>5, <3>7
  <2> QED
    BY <2>1, <2>2
<1>21. EncodedRight'
  <2> DEFINE Q == P \cup {e}
  <2>1. Q \in SUBSET Places /\ Beginning \in Q
    BY <1>19
  <2>2. \A p \in Q : \/ EncoderAt(p)'
                     \/ \E q \in Q :
                           /\ IsToken(input', FileSoFar', Flags(variant'), p, q)
                           /\ Len(out') + 1 \notin Before(p) + 1 .. q.read
    BY <1>1, <1>16, <1>20 DEF g, new
  <2> HIDE DEF Q
  <2> QED
    BY <2>1, <2>2 DEF EncodedRight
<1>22. DecodesRight' /\ DecodedSoFar'
  BY <1>1 DEF FileInv, DecodesRight, DecodedSoFar
<1> QED
  BY <1>2, <1>13, <1>21, <1>22 DEF FileInv

LEMMA StartFile == ASSUME FileInv, StartEncoding PROVE FileInv'
<1>1. /\ phase = "start" /\ phase' = "encode" /\ read' = len'
      /\ UNCHANGED <<variant, input, window, windowHead, flags, encodedData, out, decoded>>
  BY DEF StartEncoding
<1>2. IInv' /\ IInv
  BY StartStep DEF FileInv
<1>3. read - len = 0 /\ read' - len' = 0
  <2>1. read = 0 /\ len = 0
    BY <1>1, <1>2 DEF IInv, AtStart
  <2>2. read' \in Int /\ len' \in Int /\ read' = len'
    BY <1>1, <1>2 DEF IInv, TypeOK
  <2>3. read - len = 0
    BY <2>1
  <2>4. read' - len' = 0
    <3>1. \A n \in Int : n - n = 0
      OBVIOUS
    <3>2. len' - len' = 0
      BY <2>2, <3>1
    <3> QED
      BY <2>2, <3>2
  <2> QED
    BY <2>3, <2>4
<1>4. FileSoFar' = FileSoFar
  BY <1>1 DEF FileSoFar, Pending
<1>5. \A p : EncoderAt(p) => EncoderAt(p)'
  BY <1>1, <1>3, <1>4 DEF EncoderAt
<1>6. Collecting'
  BY <1>1, <1>3 DEF FileInv, Collecting
<1>7. EncodedRight'
  <2>1. PICK P \in SUBSET Places :
          /\ Beginning \in P
          /\ \A p \in P :
                \/ EncoderAt(p)
                \/ \E q \in P :
                      /\ IsToken(input, FileSoFar, Flags(variant), p, q)
                      /\ Len(out) + 1 \notin Before(p) + 1 .. q.read
    BY <1>1 DEF FileInv, EncodedRight
  <2>2. \A p \in P :
           \/ EncoderAt(p)'
           \/ \E q \in P :
                 /\ IsToken(input', FileSoFar', Flags(variant'), p, q)
                 /\ Len(out') + 1 \notin Before(p) + 1 .. q.read
    BY <1>1, <1>4, <1>5, <2>1
  <2> QED
    BY <2>1, <2>2 DEF EncodedRight
<1>8. DecodesRight' /\ DecodedSoFar'
  BY <1>1 DEF FileInv, DecodesRight, DecodedSoFar
<1> QED
  BY <1>2, <1>6, <1>7, <1>8 DEF FileInv

LEMMA FinishFile == ASSUME FileInv, FinishEncoding PROVE FileInv'
<1>1. /\ phase = "encode" /\ phase' = "decode" /\ ~ MoreToEncode
      /\ out' = FileSoFar /\ read' = 0 /\ flags' = <<>> /\ windowHead' = 0
      /\ window' = [p \in WindowIndex |-> Space]
      /\ UNCHANGED <<variant, input, len, decoded>>
  BY DEF FinishEncoding, FileSoFar
<1>2. IInv /\ IInv'
  <2>1. [Next]_vars
    BY DEF Next
  <2> QED
    BY <2>1, InvStep DEF FileInv
<1>3. /\ len \in 0 .. MaxCoded /\ read \in Nat /\ Len(input) \in Nat
      /\ len <= read /\ read <= Len(input) /\ (len < MaxCoded => read = Len(input))
  BY <1>1, <1>2 DEF IInv, TypeOK, LookaheadFull
<1>4. read - len = Len(input) - len /\ (variant # "opencl" => len = 0)
  BY <1>1, <1>3, Sizes DEF MoreToEncode
<1>5. /\ flags \in Seq(BOOLEAN) /\ Len(flags) \in Nat /\ Len(flags) < Flags(variant)
      /\ Flags(variant) \in Nat
      /\ encodedData = <<>> <=> flags = <<>>
      /\ decoded = <<>> /\ Len(decoded) = 0
  BY <1>1, Sizes DEF FileInv, Collecting, Flags
<1>6. Len(FileSoFar) \in Nat
  <2>1. PICK C : out \in Seq(C) /\ encodedData \in Seq(C)
    BY <1>1 DEF FileInv, Collecting
  <2> DEFINE D == C \cup Seq(BOOLEAN)
  <2>2. out \in Seq(D) /\ encodedData \in Seq(D) /\ flags \in D
    BY <1>5, <2>1
  <2> HIDE DEF D
  <2>3. Pending \in Seq(D)
    BY <2>2 DEF Pending
  <2> QED
    BY <2>2, <2>3 DEF FileSoFar
<1>7. PICK P \in SUBSET Places :
         /\ Beginning \in P
         /\ \A p \in P :
               \/ EncoderAt(p)
               \/ \E q \in P :
                     /\ IsToken(input, FileSoFar, Flags(variant), p, q)
                     /\ Len(out) + 1 \notin Before(p) + 1 .. q.read
  BY <1>1 DEF FileInv, EncodedRight
<1>8. ASSUME NEW p \in P, EncoderAt(p)
      PROVE  EndOfFile(p)'
  BY <1>1, <1>4, <1>5, <1>8 DEF EncoderAt, EndOfFile
<1>9. \A p \in P : EndOfFile(p)' \/ \E q \in P : IsToken(input', out', Flags(variant'), p, q)
  BY <1>1, <1>7, <1>8
<1>10. DecoderAt(Beginning)'
  <2>1. window' = WindowAt(input, 0, 0)
    <3>1. 0 \in WindowIndex
      BY Sizes DEF WindowIndex
    <3> QED
      BY <1>1, <3>1, WindowOfSpaces
  <2>2. Len(<<>>) = 0 /\ <<>> \in Seq(BOOLEAN)
    OBVIOUS
  <2> QED
    BY <1>1, <1>5, <2>1, <2>2 DEF DecoderAt, Beginning
<1>11. DecodesRight'
  <2>1. Len(out') \in Nat
    BY <1>1, <1>6
  <2> QED
    BY <1>7, <1>9, <1>10, <2>1 DEF DecodesRight
<1>12. Collecting' /\ EncodedRight'
  BY <1>1 DEF Collecting, EncodedRight
<1>13. DecodedSoFar'
  BY <1>1, <1>4 DEF FileInv, DecodedSoFar
<1> QED
  BY <1>2, <1>11, <1>12, <1>13 DEF FileInv

LEMMA InitFile == Init => FileInv
<1> SUFFICES ASSUME Init PROVE FileInv
  OBVIOUS
<1>1. /\ phase = "start" /\ read = 0 /\ len = 0 /\ windowHead = 0
      /\ window = [p \in WindowIndex |-> Space]
      /\ flags = <<>> /\ encodedData = <<>> /\ out = <<>> /\ decoded = <<>>
  BY DEF Init
<1>2. IInv
  BY InvInit
<1>3. 0 \in WindowIndex /\ WindowAt(input, 0, 0) = [x \in WindowIndex |-> Space]
  BY Sizes, WindowOfSpaces DEF WindowIndex
<1>4. Len(<<>>) = 0 /\ <<>> \in Seq(BOOLEAN) /\ \A C : <<>> \in Seq(C)
  OBVIOUS
<1>5. Flags(variant) \in Nat \ {0}
  BY Sizes DEF Flags
<1>6. Collecting
  BY <1>1, <1>3, <1>4, <1>5 DEF Collecting
<1>7. Len(FileSoFar) = 0
  BY <1>1, <1>4 DEF FileSoFar, Pending
<1>8. Beginning \in Places /\ EncoderAt(Beginning)
  BY <1>1, <1>3, <1>4, <1>7 DEF Beginning, Places, EncoderAt
<1>9. EncodedRight
  <2> DEFINE P == {Beginning}
  <2>1. P \in SUBSET Places /\ Beginning \in P /\ \A p \in P : EncoderAt(p)
    BY <1>8
  <2> HIDE DEF P
  <2> QED
    BY <2>1 DEF EncodedRight
<1>10. DecodesRight /\ DecodedSoFar
  <2>1. Len(input) \in Nat /\ <<>> \in Seq(Symbols)
    BY <1>2 DEF IInv, TypeOK
  <2> QED
    BY <1>1, <1>4, <2>1 DEF DecodesRight, DecodedSoFar
<1> QED
  BY <1>2, <1>6, <1>9, <1>10 DEF FileInv

LEMMA PaddedFlags ==
    ASSUME NEW fs
    PROVE  /\ Padded(fs) \in Seq(BOOLEAN) /\ Len(Padded(fs)) = Flags(variant)
           /\ \A k \in 1 .. Flags(variant) :
                 k \in 1 .. Len(fs) =>
                    /\ fs[k] = TRUE => Padded(fs)[k] = TRUE
                    /\ fs[k] = FALSE => Padded(fs)[k] = FALSE
<1> DEFINE g == Flags(variant)
           s == Padded(fs)
<1>1. g \in Nat
  BY Sizes DEF Flags
<1> HIDE DEF g
<1>2. s = [k \in 1 .. g |-> k <= Len(fs) /\ fs[k]]
  BY DEF Padded, g
<1>3. s \in [1 .. g -> BOOLEAN]
  BY <1>2
<1> HIDE DEF s
<1>4. s \in Seq(BOOLEAN) /\ Len(s) = g
  BY <1>1, <1>3
<1>5. ASSUME NEW k \in 1 .. g, k \in 1 .. Len(fs)
      PROVE  (fs[k] = TRUE => s[k] = TRUE) /\ (fs[k] = FALSE => s[k] = FALSE)
  <2>1. s[k] = (k <= Len(fs) /\ fs[k])
    BY <1>2
  <2>2. k <= Len(fs)
    BY <1>5
  <2> QED
    BY <2>1, <2>2
<1> QED
  BY <1>4, <1>5 DEF s, g

\* Where the flags and the cells of the next token are, and that it is there.
LEMMA NextToken ==
    ASSUME FileInv, NEW p \in Places, NEW q \in Places, DecoderAt(p),
           Len(out) \in Nat, IsToken(input, out, Flags(variant), p, q)
    PROVE  /\ ReadNow = Before(p) /\ TokenThere
           /\ Head(FlagsNow) = out[FlagCell(p)][p.bit]
           /\ Tail(FlagsNow) \in Seq(BOOLEAN)
           /\ Len(Tail(FlagsNow)) = IF q.bit = 1 THEN 0 ELSE Flags(variant) - q.bit + 1
           /\ q.bit > 1 =>
                 \A k \in 1 .. Len(Tail(FlagsNow)) :
                    Tail(FlagsNow)[k] = Padded(out[q.at])[q.bit + k - 1]
<1> DEFINE g == Flags(variant)
           s == Padded(out[FlagCell(p)])
           now == FlagsNow
<1>1. /\ FlagCell(p) \in 1 .. Len(out)
      /\ p.bit \in 1 .. g /\ p.bit \in 1 .. Len(out[FlagCell(p)])
      /\ q.at = FlagCell(p) /\ q.bit = IF p.bit = g THEN 1 ELSE p.bit + 1
      /\ q.read <= Len(out)
      /\ \/ out[FlagCell(p)][p.bit] = TRUE /\ q.read = Before(p) + 1
         \/ out[FlagCell(p)][p.bit] = FALSE /\ q.read = Before(p) + 2
  BY DEF IsToken, IsLiteral, IsCopy, Moves
<1>2. /\ read = p.read /\ flags \in Seq(BOOLEAN)
      /\ Len(flags) = IF p.bit = 1 THEN 0 ELSE g - p.bit + 1
      /\ p.bit > 1 => \A k \in 1 .. Len(flags) : flags[k] = Padded(out[p.at])[p.bit + k - 1]
  BY DEF DecoderAt
<1>3. g \in Nat \ {0} /\ p.bit \in Nat \ {0} /\ p.read \in Nat
  BY Sizes DEF Flags, Places
<1>4. /\ s \in Seq(BOOLEAN) /\ Len(s) = g
      /\ s[p.bit] = out[FlagCell(p)][p.bit]
  BY <1>1, PaddedFlags
<1>5. /\ ReadNow = Before(p)
      /\ now \in Seq(BOOLEAN) /\ Len(now) = g - p.bit + 1
      /\ \A k \in 1 .. Len(now) : now[k] = s[p.bit + k - 1]
  <2>1. CASE p.bit = 1
    <3>1. flags = <<>> /\ FlagCell(p) = read + 1 /\ Before(p) = read + 1
      BY <1>2, <2>1 DEF FlagCell, Before
    <3>2. ~ AtEnd(read, 1)
      BY <1>1, <1>2, <1>3, <3>1 DEF AtEnd
    <3>3. now = s /\ ReadNow = Before(p)
      BY <3>1, <3>2 DEF FlagsNow, ReadNow
    <3> HIDE DEF now, s
    <3>4. \A k \in 1 .. Len(s) : k = 1 + k - 1
      BY <1>3, <1>4
    <3> QED
      BY <1>3, <1>4, <2>1, <3>3, <3>4
  <2>2. CASE p.bit # 1
    <3>1. Len(flags) = g - p.bit + 1 /\ Len(flags) >= 1 /\ p.bit > 1
      BY <1>1, <1>2, <1>3, <2>2
    <3>2. flags # <<>>
      BY <1>2, <3>1
    <3>3. now = flags /\ ReadNow = Before(p) /\ FlagCell(p) = p.at
      BY <1>2, <2>2, <3>2 DEF FlagsNow, ReadNow, Before, FlagCell
    <3> QED
      BY <1>2, <3>1, <3>3
  <2> QED
    BY <2>1, <2>2
<1> HIDE DEF now, s, g
<1>6. now # <<>> /\ Len(now) \in Nat \ {0}
  BY <1>1, <1>3, <1>5
<1>7. Head(now) = out[FlagCell(p)][p.bit]
  <2>1. 1 \in 1 .. Len(now) /\ p.bit + 1 - 1 = p.bit
    BY <1>3, <1>6
  <2>2. now[1] = s[p.bit]
    BY <1>5, <2>1
  <2> QED
    BY <1>4, <1>5, <1>6, <2>2
<1>8. TokenThere
  <2>1. Before(p) \in Nat
    BY DEF Before, Places
  <2>2. CASE out[FlagCell(p)][p.bit] = TRUE
    <3>1. (IF Head(now) THEN 1 ELSE 2) = 1
      BY <1>7, <2>2, Zenon
    <3>2. Before(p) + 1 = q.read /\ ~ (Before(p) + 1 > Len(out))
      BY <1>1, <2>1, <2>2
    <3> QED
      BY <1>5, <1>6, <3>1, <3>2 DEF TokenThere, AtEnd, now
  <2>3. CASE out[FlagCell(p)][p.bit] = FALSE
    <3>1. (IF Head(now) THEN 1 ELSE 2) = 2
      BY <1>7, <2>3, Zenon
    <3>2. Before(p) + 2 = q.read /\ ~ (Before(p) + 2 > Len(out))
      BY <1>1, <2>1, <2>3
    <3> QED
      BY <1>5, <1>6, <3>1, <3>2 DEF TokenThere, AtEnd, now
  <2> QED
    BY <1>1, <2>2, <2>3
<1>9. /\ Tail(now) \in Seq(BOOLEAN) /\ Len(Tail(now)) = Len(now) - 1
      /\ \A k \in 1 .. Len(Tail(now)) : Tail(now)[k] = now[k + 1]
  BY <1>5, <1>6, HeadTailProperties
<1>10. Len(Tail(now)) = IF q.bit = 1 THEN 0 ELSE g - q.bit + 1
  BY <1>1, <1>3, <1>5, <1>9
<1>11. ASSUME q.bit > 1, NEW k \in 1 .. Len(Tail(now))
       PROVE  Tail(now)[k] = Padded(out[q.at])[q.bit + k - 1]
  <2>1. q.bit = p.bit + 1
    BY <1>1, <1>3, <1>11
  <2>2. k + 1 \in 1 .. Len(now) /\ p.bit + (k + 1) - 1 = q.bit + k - 1
    BY <1>3, <1>5, <1>6, <1>9, <2>1
  <2>3. now[k + 1] = s[q.bit + k - 1]
    BY <1>5, <2>2
  <2> QED
    BY <1>1, <1>9, <2>3 DEF s
<1> QED
  BY <1>5, <1>7, <1>8, <1>9, <1>10, <1>11 DEF now, g

\* At the end of the file the decoder finds no token.
LEMMA NoTokenAtEnd ==
    ASSUME NEW p \in Places, DecoderAt(p), EndOfFile(p), Len(out) \in Nat
    PROVE  ~ TokenThere
<1>1. /\ read = Len(out) /\ p.bit \in Nat \ {0} /\ p.bit \in 1 .. Flags(variant)
      /\ flags \in Seq(BOOLEAN)
      /\ Len(flags) = IF p.bit = 1 THEN 0 ELSE Flags(variant) - p.bit + 1
  BY DEF DecoderAt, EndOfFile, Places
<1>2. Flags(variant) \in Nat
  BY Sizes DEF Flags
<1>3. CASE p.bit = 1
  <2>1. flags = <<>> /\ AtEnd(read, 1)
    BY <1>1, <1>3 DEF AtEnd
  <2> QED
    BY <2>1 DEF FlagsNow, TokenThere
<1>4. CASE p.bit # 1
  <2>1. flags # <<>>
    BY <1>1, <1>2, <1>4
  <2>2. ReadNow = Len(out)
    BY <1>1, <2>1 DEF ReadNow
  <2> QED
    <3> DEFINE w == IF Head(FlagsNow) THEN 1 ELSE 2
    <3>1. w \in {1, 2}
      BY Zenon
    <3> HIDE DEF w
    <3>2. ReadNow + w > Len(out)
      BY <2>2, <3>1
    <3> QED
      BY <3>2 DEF TokenThere, AtEnd, w
<1> QED
  BY <1>3, <1>4
LEMMA DecodeFile == ASSUME FileInv, DecodeToken PROVE FileInv'
<1> DEFINE g == Flags(variant)
<1>1. /\ phase = "decode" /\ phase' = "decode" /\ TokenThere
      /\ flags' = Tail(FlagsNow)
      /\ UNCHANGED <<variant, input, len, out>>
      /\ \/ Head(FlagsNow) /\ Emit(<<out[ReadNow + 1]>>, ReadNow + 1)
         \/ /\ ~ Head(FlagsNow)
            /\ Emit(Copied(out[ReadNow + 1], out[ReadNow + 2] + MaxUncoded + 1),
                    ReadNow + 2)
  BY DEF DecodeToken, encoderVars
<1>2. IInv'
  BY DecodeStep DEF FileInv
<1>3. PICK P \in SUBSET Places :
         /\ \A p \in P : EndOfFile(p) \/ \E q \in P : IsToken(input, out, g, p, q)
         /\ \E p \in P : DecoderAt(p)
  BY <1>1 DEF FileInv, DecodesRight
<1>4. PICK p \in P : DecoderAt(p)
  BY <1>3
<1>5. Len(out) \in Nat /\ p \in Places
  BY <1>1 DEF FileInv, DecodesRight
<1>6. PICK q \in P : IsToken(input, out, g, p, q)
  BY <1>1, <1>3, <1>4, <1>5, NoTokenAtEnd
<1>7. q \in Places /\ q.from \in Nat /\ q.from <= Len(input) /\ Len(input) \in Nat
      /\ q.bit \in Nat \ {0} /\ p.from \in Nat /\ p.head \in WindowIndex
  BY <1>6 DEF IsToken, Places, FileInv, IInv, TypeOK
<1>8. /\ ReadNow = Before(p)
      /\ Head(FlagsNow) = out[FlagCell(p)][p.bit]
      /\ flags' \in Seq(BOOLEAN)
      /\ Len(flags') = IF q.bit = 1 THEN 0 ELSE g - q.bit + 1
      /\ q.bit > 1 =>
            \A k \in 1 .. Len(flags') : flags'[k] = Padded(out[q.at])[q.bit + k - 1]
  BY <1>1, <1>4, <1>5, <1>6, <1>7, NextToken
<1>9. /\ read = p.read /\ windowHead = p.head /\ Len(decoded) = p.from
      /\ window = WindowAt(input, p.from, p.head)
  BY <1>4 DEF DecoderAt
<1>10. input \in Seq(Symbols)
  BY DEF FileInv, IInv, TypeOK
<1>11. \E n \in 1 .. WindowSize, s \in Seq(Symbols) :
          /\ Emit(s, q.read) /\ Len(s) = n
          /\ q.from = p.from + n /\ q.head = Advanced(p.head, n, WindowSize)
          /\ \A k \in 1 .. n : s[k] = input[p.from + k]
  <2>1. CASE IsLiteral(input, out, p, q)
    <3>1. /\ out[FlagCell(p)][p.bit] = TRUE /\ out[Before(p) + 1] = input[p.from + 1]
          /\ q.read = Before(p) + 1 /\ q.from = p.from + 1
          /\ q.head = Advanced(p.head, 1, WindowSize)
      BY <2>1 DEF IsLiteral, Moves
    <3>2. Head(FlagsNow) = TRUE
      BY <1>8, <3>1
    <3>3. Emit(<<out[ReadNow + 1]>>, ReadNow + 1)
      BY <1>1, <3>2, Zenon
    <3>4. Emit(<<input[p.from + 1]>>, q.read)
      BY <1>8, <3>1, <3>3
    <3>5. p.from + 1 \in 1 .. Len(input) /\ 1 \in 1 .. WindowSize
      BY <1>7, <3>1, Sizes
    <3>6. input[p.from + 1] \in Symbols
      BY <1>10, <3>5
    <3> DEFINE s == <<input[p.from + 1]>>
    <3>7. s \in Seq(Symbols) /\ Len(s) = 1 /\ \A k \in 1 .. 1 : s[k] = input[p.from + k]
      BY <3>6
    <3>8. Emit(s, q.read)
      BY <3>4
    <3> HIDE DEF s
    <3> QED
      BY <3>1, <3>5, <3>7, <3>8
  <2>2. CASE IsCopy(input, out, p, q)
    <3> DEFINE n == out[Before(p) + 2] + MaxUncoded + 1
               s == Copied(out[Before(p) + 1], n)
    <3>1. /\ out[FlagCell(p)][p.bit] = FALSE /\ n \in 1 .. WindowSize
          /\ q.read = Before(p) + 2 /\ q.from = p.from + n
          /\ q.head = Advanced(p.head, n, WindowSize)
          /\ \A k \in 1 .. n :
                WindowAt(input, p.from, p.head)
                    [(out[Before(p) + 1] + k - 1) % WindowSize] = input[p.from + k]
      BY <2>2 DEF IsCopy, Moves
    <3>2. Head(FlagsNow) = FALSE
      BY <1>8, <3>1
    <3>3. Emit(Copied(out[ReadNow + 1], out[ReadNow + 2] + MaxUncoded + 1), ReadNow + 2)
      BY <1>1, <3>2, Zenon
    <3>4. Emit(s, q.read)
      BY <1>8, <3>1, <3>3
    <3> HIDE DEF n
    <3>5. n \in Nat /\ \A k \in 1 .. n : p.from + k \in 1 .. Len(input)
      <4>1. n \in Nat
        BY <3>1, Sizes
      <4>2. p.from + n <= Len(input) /\ p.from \in Nat /\ Len(input) \in Nat
        BY <1>7, <3>1
      <4> QED
        BY <4>1, <4>2
    <3>6. /\ s = [k \in 1 .. n |-> window[(out[Before(p) + 1] + k - 1) % WindowSize]]
          /\ \A k \in 1 .. n : s[k] = input[p.from + k]
      BY <1>9, <3>1 DEF Copied
    <3>7. \A k \in 1 .. n : s[k] \in Symbols
      <4> TAKE k \in 1 .. n
      <4>1. p.from + k \in 1 .. Len(input) /\ s[k] = input[p.from + k]
        BY <3>5, <3>6
      <4> QED
        BY <1>10, <4>1
    <3> HIDE DEF s
    <3>8. s \in [1 .. n -> Symbols]
      BY <3>6, <3>7
    <3>9. s \in Seq(Symbols) /\ Len(s) = n
      BY <3>5, <3>8
    <3> QED
      BY <3>1, <3>4, <3>6, <3>9
  <2> QED
    BY <1>6, <2>1, <2>2 DEF IsToken
<1>12. PICK n \in 1 .. WindowSize, s \in Seq(Symbols) :
          /\ Emit(s, q.read) /\ Len(s) = n
          /\ q.from = p.from + n /\ q.head = Advanced(p.head, n, WindowSize)
          /\ \A k \in 1 .. n : s[k] = input[p.from + k]
  BY <1>11
<1>13. /\ decoded' = decoded \o s /\ read' = q.read
       /\ window' = Slid(window, windowHead, s)
       /\ windowHead' = Advanced(windowHead, n, WindowSize)
  BY <1>12 DEF Emit
<1>14. window' = WindowAt(input, q.from, q.head)
  <2>1. n \in 0 .. WindowSize
    BY Sizes
  <2>2. Slid(WindowAt(input, p.from, p.head), p.head, s) =
           WindowAt(input, p.from + n, Advanced(p.head, n, WindowSize))
    BY <1>7, <1>12, <2>1, WindowMoves, SMTT(30)
  <2> QED
    BY <1>9, <1>12, <1>13, <2>2
<1>15. /\ decoded \in Seq(Symbols)
       /\ \A k \in 1 .. Len(decoded) : decoded[k] = input[k]
       /\ variant # "opencl" => len = 0
  BY <1>1 DEF FileInv, DecodedSoFar
<1>16. /\ decoded' \in Seq(Symbols) /\ Len(decoded') = q.from
       /\ \A k \in 1 .. q.from : decoded'[k] = input[k]
  <2>1. /\ decoded \o s \in Seq(Symbols) /\ Len(decoded \o s) = Len(decoded) + Len(s)
        /\ \A i \in 1 .. Len(decoded) : (decoded \o s)[i] = decoded[i]
        /\ \A i \in 1 .. Len(s) : (decoded \o s)[Len(decoded) + i] = s[i]
    BY <1>15, Concatenated
  <2>2. n \in Nat
    BY Sizes
  <2>3. decoded' \in Seq(Symbols) /\ Len(decoded') = q.from
    BY <1>9, <1>12, <1>13, <2>1
  <2>4. ASSUME NEW k \in 1 .. q.from PROVE decoded'[k] = input[k]
    <3>1. CASE k <= p.from
      BY <1>7, <1>9, <1>13, <1>15, <2>1, <3>1
    <3>2. CASE k > p.from
      <4> DEFINE i == k - p.from
      <4>1. i \in 1 .. n /\ k = p.from + i
        BY <1>7, <1>12, <2>2, <3>2
      <4> HIDE DEF i
      <4> QED
        BY <1>9, <1>12, <1>13, <2>1, <4>1
    <3> QED
      BY <1>7, <3>1, <3>2
  <2> QED
    BY <2>3, <2>4
<1>17. DecoderAt(q)'
  <2>1. Padded(out[q.at])' = Padded(out[q.at]) /\ Flags(variant') = g
    BY <1>1 DEF Padded
  <2>2. read' = q.read /\ windowHead' = q.head
    BY <1>9, <1>12, <1>13
  <2>3. window' = WindowAt(input', q.from, q.head)
    BY <1>1, <1>14
  <2> QED
    BY <1>8, <1>16, <2>1, <2>2, <2>3 DEF DecoderAt
<1>18. DecodesRight'
  <2>1. \A x \in P : EndOfFile(x)' \/ \E y \in P : IsToken(input', out', Flags(variant'), x, y)
    BY <1>1, <1>3 DEF EndOfFile
  <2>2. Len(out') \in Nat
    BY <1>1, <1>5
  <2> QED
    BY <1>17, <2>1, <2>2 DEF DecodesRight
<1>19. DecodedSoFar'
  BY <1>1, <1>7, <1>15, <1>16 DEF DecodedSoFar
<1>20. Collecting' /\ EncodedRight'
  BY <1>1 DEF Collecting, EncodedRight
<1> QED
  BY <1>2, <1>18, <1>19, <1>20 DEF FileInv

LEMMA StopFile == ASSUME FileInv, FinishDecoding PROVE FileInv'
<1>1. /\ phase = "decode" /\ phase' = "done" /\ ~ TokenThere
      /\ UNCHANGED <<variant, input, len, decoded>>
  BY DEF FinishDecoding, encoderVars
<1>2. IInv'
  <2>1. [Next]_vars
    BY DEF Next
  <2> QED
    BY <2>1, InvStep DEF FileInv
<1>3. PICK P \in SUBSET Places :
         /\ \A p \in P :
               EndOfFile(p) \/ \E q \in P : IsToken(input, out, Flags(variant), p, q)
         /\ \E p \in P : DecoderAt(p)
  BY <1>1 DEF FileInv, DecodesRight
<1>4. PICK p \in P : DecoderAt(p)
  BY <1>3
<1>5. Len(out) \in Nat
  BY <1>1 DEF FileInv, DecodesRight
<1>6. EndOfFile(p)
  BY <1>1, <1>3, <1>4, <1>5, NextToken
<1>7. Len(decoded) = Len(input) - len
  BY <1>4, <1>6 DEF DecoderAt, EndOfFile
<1>8. DecodedSoFar'
  BY <1>1, <1>7 DEF FileInv, DecodedSoFar
<1> QED
  BY <1>1, <1>2, <1>8 DEF FileInv, Collecting, EncodedRight, DecodesRight

LEMMA FileStep == FileInv /\ ListInv /\ [Next]_vars => FileInv'
<1> SUFFICES ASSUME FileInv, ListInv, [Next]_vars PROVE FileInv'
  OBVIOUS
<1>1. CASE StartEncoding
  BY <1>1, StartFile
<1>2. CASE EncodeToken
  BY <1>2, EncodeFile
<1>3. CASE FinishEncoding
  BY <1>3, FinishFile
<1>4. CASE DecodeToken
  BY <1>4, DecodeFile
<1>5. CASE FinishDecoding
  BY <1>5, StopFile
<1>6. CASE UNCHANGED vars
  <2>1. IInv'
    BY <1>6, InvStep DEF FileInv
  <2>2. /\ FileSoFar' = FileSoFar
        /\ \A p : EncoderAt(p)' <=> EncoderAt(p)
        /\ \A p : DecoderAt(p)' <=> DecoderAt(p)
        /\ \A p : EndOfFile(p)' <=> EndOfFile(p)
    BY <1>6 DEF vars, encoderVars, FileSoFar, Pending, EncoderAt, DecoderAt, EndOfFile, Padded
  <2>3. Collecting' /\ DecodedSoFar'
    BY <1>6 DEF FileInv, Collecting, DecodedSoFar, vars, encoderVars
  <2>4. EncodedRight'
    BY <1>6, <2>2 DEF FileInv, EncodedRight, vars, encoderVars
  <2>5. DecodesRight'
    BY <1>6, <2>2 DEF FileInv, DecodesRight, vars, encoderVars
  <2> QED
    BY <2>1, <2>3, <2>4, <2>5 DEF FileInv
<1>7. CASE DriverStops \/ StartOverwriting
  <2>1. IInv'
    BY <1>7, DriverKeeps DEF FileInv
  <2>2. phase' \in {"stopped", "undefined"} /\ UNCHANGED <<variant, input, len, decoded>>
    BY <1>7 DEF DriverStops, StartOverwriting, encoderVars
  <2> QED
    BY <2>1, <2>2 DEF FileInv, Collecting, EncodedRight, DecodesRight, DecodedSoFar
<1> QED
  BY <1>1, <1>2, <1>3, <1>4, <1>5, <1>6, <1>7
     DEF Next, SerialDriverStops, GroupedDriverStops, StartSerial, StartGrouped, StartKernel, EncodeSerial, EncodeGrouped,
         EncodeKernel, DecodeSerial, DecodeGrouped, DecodeKernel

-----------------------------------------------------------------------------
(* The theorems about the way there and back.                              *)

\* FileInv is an invariant of the four forms.
THEOREM FileRight == Spec => []FileInv
BY InitFile, FileStep, ListsInvariant, PTL DEF Spec

\* What the decoder has written is at any time a prefix of what was compressed,
\* for every input, every size of window, lookahead and group of flags, with
\* either search: it sees at each token the window the encoder saw.
THEOREM PrefixDecoded == Spec => []DecodesAPrefix
<1>1. FileInv => DecodesAPrefix
  <2> SUFFICES ASSUME FileInv PROVE DecodesAPrefix
    OBVIOUS
  <2>1. /\ decoded \in Seq(Symbols) /\ input \in Seq(Symbols)
        /\ Len(decoded) <= Len(input)
        /\ \A k \in 1 .. Len(decoded) : decoded[k] = input[k]
    BY DEF FileInv, DecodedSoFar, IInv, TypeOK
  <2>2. SubSeq(decoded, 1, Len(decoded)) = SubSeq(input, 1, Len(decoded))
    BY <2>1
  <2> QED
    BY <2>1, <2>2 DEF DecodesAPrefix, IsPrefix
<1> QED
  BY <1>1, FileRight, PTL

\* When the decoder stops it has written all of the input, but for the symbols
\* that the kernel leaves in the lookahead.
THEOREM AllDecoded == Spec => []LosslessButTail
<1>1. FileInv => LosslessButTail
  <2> SUFFICES ASSUME FileInv, phase = "done"
               PROVE  Len(decoded) = Len(input) - IF variant = "opencl" THEN len ELSE 0
    BY DEF LosslessButTail
  <2>1. Len(decoded) = Len(input) - len /\ (variant # "opencl" => len = 0)
    BY DEF FileInv, DecodedSoFar
  <2> QED
    BY <2>1
<1> QED
  BY <1>1, FileRight, PTL

=============================================================================
