-------------------------------- MODULE Lzss --------------------------------
(***************************************************************************)
(* LZSS compression of one input, and its decompression, in four forms:    *)
(*                                                                         *)
(*   "serial"  EncodeLZSS and DecodeLZSS of LZSS/Serial/lzss.c, with the   *)
(*             search of brute.c (the one its Makefile links)              *)
(*   "list"    the same, with the search of list.c                         *)
(*   "grouped" EncodeLZSS and DecodeLZSS of LZSS/OpenCL/temp.c, the        *)
(*             serial program the kernels were made from                   *)
(*   "opencl"  one work-item of the kernels LZSS/OpenCL/encode.cl and      *)
(*             decode.cl, which compresses one block of the file           *)
(*                                                                         *)
(* The encoder keeps the last symbols it has encoded in a cyclic window    *)
(* and the next ones in a cyclic lookahead.  A token is a symbol, or the   *)
(* offset and length of the longest match of the lookahead in the window.  *)
(* The decoder rebuilds the window from the tokens alone.                  *)
(*                                                                         *)
(* Tokens carry a flag bit each.  The serial program writes it in front of *)
(* its token; temp.c and the kernel gather the flags of eight tokens into  *)
(* a byte, followed by these tokens.  Flags(v) is 1 and eight: the output  *)
(* is a sequence of cells, each a group of flags or a part of a token.     *)
(*                                                                         *)
(* list.c keeps a linked list through the positions in the window of each  *)
(* symbol: heads[c] is lists[c] and links[p] is next[p] of the code.       *)
(***************************************************************************)
EXTENDS Integers, Sequences, SequencesExt, FiniteSetsExt

CONSTANTS OffsetBits,  \* OFFSET_BITS: 12
          LengthBits,  \* LENGTH_BITS: 4
          MaxUncoded,  \* MAX_UNCODED: 2
          GroupSize,   \* flags in a byte of the OpenCL format: 8
          Symbols,
          Space,       \* ' ', which the window is filled with
          Zero,        \* what a static array is filled with
          MaxInput,    \* bound: the longest input
          Variants

WindowSize == 2 ^ OffsetBits
MaxCoded == 2 ^ LengthBits + MaxUncoded

ASSUME LzssAssumption ==
    /\ {OffsetBits, LengthBits, MaxUncoded, GroupSize} \subseteq Nat \ {0}
    /\ WindowSize \in Nat \ {0} /\ 2 ^ LengthBits \in Nat \ {0}
    /\ MaxCoded <= WindowSize
    /\ {Space, Zero} \subseteq Symbols
    /\ MaxInput \in Nat
    /\ Variants \subseteq {"serial", "list", "grouped", "opencl"}

VARIABLES
    variant, input,
    phase,                   \* "start", "encode", "decode", "done"; "stopped",
                             \* or "undefined"
    heads, links,            \* lists and next of list.c
    window, windowHead,      \* slidingWindow of whichever runs; its head or
                             \* the decoder's nextChar
    lookahead, uncodedHead,
    len,                     \* symbols of the input in the lookahead
    read,                    \* symbols, or cells when decoding, consumed
    flags, encodedData,      \* the group in the making; the group of flags
                             \* the decoder has yet to use
    out,                     \* the compressed output
    decoded

encoderVars == <<lookahead, uncodedHead, len, encodedData, out>>
listVars == <<heads, links>>
vars == <<variant, input, phase, window, windowHead, read, flags, decoded,
          encoderVars, listVars>>

WindowIndex == 0 .. WindowSize - 1
LookIndex == 0 .. MaxCoded - 1
NullIndex == WindowSize + 1
Flags(v) == IF v \in {"serial", "list"} THEN 1 ELSE GroupSize

-----------------------------------------------------------------------------
(* The two cyclic buffers.                                                 *)

Advanced(head, n, limit) == (head + n) % limit

\* The n symbols at the head of lookahead l.
NextOf(l, head, n) == [k \in 1 .. n |-> l[(head + k - 1) % MaxCoded]]

\* Window w after the symbols s were written to it from its head on.
Slid(w, head, s) ==
    [p \in WindowIndex |->
        LET k == ((p - head) % WindowSize) + 1
        IN IF k <= Len(s) THEN s[k] ELSE w[p]]

\* Mistake: the first symbol to come is skipped.
RefilledLate(l, head, n) ==
    [q \in LookIndex |->
        LET k == ((q - head) % MaxCoded) + 1
        IN IF k <= n /\ read + k < Len(input) THEN input[read + k + 1] ELSE l[q]]

\* Lookahead l after the next n symbols of the input were read into it.
Refilled(l, head, n) ==
    [q \in LookIndex |->
        LET k == ((q - head) % MaxCoded) + 1
        IN IF k <= n THEN input[read + k] ELSE l[q]]

-----------------------------------------------------------------------------
(* FindMatch: the longest match, and of these the first after the head of  *)
(* the window.  It may run over that head into older symbols, and over the *)
(* end of the input into what the lookahead holds there.                   *)

\* The n symbols at the head of the lookahead are in the window from i on.
Matches(i, n) ==
    \A k \in 0 .. n - 1 :
        window[(i + k) % WindowSize] = lookahead[(uncodedHead + k) % MaxCoded]

\* FindMatch of brute.c, temp.c and encode.cl.
LongestMatch == Max({n \in 0 .. MaxCoded : \E i \in WindowIndex : Matches(i, n)})
BruteMatch ==
    LET longest == LongestMatch
        at == Min({d \in WindowIndex : Matches((windowHead + d) % WindowSize, longest)})
    IN [offset |-> IF longest = 0 THEN 0 ELSE (windowHead + at) % WindowSize,
        length |-> longest]

\* The positions on the list hs[c], by the links ls.
Chain(hs, ls, c) ==
    LET at[k \in 1 .. WindowSize] ==
            IF k = 1 THEN hs[c]
            ELSE IF at[k - 1] = NullIndex THEN NullIndex ELSE ls[at[k - 1]]
    IN  [k \in {n \in 1 .. WindowSize : at[n] # NullIndex} |-> at[k]]

\* The same without a look at the first of them: "the list insures we matched
\* one".
MatchesOnward(i, n) ==
    \A k \in 1 .. n - 1 :
        window[(i + k) % WindowSize] = lookahead[(uncodedHead + k) % MaxCoded]

\* Mistake: of equally long matches the last is taken.
ListMatchLast ==
    LET chain == Chain(heads, links, lookahead[uncodedHead])
        longest == Max({0} \union {n \in 1 .. MaxCoded :
                                     \E k \in DOMAIN chain : MatchesOnward(chain[k], n)})
    IN [offset |-> IF longest = 0 THEN 0
                   ELSE chain[Max({k \in DOMAIN chain : MatchesOnward(chain[k], longest)})],
        length |-> longest]

\* FindMatch of list.c: the first of the longest matches on the list of the
\* symbol at the head of the lookahead.
ListMatch ==
    LET chain == Chain(heads, links, lookahead[uncodedHead])
        longest == Max({0} \union {n \in 1 .. MaxCoded :
                                     \E k \in DOMAIN chain : MatchesOnward(chain[k], n)})
    IN [offset |-> IF longest = 0 THEN 0
                   ELSE chain[Min({k \in DOMAIN chain : MatchesOnward(chain[k], longest)})],
        length |-> longest]

FindMatch == IF variant = "list" THEN ListMatch ELSE BruteMatch

\* Mistake: what lies behind the end of the input counts.
ClippedNever(m) == m
Clipped(m) == [m EXCEPT !.length = Min({@, len})]

IsCoded(m) == m.length > MaxUncoded

\* Mistake: the length of a match not worth coding is kept.
TokenLengthAsFound(m) == m.length
TokenLength(m) == IF IsCoded(m) THEN m.length ELSE 1

\* A coded token has two parts, in bits of OffsetBits and LengthBits.
Token(m) ==
    IF IsCoded(m)
      THEN <<m.offset, (m.length - (MaxUncoded + 1)) % 2 ^ LengthBits>>
      ELSE <<lookahead[uncodedHead]>>

-----------------------------------------------------------------------------
(* ReplaceChar of list.c; s is [heads, links, window, at].                 *)

\* Position p leaves the list of symbol c.  ReplaceChar only ever takes out the
\* oldest position, which is the head of its list: the search for the one before
\* it is never needed.
RemoveChar(s, p, c) ==
    LET chain == Chain(s.heads, s.links, c)
        before == chain[CHOOSE k \in DOMAIN chain : s.links[chain[k]] = p]
    IN  IF s.heads[c] = p
          THEN [s EXCEPT !.heads[c] = s.links[p], !.links[p] = NullIndex]
          ELSE [s EXCEPT !.links[before] = s.links[p], !.links[p] = NullIndex]

\* Mistake: p is put in front.
AddCharInFront(s, p, c) == [s EXCEPT !.heads[c] = p, !.links[p] = s.heads[c]]

\* Position p is appended to the list of symbol c.
AddChar(s, p, c) ==
    LET chain == Chain(s.heads, s.links, c)
    IN  IF chain = <<>> THEN [s EXCEPT !.heads[c] = p, !.links[p] = NullIndex]
        ELSE [s EXCEPT !.links[Last(chain)] = p, !.links[p] = NullIndex]

ReplaceChar(s, c) ==
    AddChar([RemoveChar(s, s.at, s.window[s.at]) EXCEPT
                !.window[s.at] = c, !.at = (@ + 1) % WindowSize], s.at, c)

\* The lists after the symbols syms were written to the window, from its head.
ReplaceChars(syms) ==
    IF variant = "list"
      THEN LET s[k \in 0 .. Len(syms)] ==
                   IF k = 0 THEN [heads |-> heads, links |-> links,
                                  window |-> window, at |-> windowHead]
                   ELSE ReplaceChar(s[k - 1], syms[k])
           IN heads' = s[Len(syms)].heads /\ links' = s[Len(syms)].links
      ELSE UNCHANGED listVars

\* The window holds but one symbol, the list of which goes through it.  The list
\* of every other symbol is emptied; that of the last one lies behind the array,
\* which is a cell short (list.c:51, :86).  Here the cell is nobody else's.
InitializeSearchStructures ==
    /\ heads' = [c \in Symbols |-> IF c = window[0] THEN 0 ELSE NullIndex]
    /\ links' = [p \in WindowIndex |->
                    IF p = WindowSize - 1 THEN NullIndex ELSE p + 1]

-----------------------------------------------------------------------------
(* EncodeLZSS.                                                             *)

Init ==
    /\ variant \in Variants
    /\ input \in UNION {[1 .. n -> Symbols] : n \in 0 .. MaxInput}
    /\ phase = "start"
    /\ window = [p \in WindowIndex |-> Space] /\ windowHead = 0
    /\ \E s \in IF variant = "opencl" THEN Symbols ELSE {Zero} :
          lookahead = [q \in LookIndex |-> s]  \* a local array of the kernel
    /\ uncodedHead = 0 /\ len = 0 /\ read = 0
    /\ flags = <<>> /\ encodedData = <<>> /\ out = <<>>
    /\ decoded = <<>>
    /\ heads = <<>> /\ links = <<>>

\* The lookahead is filled and searched for, before the loop.
StartEncoding ==
    /\ phase = "start"
    /\ LET n == Min({MaxCoded, Len(input)})
       IN  /\ lookahead' = Refilled(lookahead, 0, n)
           /\ len' = n /\ read' = n
    /\ phase' = "encode"
    /\ UNCHANGED <<variant, input, window, windowHead, uncodedHead, flags,
                   encodedData, out, decoded>>

StartSerial ==
    /\ StartEncoding
    /\ \/ variant = "serial" /\ UNCHANGED listVars
       \/ variant = "list" /\ InitializeSearchStructures

\* The build has put another variable behind the array of lists, so emptying the
\* last list writes there.  If it is next[0], which list.c declares next, most of
\* the window is cut off its list, and taking the second position off it reads
\* next[WINDOW_SIZE + 1]: nothing can be said of the program from here on.
StartOverwriting ==
    /\ variant = "list" /\ phase = "start" /\ input # <<>>
    /\ phase' = "undefined"
    /\ UNCHANGED <<variant, input, window, windowHead, read, flags, decoded,
                   encoderVars, listVars>>

StartGrouped == variant = "grouped" /\ StartEncoding /\ UNCHANGED listVars
StartKernel == variant = "opencl" /\ StartEncoding /\ UNCHANGED listVars

\* The loop conditions of lzss.c:141, of temp.c:356 and of encode.cl:132.
MoreToEncode == len > 0 /\ (variant = "opencl" => read < Len(input))

\* The group with token t added, or the output with the whole group.
Collect(uncoded, t) ==
    LET fs == Append(flags, uncoded)
        es == encodedData \o t
    IN IF Len(fs) = Flags(variant)
         THEN out' = out \o <<fs>> \o es /\ flags' = <<>> /\ encodedData' = <<>>
         ELSE flags' = fs /\ encodedData' = es /\ UNCHANGED out

\* One turn of the loop: write a token and replace what it stands for by new
\* symbols.  The search at its end, like the one before the loop, finds what
\* FindMatch finds when the next turn begins.
EncodeToken ==
    /\ phase = "encode"
    /\ MoreToEncode
    /\ LET m == Clipped(FindMatch)
           n == TokenLength(m)
           fresh == Min({n, Len(input) - read})
       IN  /\ Collect(~IsCoded(m), Token(m))
           /\ window' = Slid(window, windowHead, NextOf(lookahead, uncodedHead, n))
           /\ ReplaceChars(NextOf(lookahead, uncodedHead, n))
           /\ lookahead' = Refilled(lookahead, uncodedHead, fresh)
           /\ windowHead' = Advanced(windowHead, n, WindowSize)
           /\ uncodedHead' = Advanced(uncodedHead, n, MaxCoded)
           /\ len' = len - (n - fresh)
           /\ read' = read + fresh
    /\ UNCHANGED <<variant, input, phase, decoded>>

\* The loops of lzss.c, of temp.c and of encode.cl.
EncodeSerial == variant \in {"serial", "list"} /\ EncodeToken
EncodeGrouped == variant = "grouped" /\ EncodeToken
EncodeKernel == variant = "opencl" /\ EncodeToken

\* Mistake: a group that is not full is not written.
PendingForgotten == <<>>

\* encode.cl:222-234 and temp.c:434-443.  A serial token is never pending.
Pending == IF encodedData = <<>> THEN <<>> ELSE <<flags>> \o encodedData

\* The program writes the file and ends; a second run opens it to decode.
FinishEncoding ==
    /\ phase = "encode"
    /\ ~MoreToEncode
    /\ out' = out \o Pending
    /\ phase' = "decode"
    /\ window' = [p \in WindowIndex |-> Space] /\ windowHead' = 0
    /\ read' = 0
    /\ flags' = <<>> /\ encodedData' = <<>>
    /\ UNCHANGED <<variant, input, lookahead, uncodedHead, len, decoded, listVars>>

-----------------------------------------------------------------------------
(* DecodeLZSS.                                                             *)

\* The symbols a coded token stands for: all are read before any is written.
Copied(offset, n) == [k \in 1 .. n |-> window[(offset + k - 1) % WindowSize]]

\* n cells from p on are not all there.
AtEnd(p, n) == p + n > Len(out)

Emit(s, cells) ==
    /\ decoded' = decoded \o s
    /\ window' = Slid(window, windowHead, s)
    /\ windowHead' = Advanced(windowHead, Len(s), WindowSize)
    /\ read' = cells

\* The flags of a byte in order; a byte has Flags(variant) of them, and those
\* that were never set are 0: not "uncoded".
Padded(fs) == [k \in 1 .. Flags(variant) |-> k <= Len(fs) /\ fs[k]]

\* The flags to go by: a group is read when the last one is used up.
FlagsNow == IF flags # <<>> THEN flags
            ELSE IF AtEnd(read, 1) THEN <<>> ELSE Padded(out[read + 1])
ReadNow == IF flags # <<>> THEN read ELSE read + 1

TokenThere == FlagsNow # <<>> /\ ~AtEnd(ReadNow, IF Head(FlagsNow) THEN 1 ELSE 2)

DecodeToken ==
    /\ phase = "decode"
    /\ TokenThere
    /\ LET p == ReadNow
       IN \/ Head(FlagsNow) /\ Emit(<<out[p + 1]>>, p + 1)
          \/ /\ ~Head(FlagsNow)
             /\ Emit(Copied(out[p + 1], out[p + 2] + MaxUncoded + 1), p + 2)
    /\ flags' = Tail(FlagsNow)
    /\ UNCHANGED <<variant, input, phase, encoderVars, listVars>>

\* The loops of lzss.c, of temp.c and of decode.cl.
DecodeSerial == variant \in {"serial", "list"} /\ DecodeToken
DecodeGrouped == variant = "grouped" /\ DecodeToken
DecodeKernel == variant = "opencl" /\ DecodeToken

\* The file is at its end: no flags are left, or no token for the next.
FinishDecoding ==
    /\ phase = "decode"
    /\ ~TokenThere
    /\ phase' = "done"
    /\ UNCHANGED <<variant, input, window, windowHead, read, flags, decoded,
                   encoderVars, listVars>>

\* The program leaves before it has coded anything: it has printed its
\* options, or an option is given twice, or a file does not open; temp.c also
\* if one is not given.
DriverStops ==
    /\ phase = "start" \/ (phase = "decode" /\ read = 0)
    /\ phase' = "stopped"
    /\ UNCHANGED <<variant, input, window, windowHead, read, flags, decoded,
                   encoderVars, listVars>>

\* main of Serial/sample.c and of temp.c; that of the kernels is in LzssBlocks.
SerialDriverStops == variant \in {"serial", "list"} /\ DriverStops
GroupedDriverStops == variant = "grouped" /\ DriverStops

Next ==
    \/ SerialDriverStops \/ GroupedDriverStops
    \/ StartSerial \/ StartOverwriting \/ StartGrouped \/ StartKernel
    \/ EncodeSerial \/ EncodeGrouped \/ EncodeKernel \/ FinishEncoding
    \/ DecodeSerial \/ DecodeGrouped \/ DecodeKernel \/ FinishDecoding

Spec == Init /\ [][Next]_vars

-----------------------------------------------------------------------------
(* Properties.                                                             *)

\* Wherever the heads are, the lookahead holds from its head on the len symbols
\* of the input that come next, and the window those before them, the latest
\* just before its head, and the initial spaces where there are none.  The
\* replacement loops move one symbol at a time through both buffers.
BuffersFollowInput ==
    phase = "encode" =>
        LET past == read - len
        IN  /\ \A k \in 1 .. len :
                  lookahead[(uncodedHead + k - 1) % MaxCoded] = input[past + k]
            /\ \A k \in 1 .. WindowSize :
                  window[(windowHead - k) % WindowSize] =
                      IF k <= past THEN input[past - k + 1] ELSE Space

\* How many positions of a window with this head are older than p.
Older(head, p) == (p - head) % WindowSize

\* The lists of list.c hold the whole window, each the positions of its symbol
\* and no other, the oldest first, however the list of a symbol and that of the
\* one which replaces it lie across the window's end.  (Where every symbol has a
\* cell of its own for the head of its list: see StartOverwriting.)
ListsFollowWindow ==
    phase = "encode" /\ variant = "list" =>
        \A c \in Symbols :
            LET chain == Chain(heads, links, c)
            IN  /\ {chain[k] : k \in DOMAIN chain} = {p \in WindowIndex : window[p] = c}
                /\ \A j, k \in DOMAIN chain :
                      j < k => Older(windowHead, chain[j]) < Older(windowHead, chain[k])

\* The search of list.c, which takes the first symbol of a match on trust, finds
\* the very match that of brute.c finds, so the program writes the same file
\* with either.
SearchesAgree ==
    phase = "encode" /\ variant = "list" => ListMatch = BruteMatch

\* Nothing the decoder has written is wrong or more than there was: not where a
\* match ran over the window's head, nor over the end of the input.
DecodesAPrefix == IsPrefix(decoded, input)

\* When all is decoded, the whole input is back: but for the kernel, which
\* stops when it has read the last symbol and leaves those in the lookahead.
LosslessButTail ==
    phase = "done" =>
        Len(decoded) = Len(input) - IF variant = "opencl" THEN len ELSE 0

\* Each turn of the encoder's loop leaves fewer symbols to encode and each turn
\* of the decoder's less to read, so both come to an end.
TurnsMakeProgress ==
    [][phase' = phase =>
          IF phase = "encode" THEN read' - len' > read - len ELSE read' > read]_vars
=============================================================================
