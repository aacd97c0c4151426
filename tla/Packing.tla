------------------------------ MODULE Packing ------------------------------
(***************************************************************************)
(* What happens to one buffer of CULZSS between the copies of GpuStreams:  *)
(* the threads of EncodeKernel find a token for every position of a packet *)
(* (gpu_compress.cu), aftercomp packs the tokens it needs, the wrapper     *)
(* adds the trailer, and gpu_decompress.cu turns the chunk back.           *)
(*                                                                         *)
(* The threads of a block advance together from one __syncthreads() to the *)
(* next, in any order in between: a thread that has passed n barriers and  *)
(* does its next step has phase n.  Blocks share no memory and are taken   *)
(* one after another.  An entry of the trailer is one cell instead of two  *)
(* or four bytes.                                                          *)
(***************************************************************************)
EXTENDS Integers, Sequences, SequencesExt

CONSTANTS Symbol, Blank, Caret,  \* bytes; ' ' and '^' are among them
          MAX_CODED,             \* threads of a block; WINDOW_SIZE is the same
          MAX_UNCODED, PCKTSIZE,
          FLAGS,                 \* flags in a flag byte (8 in the code)
          Inputs                 \* the buffers to compress, whole packets each

WINDOW_SIZE == MAX_CODED
Rounds == PCKTSIZE \div MAX_CODED
Threads == 0 .. MAX_CODED - 1
Cyclic == WINDOW_SIZE + MAX_CODED
Unset == -1

ASSUME SizesAssumption ==
    /\ MAX_CODED \in Nat \ {0} /\ MAX_UNCODED \in Nat \ {0} /\ FLAGS \in Nat \ {0}
    /\ PCKTSIZE \in Nat /\ PCKTSIZE % MAX_CODED = 0 /\ Rounds >= 2
    /\ {Blank, Caret} \subseteq Symbol
    /\ \A s \in Inputs : s \in Seq(Symbol) /\ Len(s) > 0 /\ Len(s) % PCKTSIZE = 0

VARIABLES input,                           \* what the producer read
          stage,
          block,                           \* the packet the kernel works on
          phase, slidingWindow, uncodedLookahead,
          bufferout,                       \* the token of every position
          job,                             \* the locals of aftercomp
          buffer,                          \* the chunk, then what is decoded
          decoded                          \* packets DecodeKernel has finished

vars == <<input, stage, block, phase, slidingWindow, uncodedLookahead,
          bufferout, job, buffer, decoded>>
kernel == <<block, phase, slidingWindow, uncodedLookahead, bufferout>>

buf_length == Len(input)
Packets == 0 .. buf_length \div PCKTSIZE - 1
Byte(p) == input[block * PCKTSIZE + p + 1]    \* in_d[bx * PCKTSIZE + p]

-----------------------------------------------------------------------------
(* EncodeKernel *)

Cells == [c \in 0 .. Cyclic - 1 |-> Unset]

\* Mistake: a __syncthreads() is missing.
NoBarrier(t) == phase[t] \in Nat
Barrier(t) == \A u \in Threads : phase[u] >= phase[t]

\* Mistake: the last round is not cut short.
MaxCheckAlways(t, last) == MAX_CODED
MaxCheck(t, last) == IF last THEN MAX_CODED - t ELSE MAX_CODED

\* The search of thread t from windowHead: the longest run of equal bytes,
\* and where it starts; after[n] is its state after n cells.
FindMatch(t, windowHead, uncodedHead, last) ==
    LET steps == IF MaxCheck(t, last) <= 2 THEN 1 ELSE MaxCheck(t, last) - 1
        Better(a) == IF a.j > a.length
                     THEN [a EXCEPT !.length = a.j,
                                    !.offset = (a.i - a.j) % Cyclic]
                     ELSE a
        after[n \in 0 .. steps] ==
            IF n = 0 THEN [i |-> windowHead, j |-> 0, length |-> 1, offset |-> 1]
            ELSE LET a == after[n - 1]
                     next == (a.i + 1) % Cyclic
                 IN  IF slidingWindow[a.i] = uncodedLookahead[(uncodedHead + a.j) % Cyclic]
                     THEN [a EXCEPT !.i = next, !.j = a.j + 1]
                     ELSE [Better(a) EXCEPT !.i = next, !.j = 0]
    IN  Better(after[steps])

\* The two bytes of a position: 1 and the symbol, or a length and an offset.
Token(t, length, offset, uncodedHead, last) ==
    LET shorter == IF last /\ length > MAX_CODED - t THEN MAX_CODED - t ELSE length
        n == IF shorter >= MAX_CODED THEN MAX_CODED - 1 ELSE shorter
    IN  IF n <= MAX_UNCODED THEN <<1, uncodedLookahead[uncodedHead]>>
        ELSE <<n, offset>>

\* Step n of a thread: fill the window, load twice, then alternately find and
\* write a token (Emit) and move on by MAX_CODED positions (Shift).
EmitPhase(r) == 3 + 2 * r
ShiftPhase(r) == 2 + 2 * r
AfterLast == EmitPhase(Rounds - 1) + 1

Step(t, n) == /\ stage = "kernel" /\ phase[t] = n /\ Barrier(t)
              /\ phase' = [phase EXCEPT ![t] = n + 1]
              /\ UNCHANGED <<input, stage, block, job, buffer, decoded>>

Fill(t) ==
    /\ Step(t, 0)
    /\ slidingWindow' = [slidingWindow EXCEPT ![t] = Blank]
    /\ UNCHANGED <<uncodedLookahead, bufferout>>

LoadFirst(t) ==
    /\ Step(t, 1)
    /\ uncodedLookahead' = [uncodedLookahead EXCEPT ![t] = Byte(t)]
    /\ slidingWindow' = [slidingWindow EXCEPT ![(t + WINDOW_SIZE) % Cyclic] = Byte(t)]
    /\ UNCHANGED bufferout

LoadSecond(t) ==
    /\ Step(t, 2)
    /\ uncodedLookahead' = [uncodedLookahead EXCEPT ![MAX_CODED + t] = Byte(MAX_CODED + t)]
    /\ UNCHANGED <<slidingWindow, bufferout>>

\* The barrier between the first search and its token is left out: nothing
\* either of them reads is written before the next one.
Emit(t) == \E r \in 0 .. Rounds - 1 :
    LET head == (t + r * MAX_CODED) % Cyclic
        last == r = Rounds - 1
        match == FindMatch(t, head, head, last)
    IN  /\ Step(t, EmitPhase(r))
        /\ bufferout' = [bufferout EXCEPT ![block * PCKTSIZE + r * MAX_CODED + t + 1] =
                            Token(t, match.length, match.offset, head, last)]
        /\ UNCHANGED <<slidingWindow, uncodedLookahead>>

\* Round r begins: load the bytes of round r + 1, or note that there are none.
Shift(t) == \E r \in 1 .. Rounds - 1 :
    LET head == (t + r * MAX_CODED) % Cyclic
        filepoint == (r + 1) * MAX_CODED
        own == (head + WINDOW_SIZE) % Cyclic
    IN  /\ Step(t, ShiftPhase(r))
        /\ IF filepoint < PCKTSIZE
           THEN /\ uncodedLookahead' = [uncodedLookahead EXCEPT ![own] = Byte(filepoint + t)]
                /\ slidingWindow' = [slidingWindow EXCEPT ![own] = uncodedLookahead[head]]
           ELSE /\ slidingWindow' = [slidingWindow EXCEPT ![own] = Caret]
                /\ UNCHANGED uncodedLookahead
        /\ UNCHANGED bufferout

\* The next block of the grid; after the last one the buffer is copied back.
NextBlock ==
    /\ stage = "kernel" /\ \A t \in Threads : phase[t] = AfterLast
    /\ IF block + 1 \in Packets
       THEN block' = block + 1 /\ phase' = [t \in Threads |-> 0] /\ UNCHANGED stage
       ELSE stage' = "pack" /\ UNCHANGED <<block, phase>>
    /\ slidingWindow' = Cells /\ uncodedLookahead' = Cells
    /\ UNCHANGED <<input, bufferout, job, buffer, decoded>>

-----------------------------------------------------------------------------
(* aftercomp, and the wrapper that starts and joins its one thread *)

\* flagPos for token k of a group: 1, 2, 4, ... Top, which is 0x80.
FlagBit[k \in 0 .. FLAGS - 1] == IF k = 0 THEN 1 ELSE 2 * FlagBit[k - 1]
Top == FlagBit[FLAGS - 1]
NewJob == [flags |-> 0, flagPos |-> 1, holdbuf |-> <<>>,
           i |-> 0, tempj |-> 0, header |-> <<>>]

\* One pass of the loop: a token is held back with its flag, a full group is
\* written, and at the end of a packet so is the rest, and its size noted.
Hold(token) ==
    [job EXCEPT !.flags = IF token[1] = 1 THEN @ + job.flagPos ELSE @,
                !.holdbuf = IF token[1] = 1 THEN Append(@, token[2]) ELSE @ \o token,
                !.i = @ + token[1]]

Flush(held) == <<held.flags>> \o held.holdbuf

\* Mistake: the flag position is not reset at the end of a packet.
NextGroupSameFlag(held) ==
    [held EXCEPT !.flags = 0, !.holdbuf = <<>>, !.flagPos = IF @ = Top THEN 1 ELSE 2 * @]
NextGroup(held) == [held EXCEPT !.flags = 0, !.flagPos = 1, !.holdbuf = <<>>]

AtPacketEnd(held) == held.i % PCKTSIZE = 0

PackToken ==
    LET held == Hold(bufferout[job.i + 1])
        full == held.flagPos = Top
        rest == AtPacketEnd(held) /\ ~full
        written == IF full \/ rest THEN buffer \o Flush(held) ELSE buffer
        next == IF full \/ rest THEN NextGroup(held) ELSE [held EXCEPT !.flagPos = 2 * @]
    IN  /\ stage = "pack" /\ job.i < buf_length /\ Len(buffer) <= buf_length
        /\ buffer' = written
        /\ job' = IF AtPacketEnd(held)
                  THEN [next EXCEPT !.header = Append(@, Len(written) - next.tempj),
                                    !.tempj = Len(written)]
                  ELSE next
        /\ UNCHANGED <<input, stage, kernel, decoded>>

\* No room: the wrapper returns 0 and the consumer restores its backup.
TookMore ==
    /\ stage = "pack" /\ job.i < buf_length /\ Len(buffer) > buf_length
    /\ stage' = "chunk" /\ buffer' = input
    /\ UNCHANGED <<input, kernel, job, decoded>>

\* Packet sizes, total size and pad size follow; a chunk longer than the
\* buffer is reported and returned all the same.
AddTrailer ==
    /\ stage = "pack" /\ job.i >= buf_length
    /\ stage' = "chunk" /\ buffer' = buffer \o job.header \o <<buf_length, 0>>
    /\ UNCHANGED <<input, kernel, job, decoded>>

-----------------------------------------------------------------------------
(* gpu_decompress.cu *)

origsize == buffer[Len(buffer) - 1]
numblocks == origsize \div PCKTSIZE
SizeOf(b) == buffer[Len(buffer) - 2 - numblocks + b + 1]
sizearr[b \in 0 .. numblocks] == IF b = 0 THEN 0 ELSE sizearr[b - 1] + SizeOf(b - 1)

\* DecodeKernel's loop: d.at bytes of the packet are read, d.out is written.
DecodeStart == [at |-> 0, flags |-> 0, flagsUsed |-> FLAGS - 1, out |-> <<>>, end |-> FALSE]

WindowAt(out, cell) ==    \* slidingWindow[cell] once out has been written
    LET newest == (Len(out) - 1) - ((Len(out) - 1 - cell) % WINDOW_SIZE)
    IN  IF newest >= 0 THEN out[newest + 1] ELSE Blank

ReadFlags(d, in) ==
    IF d.flagsUsed + 1 < FLAGS
    THEN [d EXCEPT !.flags = @ \div 2, !.flagsUsed = @ + 1]
    ELSE IF d.at >= Len(in) THEN [d EXCEPT !.end = TRUE]
    ELSE [d EXCEPT !.flags = in[d.at + 1], !.flagsUsed = 0, !.at = @ + 1]

ReadToken(d, in) ==
    IF d.end THEN d
    ELSE IF d.flags % 2 = 1
    THEN IF d.at >= Len(in) THEN [d EXCEPT !.end = TRUE]
         ELSE [d EXCEPT !.out = Append(@, in[d.at + 1]), !.at = @ + 1]
    ELSE IF d.at + 1 >= Len(in) THEN [d EXCEPT !.end = TRUE]
         ELSE [d EXCEPT !.at = @ + 2,
                 !.out = @ \o [q \in 1 .. in[d.at + 1] |->
                                  WindowAt(d.out, (in[d.at + 2] + q - 1) % WINDOW_SIZE)]]

\* Every pass of the loop reads a byte, or takes one of FLAGS flags, or ends.
DecodePacket(in) ==
    LET pass[n \in 0 .. FLAGS * Len(in) + 1] ==
            IF n = 0 THEN DecodeStart
            ELSE LET d == pass[n - 1]
                 IN  IF d.end THEN d ELSE ReadToken(ReadFlags(d, in), in)
    IN  pass[FLAGS * Len(in) + 1].out

\* A chunk as long as a block is taken for one that was not packed; a longer
\* one has overrun the buffer it was packed and is received in.
TakenForRaw == /\ stage = "chunk" /\ Len(buffer) = buf_length
               /\ stage' = "end"
               /\ UNCHANGED <<input, kernel, job, buffer, decoded>>

Overrun == /\ stage = "chunk" /\ Len(buffer) > buf_length
           /\ stage' = "lost"
           /\ UNCHANGED <<input, kernel, job, buffer, decoded>>

DecodeKernel(b) ==
    /\ stage = "chunk" /\ Len(buffer) < buf_length
    /\ b \in 0 .. numblocks - 1 /\ decoded[b] = <<>>
    /\ decoded' = [decoded EXCEPT ![b] =
                      DecodePacket(SubSeq(buffer, sizearr[b] + 1, sizearr[b + 1]))]
    /\ UNCHANGED <<input, stage, kernel, job, buffer>>

CopyBack ==
    /\ stage = "chunk" /\ Len(buffer) < buf_length
    /\ \A b \in 0 .. numblocks - 1 : decoded[b] # <<>>
    /\ stage' = "end"
    /\ buffer' = FlattenSeq([b \in 1 .. numblocks |-> decoded[b - 1]])
    /\ UNCHANGED <<input, kernel, job, decoded>>

-----------------------------------------------------------------------------
Init == /\ input \in Inputs
        /\ stage = "kernel" /\ block = 0
        /\ phase = [t \in Threads |-> 0]
        /\ slidingWindow = Cells /\ uncodedLookahead = Cells
        /\ bufferout = [p \in 1 .. buf_length |-> <<>>]
        /\ job = NewJob /\ buffer = <<>>
        /\ decoded = [b \in Packets |-> <<>>]

Next == \/ \E t \in Threads : Fill(t) \/ LoadFirst(t) \/ LoadSecond(t) \/ Emit(t) \/ Shift(t)
        \/ NextBlock \/ PackToken \/ TookMore \/ AddTrailer
        \/ TakenForRaw \/ Overrun \/ CopyBack
        \/ \E b \in Packets : DecodeKernel(b)

Spec == Init /\ [][Next]_vars

-----------------------------------------------------------------------------
\* Types; and every packet unpacks to exactly its length, in its own slot.
TypeOK ==
    /\ stage \in {"kernel", "pack", "chunk", "end", "lost"}
    /\ phase \in [Threads -> 0 .. AfterLast]
    /\ job.i \in 0 .. buf_length /\ job.flagPos \in 1 .. Top
    /\ \A b \in Packets : Len(decoded[b]) \in {0, PCKTSIZE}

\* The threads of a block share a window and a lookahead that slide under
\* them.  Whatever the order they run in between two barriers, the token a
\* thread leaves for its position says what follows there, in terms of what
\* the decoder will have in its window at that position, and ends within the
\* packet: the '^' cells and the bytes of the round before never match.
TokensDecodable ==
    \A p \in DOMAIN bufferout :
        bufferout[p] # <<>> =>
        LET n == bufferout[p][1]
            start == ((p - 1) \div PCKTSIZE) * PCKTSIZE
            before == SubSeq(input, start + 1, p - 1)
        IN  IF n = 1 THEN bufferout[p][2] = input[p]
            ELSE /\ p - 1 + n <= start + PCKTSIZE
                 /\ \A q \in 0 .. n - 1 :
                        input[p + q] = WindowAt(before, (bufferout[p][2] + q) % WINDOW_SIZE)

\* A buffer that is packed into less than its length, or that is given up,
\* comes back as it was.  (A packed chunk of exactly the buffer's length is
\* taken for a raw one, and a longer one overruns the buffer.)
LosslessIfRoom ==
    stage = "end" => \/ buffer = input
                     \/ job.i = buf_length /\ Len(buffer) = buf_length
                           /\ decoded = [b \in Packets |-> <<>>]
=============================================================================
