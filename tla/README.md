# Verification of hp-project: parallel lossless compression

The repository holds three compression methods, each in a serial form and in
forms for CUDA and OpenCL devices:

| | serial | CUDA | OpenCL |
|---|---|---|---|
| LZSS | `src/LZSS/Serial` | `src/LZSS/Cuda` (CULZSS) | `src/LZSS/OpenCL` |
| Run-length encoding | in both RLE programs | `src/RLE/Serial_VS_CUDA` | `src/RLE/Serial_VS_OpenCL` |
| Burrows-Wheeler | `src/Burrows-Wheeler/Serial` | `.../Cuda` | `.../OpenCL` |

`src/README.md` promises "lossless compression algorithms". That is the property
behind everything here: what is decompressed is what was compressed, whatever the
threads, the device and the work-items do in between.

This directory holds TLA+ models of these programs, TLC configurations that check
them on small instances, and proofs that TLAPS checks for all instances.

## 1. Inventory

### CULZSS compression (`main.c`, `culzss.c`)

Four threads, `producer`, `gpu_consumer`, `cpu_consumer` and `cpu_sender`, pass
the blocks of a file through one ring of slots (`queue`).

* State: the ring's buffers `buf`, `bufout`, `outsize`; `ledger[slot]`, which
  stage a slot waits for; four heads, each private to one thread but kept in the
  shared structure; a loop counter in each thread; one mutex and three condition
  variables; `exit_signal`; the header `bookkeeping`.
* Operations: each stage waits for its slot, works on it (mostly without the
  mutex), increments the ledger, moves its head on and signals one other stage.
  The GPU stage only issues work; the CPU stage polls for its end, backs the block
  up, packs the tokens over it, and restores the backup if packing fails. The
  sender writes chunks and offsets. `main` joins the threads and frees the queue.
* Hard: a signal sent after the unlock; a polling loop among three waiting
  threads; buffers used without a lock; a device that works asynchronously on
  them; undoing a failed packing; a packing that writes past its buffer; a header
  written in pieces; processes that end in the middle.
* Correct if: no two use a slot at once; no wakeup is lost; the file holds the
  blocks in order and its header describes it; nothing is used after it is freed;
  every block arrives and `main` returns, unless the mutex or a failed device keeps a thread for ever.

### Interrupt handling (`main.c` `signal_callback_handler`, `culzss.c` `signalExitThreads`)

SIGINT runs `queueDelete` on whichever thread it hits. `exit_signal` counts, without
a lock, the handler and the three consumers that have left. Hard: it may hit any
thread at any step. Correct if the queue is freed after the consumers have left,
and the process ends.

### CULZSS decompression (`decompression.c`, `deculzss.c`)

Three threads, `receiver`, `degpu_consumer`, `decpu_consumer`, over a ring
(`dequeue`) of the same kind. The size of a chunk is the difference of two offsets
of the header; a chunk of exactly one block's size is taken for an uncompressed one.
The padding, computed by `main` when compressing and kept in the header, is cut off the last write.
Correct if the restored file is the original, and as above.

### CULZSS device work (`gpu_compress.cu`)

16 CUDA streams per slot, three operations in each (copy in, kernel, copy out). The
buffers on the device are shared by all slots in flight; the host polls the last
stream only. CUDA orders the operations of one stream and promises nothing about two; the code uses no event and
asks the device it takes (`cudaSetDevice(0)`) for nothing. Correct if the host packs the tokens of the block it thinks
it packs and the device leaves a slot alone once it is found done, which can only be so up to the overtaking CUDA allows.

### CULZSS kernels and packing (`gpu_compress.cu`, `gpu_decompress.cu`)

`EncodeKernel` finds a token for every position of a 4 KiB packet, 128 threads at a time with
three barriers a round over a window and a lookahead in shared memory; `aftercomp` packs
the tokens it needs on the host and gives up when it runs out of room; the wrapper adds a trailer of
packet lengths; `DecodeKernel` undoes a packet per thread. Hard: which thread reads which half of
the shared buffers between which barriers; the last round, whose lookahead is stale; a test for room that comes one token late.
Correct if the packets decode to the buffer whenever there was room.

### LZSS, serial and OpenCL (`lzss.c`, `brute.c`, `list.c`; `temp.c`; `encode.cl`, `decode.cl`)

A cyclic window of past symbols and a cyclic lookahead of coming ones; tokens are
symbols or (offset, length) pairs. `list.c` keeps a linked list per symbol through the window.
Hard: two cyclic indices, the end of the input (stale lookahead, half-filled flag
bytes), matches over the head of the window, positions that leave the head of one list and join the end of another,
an array of lists that is one cell short.
Correct if encoder and decoder see the same window at every token.

### Serial bit files (`bitfile.c`)

Bits collect in one byte in front of a `FILE`; characters, bits and multi-byte numbers in the
machine's byte order pass through it. Hard: operations of different sizes
mixed while some bits wait, append, close on a full device. Correct if reading with the same operations gives back what was written.

### OpenCL LZSS host (`src/LZSS/OpenCL/lzss.c`)

Cuts a file into blocks, runs one work-item per block, writes the number of blocks and
each block's length as text before the blocks, and parses that back. Hard: the output blocks lie side by side
in one buffer and an incompressible one is larger than its place; the number is parsed from an
unterminated array; a short last block leaves the encoder empty. Correct if every block comes back in its place.

### RLE (`kernel.cu`; `main.cpp`, `main.cl`)

Mask, prefix sum, compaction, scatter: three kernels over work-items in any order, a
host between them; the CUDA program reuses its buffers from one input to the next. A verification accepts
or rejects each result. Correct if the runs restore the input, and if nothing else is accepted.

### Burrows-Wheeler (`bwxform.c`; `bwtcl.c`, `transform.cl`, `reverse.cl`; `cuda-bwt.cu`, `*.cuh`)

Sort the rotations of a block, keep the last column and the index of the original;
optionally move-to-front. The serial sort is a radix sort by two symbols, then `qsort`
of the rotations that agree in them; the OpenCL program takes all blocks through each step
together, with the radix sort, the last columns and the reversal on the device; the CUDA program sorts
the whole file in rounds by buckets of bytes and between two rounds finds the groups of rotations that are still equal,
a thread per place. Hard: three partial sorts that have to add up to one; equal rotations of periodic
blocks; a number of blocks derived from a file size that includes the indexes; threads that mark
each other's places. Correct if the rotations are sorted and the input is restored.

## 2. Modules

| Module | Models |
|---|---|
| `CulzssFormat` | what a buffer or chunk can hold: which block, raw, packed or garbled, how many bytes |
| `BlockStream` | abstract: a bounded first-in first-out stream of blocks that ends or fails |
| `Culzss` | the compression pipeline, thread by thread; implements `BlockStream` |
| `CulzssInterrupt` | `Culzss` composed with the SIGINT handler |
| `Deculzss` | the decompression pipeline; implements `BlockStream` |
| `SlotDevice` | abstract: the device as `Culzss` assumes it, one step per slot |
| `GpuStreams` | the streams and device buffers behind it, in every order CUDA allows; implements `SlotDevice` up to the first step that does harm |
| `Packing` | one buffer between the copies: kernel, packing, trailer, decoding kernel |
| `Lzss` | serial LZSS with either search, `temp.c`, and one work-item of the OpenCL kernels; encode, then decode |
| `BitFile` | the bit file library under serial LZSS |
| `LzssBlocks` | the OpenCL LZSS host around `Lzss`'s work-items |
| `Rle` | the four run-length encoders and the verification |
| `Bwt` | serial and OpenCL Burrows-Wheeler transform of a file and its reversal |
| `BwtCuda` | `Bwt` with the CUDA program as a further transform |
| `Ring` | the ring of slots both pipelines use: heads, counters and ledger |
| `CulzssInv`, `DeculzssInv` | the inductive invariants of the pipelines |
| `PipelineLemmas` | lemmas on `Ring` and on the sequence of blocks, for any set of stages |
| `CulzssProofs` (with `CulzssInterrupt`), `DeculzssProofs`, `LzssProofs`, `RleProofs`, `BwtProofs` | theorems about the module in their name |
| `GpuProofs` | theorems about `GpuStreams` and `Packing` |
| `LzssFilesProofs` | theorems about `LzssBlocks` and `BitFile` |
| `MC*` | bounds, and the stuttering of a program that is over |

How they compose: `CulzssInterrupt` EXTENDS `Culzss` and wraps its steps.
`Culzss!DeviceRun` treats all device work of a slot as one step; `GpuStreams` shows
up to where that is right (section 8), and `Packing` what the device and `cpu_consumer` do to the buffer.
`CulzssFormat` is the interface of compressor and
decompressor: `OutputInOrder` and `HeaderDescribesFile` say which files `Culzss`
writes, and `Deculzss!Init` starts from these. `LzssBlocks` treats as a row of cells what a work-item of `Lzss`
makes of its block. `BwtCuda` EXTENDS `Bwt`: its file is read back by `Bwt`'s two reversals.

## 3. State and actions

**`Culzss`.** `pc[t]` is where a thread is, with a label before each lock, wait,
unlock-and-work and signal, that is, wherever another thread may see a difference.
`Acquire`, `NotReady`, `CondWait`, `Ready`, `Signal`, `SpuriousWakeup` model the mutex
and condition variables (a wait gives the mutex up and sleeps in one step, a wakeup may
be spurious, a signal with nobody waiting is lost). `NotReady("cpu")` is the
unlock-and-retry of `cpu_consumer`. `Publish` is the ledger, the head and the
unlock, one step as the mutex is held throughout. Work on buffers is a step of its own
(`ProducerFill`, `GpuIssue`, `CpuSync`, `CpuBackup`, `CpuPackFits`, `CpuPackFails`,
`CpuRestore`, `SenderSend`). `JoinConsumers` to `MainReturn` are `main`. `Fail` ends the
process where the code calls `exit` (short reads, CUDA errors, failing `fopen`).
A buffer's content is a block number and a form; its bytes are not modelled.
`DeviceError` is device work that fails before the host has asked for it: `cudaStreamQuery` then never returns
`cudaSuccess`, so `CpuSync` waits for ever and the `checkCUDAError` behind the loop (`gpu_compress.cu:422`) is not reached.
A packing may write past the end of its buffer, because the packed form is longer than the block (`gpu_compress.cu:664` only
prints) or because a worker of `aftercomp` notices too late that it has run out of room. `PackInto` has the outcomes: nothing comes of it, the
buffer that lies behind (`Behind`, any of the slots' buffers: each is an allocation of its own) is spoilt and `spills` counts it, or the process dies (`Fail`).

**`CulzssInterrupt`.** `Interrupt(t)` stops thread `t` for good (the handler never
returns); the handler's own steps are `HandlerSignalExit`, `HandlerDelete`,
`HandlerExit`. The exit tests at the top of each consumer's loop are in
`Culzss!Enter`.

**`Deculzss`.** As `Culzss`. `Decompress` decides by the chunk's size alone. A chunk longer
than its buffer overruns it (`ReceiveOverrun`): undefined, and counted as a process
that is lost.
`padding` is the second number of the header: `main` computes it when compressing (`PaddingOf`), another run of the program reads it, and `Write` leaves
that much out of the last block. The reader does not know `totalsize`, the original's length; `RestoredWhole` compares with it.

**`GpuStreams`.** `ran[b][g]` counts the operations the device has done for segment `g` of block `b`, `Called` those the host has
queued. `IssueCall` is one CUDA call, so the device may run between the calls of one block. An operation may run if it is the first of its stream
(`Runnable`): nothing orders different streams. Segments hold the number of the block their bytes are of. Two history
variables name the steps that do harm: a segment is `crossed` if another block is copied over its bytes while they are in use on the device, and
`late` if it is not yet finished when the last stream of its block is.

**`Packing`.** `phase[t]` counts what thread `t` has done in its packet; a barrier is the condition that nobody is behind.
Each step of a thread reads the shared arrays as they are at that moment, so the order of the
threads matters wherever the code lets it. `aftercomp` is a step per token, `DecodeKernel` a step per packet
(its threads share nothing).

**`Lzss`.** One step per token. The replacement loops move `n` symbols through both
buffers: `Slid` and `Refilled` are these loops in closed form; with `list.c` the lists follow symbol by symbol.
`list.c` declares 255 lists (`lists[UCHAR_MAX]`) and empties and uses 256, so the head of byte 255's list lies in the first cell behind the
array. Where it is nobody's, there is a head for every symbol; where a build has put a variable there, emptying it
overwrites that variable, and nothing is claimed of the program any more (`StartOverwriting`). gcc gives the array's 1020 bytes a place of 1024, so
there the cell is padding. `ListMatch` takes the first symbol of a position on trust, as the code does (`MatchesOnward`).
The search that the
code does at the end of each turn is done at the beginning of the next, on the
same buffers. Output is a sequence of cells: a group of flags, a symbol, an offset, a
length. The serial program's groups have one flag, those of `temp.c` and the kernel eight.

**`BitFile`.** A writer, perhaps a second one that appends, then a reader which makes the same calls. Each call is an
action on the state as a value: `PutChar`, `PutBit` and the others take such a value to the next one, so
that a call made of others is their composition, as in the code, and stops where one of them fails.

**`LzssBlocks`.** A work-item writes its id, each symbol and its length as steps of its own into the one buffer. How long a block becomes is open, but
for a last block that fits into the lookahead (`NeverEncoded`): the encoder's loop is not entered, its length is 0 and nothing comes back of it. The way back parses the
text of each length; where the array behind the number of blocks is not terminated, it may also end undefined.

**`Rle`.** One step per work-item and position it handles. `todo` says which positions are
left to which work-item; positions of one work-item are done in order, work-items interleave
freely. Buffers start unset in OpenCL and keep the last input's values in CUDA. `Verify` is
`verifyCompression` with its caller; `DeviceFails` leads there with the results of the input before.

**`Bwt`.** One step per block and stage: read, radix sort, sort of the groups, last column (with
move-to-front), write; then read, reverse (with move-to-front undone) and write. The serial program
finishes a block before it reads the next, the OpenCL program each stage before the next one; in its kernels
blocks go in any order. `GroupSorts` is the set of results `qsort` may leave: equal rotations
in any order. Counting is in closed form: `Pass` and `Pred` say where the counters send a
rotation. Failures end in "failed" where the code notices them and in "undefined" where it goes
on with arrays nobody has filled. The reversing program may be the other one of the two.

**`BwtCuda`.** `thread[i]` counts the kernels' steps of the thread of place `i`; the two halves of `BuildMatches` are separated by a barrier of
the block, kernels by their end. A walk is one step, and so is the host's part of a round (`Round`), where only
the order of two pushes to one place counts.

## 4. Runs

| Run | Question | Bounds | Result |
|---|---|---|---|
| `culzss_safety` | ring, locks, buffers, file, header, frees; implements `BlockStream` with failures | 4 blocks, 3 slots, packed forms longer than a block, one spoilt buffer | holds (1.08 million states) |
| `culzss_live` | the process ends, but for two cases the code does not exclude; types and the inductive invariant | 3 blocks, 2 slots, packed forms shorter and longer than a block | holds (193,000) |
| `interrupt_safety` | the queue is freed only when the consumers have left | 3 blocks, 2 slots, 1 signal, no faults | holds (1.96 million) |
| `deculzss` | restored file and its length, one user of a slot, frees, delivery | 3 blocks of 3 bytes, a last one of 1 to 3, 2 slots, chunks shorter than, longer than and as long as a block | holds (295,000) |
| `gpu_streams` | whose tokens the host packs, what is left over when it does; implements `SlotDevice` up to the first harm | 3 blocks, 2 slots, 2 streams each, every order CUDA allows | holds (286,000) |
| `packing` | tokens of concurrent threads, packed, cut and decoded, are the buffer | packets of 18 with 6 threads, about 140 buffers of one and two packets | holds |
| `lzss` | buffers and lists follow the input, both searches agree, decoder follows encoder, the serial programs are lossless, loops end | all inputs of up to 11 symbols out of 2, window 8, longest match 4 | holds (269,000) |
| `bitfile` | what is put is read, all of it | 3 operations, bytes of 3 bits, numbers of 3 bytes, 2 endiannesses, devices of 2 and 9 bytes | holds |
| `lzss_blocks` | work-items stay apart, blocks come back in place | 3 blocks of 2, a lookahead of 1, growth of up to 3 cells | holds (41,000) |
| `rle` | runs restore the input, but for the two kinds of input below; nothing else is accepted | up to 4 symbols, 2 inputs in a row | holds |
| `bwt` | rotations sorted, input restored, by either program; after a failure a prefix of it | all inputs of up to 5 symbols out of 3, blocks of 4 | holds |
| `bwt_cuda_order` | the CUDA program sorts the rotations, input "cabcbab" | 7 symbols, one thread block | **violated** |

Why the bounds are enough. *Pipelines*: with more blocks than slots each head wraps,
and with three slots and four stages (and the device) stages must wait for each other in
both directions; four blocks let the first slot be reused while the others are in flight. `MaxSpills` bounds the spoilt buffers. One is enough
for the safety run: behind the last slot's `buf` lies another slot's `buf` or `bufout` (`MCBehind`), which is
hit in whatever phase its block is in meanwhile, and from then on only the order of the blocks is claimed.
Liveness is checked with two slots and three blocks, where the ring is full and empty; bytes do not matter there, so nothing is spoilt.
`CompLens` has one length below a block's and one above, and in `deculzss` also the block's own: only the comparison with
a block matters. *Streams*: of two streams one is polled and the other is not; three blocks over two slots reuse a slot while the other
is in flight, and share the segments on the device with the block before and the one after. Of the middle streams none differs from the first.

*Packing*: three rounds a packet make a first, a middle and the last one; the buffers are all mixtures of blank
and `^` (what pads the window, and the lookahead of the last round) at seven positions, runs that begin and
end inside and across rounds, and buffers without repetition, which do not fit. Interleavings are exhaustive for each.

*LZSS*: inputs longer than the window and the lookahead wrap both indices; a group of
three flags is both filled and left half-filled. *Bit files*: bytes of three bits and counts of 1 to 5 make every split
of an operation at every number of waiting bits; two bytes of room fill up in the middle of an operation and on closing.
*Blocks*: two groups of two work-items for three blocks leave one without a block; base 2 gives lengths of one to three digits; a last block of one symbol fits into the lookahead.

*RLE*: four positions have all patterns of equal and unequal neighbours up to the
symbols' names; three CUDA work-items over four positions make one of them stride.

*BWT*: blocks of four over three symbols include all periodic ones (periods one and two) and groups
that differ in the third symbol only and in the fourth only; five symbols make a short last block, and a file in
which the OpenCL reader counts a block too many. For the CUDA program the passing run has one thread block and buckets of one byte, so
that five symbols take several rounds; the shortest input found to go wrong in one block has seven symbols.

Every property of a passing run has a mutant in `PROJECT.json`: an operator of the
same module, marked "Mistake" in its comment, with which the property fails.

## 5. Fairness

Compression (`Culzss!Fairness`):

* Each thread and `main` are weakly fair: who can go on for ever does so at some time. The device finishes what is issued, or fails.
* Of the mutex nothing is assumed. POSIX does not say who gets it, and `cpu_consumer` unlocks and locks in a loop while its slot is not
  ready, so for the others it is free only now and again, and they may be passed over for ever.
* Nothing is assumed of failures, spurious wakeups or signals.

`EndsUnlessStuck` therefore names what may keep the process from ending: a thread stands at the mutex for ever while `cpu_consumer` goes round its
loop, or spurious wakeups go on, without end (`Starved`), or `cpu_consumer` polls a stream that has failed (`PollsForEver`). Without either of them
TLC finds a run that does not end. What is left is what the threads' own protocol has to achieve: no lost wakeup, no deadlock, no wait for a thread that waits too.

Decompression (`Deculzss!Fairness`): threads are weakly fair, and taking the mutex is strongly fair. `deculzss.c` and `receiver` have no loop that
polls under the mutex: a thread whose slot is not ready sleeps. Strong fairness is needed only against spurious wakeups without end.

The other modules need no fairness: `TurnsMakeProgress` bounds the LZSS loops by an action
property, and the rest are loops with a counter.

## 6. Findings

**The CUDA transform may lose a rotation** (`bwt_cuda_order`). In `BuildMatches` the last place compares itself
with place 0. If an equal bucket of another group stands there, it is neither matched nor marked as
sorted, and the next round pushes its rotation over one that was in place. `src/Burrows-Wheeler/Cuda/README.md`
says of these kernels that they keep partially sorted data together correctly. With more than one thread block four symbols
are enough ("abbc" in blocks of two), as `BetweenSorted` then may see its neighbours too early or too late.

What else the models show, listed as hazards and excluded by name where a property needs it:

* `signalExitThreads` spins until three others have counted themselves out. A consumer the handler interrupted
  never does, and `main`'s `exit_signal = 3` may overwrite counts: after SIGINT the process need not end. That
  the queue is never freed too early (`FreedAfterConsumersLeft`) is the other side of this.
* A packed chunk of exactly one block's length is not unpacked (`Deculzss!TakenForRaw`): the format has no
  flag and the reader goes by the size.
* Blocks in flight share the buffers `in_d` and `out_d` of the device, and nothing orders their streams: the next block's copy may
  overwrite `in_d` before the kernel of the block before has read it (`crossed`). And the host polls the last of 16 streams, which
  may be done before others (`late`). The tokens of such segments may be another block's. A device with one copy engine may happen to run the
  copies as they were issued; the code does not ask for one.
* `onestream_finish_GPU` polls for ever if the device's work has failed: the query never returns `cudaSuccess`, and the error check comes after the loop.
* `cpu_consumer` may take the mutex again and again while its slot is not ready, and so keep the thread that would make it ready from it.
* A packed block may be longer than its buffer (`gpu_compress.cu:664` prints and goes on): the buffer behind is spoilt, or the process dies. The file still has all
  blocks in order, and the header describes it (`OutputInOrder`, `HeaderDescribesFile`).
* `list.c` empties and uses 256 lists and has 255 (`StartOverwriting`). Should the next variable be `next[0]`, most of the window is cut off its list.
* The OpenCL LZSS encoder drops the lookahead at the end of each block, up to 18 symbols (`LosslessButTail`); of a last block of at most 18 symbols
  nothing is written but a length of 0 (`LzssBlocks!NeverEncoded`).
* An incompressible OpenCL LZSS block outgrows its place in the output buffer (`LzssBlocks!Fit`).
* The OpenCL run-length encoder's buffer of positions is one short for inputs without repetition (`Rle!Fits`);
  `rleCpu` of `main.cpp` loses a last run of one symbol (`LastRunMissed`). The verification rejects the former, and so
  the program ends (`AcceptedIsLossless`).
* The producer may use the queue after a SIGINT has freed it.

## 7. Proofs

A theorem holds for every value of the constants that the `ASSUME`s of its module allow. These say that
numbers of slots, blocks, bits and so on are positive. Two say more: `LzssAssumption`, that the longest match is no
longer than the window (18 and 4096 in the code), and `BehindAssumption`, that what lies behind a slot's `buf` is not a buffer of the same slot.

| Theorem | States | Run |
|---|---|---|
| `CulzssProofs!InvariantHolds` | `Spec => []IInv` | `culzss_live` |
| `CulzssProofs!TypeCorrect`, `!RingConsistent` | `[]TypeOK`, `[]RingInv` | `culzss_live`, `culzss_safety` |
| `CulzssProofs!WakeupsNotLost` | `[]NoLostWakeup` | `culzss_safety` |
| `CulzssProofs!BuffersExclusive` | `[]OneUser` | `culzss_safety` |
| `CulzssProofs!FreedLast` | `[]NoUseAfterFree` | `culzss_safety` |
| `CulzssProofs!FileInOrder`, `!HeaderRight` | `[]OutputInOrder`, `[]HeaderDescribesFile` | `culzss_safety` |
| `CulzssProofs!PipelineIsStream` | `ImplementsStream`, a refinement | `culzss_safety` |
| `CulzssProofs!FreedBehindConsumers` | `IntSpec => []FreedAfterConsumersLeft` | `interrupt_safety` |
| `CulzssProofs!InterruptedInOrder`, `!InterruptedExclusive` | `IntSpec => []OutputInOrder`, `[]OneUser` | |
| `DeculzssProofs!SlotsExclusive`, `!FreedLast` | `[]OneUser`, `[]NoUseAfterFree` | `deculzss` |
| `DeculzssProofs!BlocksRestored`, `!LengthRestored` | `[]Lossless`, `[]RestoredWhole` | `deculzss` |
| `DeculzssProofs!PipelineIsStream` | `Stream!BSSpec`, a refinement | |
| `GpuProofs!InvariantHolds` | `GSSpec => []GSInv` | |
| `GpuProofs!TokensRight`, `!QueueClean` | `[]TokensOfTheirBlock`, `[]NothingLeftBehind` | `gpu_streams` |
| `GpuProofs!StreamsAreDevice` | `ImplementsSlotDevice`, a refinement | `gpu_streams` |
| `GpuProofs!KernelTokensDecodable` | `[]TokensDecodable` | `packing` |
| `GpuProofs!PacketsExact`, `!BufferComesBack` | `[]TypeOK`, `[]LosslessIfRoom` | `packing` |
| `LzssProofs!FollowsInput` | `[]BuffersFollowInput` | `lzss` |
| `LzssProofs!ProgressMade` | `TurnsMakeProgress`, an action property | `lzss` |
| `LzssProofs!PrefixDecoded`, `!AllDecoded` | `[]DecodesAPrefix`, `[]LosslessButTail` | `lzss` |
| `LzssProofs!ListsInvariant` | `Spec => []ListInv` | |
| `LzssProofs!ListsFollow`, `!SearchesFindTheSame` | `[]ListsFollowWindow`, `[]SearchesAgree` | `lzss` |
| `LzssFilesProofs!ItemsSuffice`, `!PartsKept` | `[]TypeOK`, `[]BlocksApart` | `lzss_blocks` |
| `LzssFilesProofs!RestoreInvariance`, `!BlocksComeBack` | `Spec => []RestoreInv`, `[]BlocksRestored` | `lzss_blocks` |
| `LzssFilesProofs!FilesInvariance`, `!BitsKeepTheirTypes` | `BFSpec => []BFInv`, `[]BFTypeOK` | `bitfile` |
| `LzssFilesProofs!SameBitsRead`, `!NoBitsLost` | `[]ReadsWhatWasPut`, `[]AllIsRead` | `bitfile` |
| `RleProofs!TypeCorrect`, `!EncodersLossless` | `[]TypeOK`, `[]LosslessIfFits` | `rle` |
| `RleProofs!VerificationSound` | `[]AcceptedIsLossless` | `rle` |
| `BwtProofs!ArraysSuffice` | `[]TypeOK` | `bwt` |
| `BwtProofs!RotationsAreSorted`, `!InputComesBack` | `[]RotationsSorted`, `[]Lossless` | `bwt` |

### The compression pipeline

`CulzssInv!IInv` is the inductive invariant; TLC checks it too. Each part is inductive given those before:

1. `RingIInv` = `TypeOK` + `LoopInv` (a thread inside its loop has a block left) + `ReadyInv`
   (while a stage works, the ledger of its slot stays as it found it) + `RingInv`. `RingInv` alone is not
   inductive: a stage increments the ledger after it has worked without the mutex, and only
   `ReadyInv` says that the value is still the one it tested.
2. `WaitInv` = `MutexInv` + `SleepInv` + `NoLostWakeup`. What closes the gap between test
   and wait is that the mutex is held there; what closes the gap between publish and signal is that the
   stage that made the slot ready is at the signal.
3. `EndInv` and `StreamInv`: `exit_signal` moves, and `main` goes on, behind the consumers;
   device work is outstanding only between issue and synchronisation.
4. `DataInv`: what the buffers of a slot hold at each stage of its block. It distinguishes the steps of the CPU stage
   (backed up, packed, restored), as `outsize` and `buf` do not belong together in between. With it go `OutputInOrder` and `OffsetsInv`
   (each chunk in the file has its end in `bookkeeping`), from which `HeaderDescribesFile` follows.
   What it says of the bytes is void once `spills > 0` (`Holds`); what it says of the blocks is not, as a spoilt buffer keeps its place in the ring.

The ring is argued in one frame (`PipelineLemmas`): `Gap(head, s)`, a slot's distance from the last stage's head, and
the lead of a stage, how many blocks it is ahead of the last one. `ledger[s] > want[t]` iff the distance is less than the lead.
A stage other than the last moves one lead; the last moves the frame. The lemmas on `Gap` and `Forward` do the
arithmetic, so that no proof step has a `%` in it. Nothing in it is about the four stages of compression: `Ring!Agree` takes the stages
and the values they wait for as parameters, and the decompression proofs use the same lemmas for three.
`BuffersExclusive` then is arithmetic on `RingInv`: two stages at work on one slot would need two values
of one ledger; the device is separated by `StreamInv`.

For the refinement, the blocks delivered are those in the file; every step either leaves them alone or appends the
next one (`SenderSend`), ends the stream or fails.

### Interrupts

Of `IInv` all but `EndInv` survives a SIGINT: `PipeInv`. The steps of the handler change nothing in it, but the argument for the pipeline's steps
cannot use `EndInv` any more. `EndInv` does not survive since consumers leave their loops with blocks left. In its place stands
`ExitInv`, a count: until `main` has joined the consumers, `exit_signal` is at most the number of those
who have left, plus one for the handler; so 4, for which `signalExitThreads` waits, means that all three have left.
When `main` has joined them, they have left anyway.

### The decompression pipeline

`DeculzssInv!IInv` is `RingIInv` as above, `EndInv`, `DataInv` and the properties. The receiver leaves a chunk and its
size in a slot; the GPU stage turns them into the block, or takes the chunk for raw if its length is the block's: `Restored(b)` names what
comes out in either case. `RestoredWhole` needs that the last write leaves out exactly the padding, so `totalsize`
is related to the number of blocks in `TypeOK`.

### The device

The first part of `GpuProofs` is about `GpuStreams`, without any assumption about the order of streams. `GSInv` argues for each block and segment on its own. `QueueInv`: the
device runs what is queued. `StreamInv`: a stream does a block's operations after those of earlier blocks of its slot, which is all CUDA promises. `DataInv`: unless harm was done to
the segment, what an operation has moved is where it left it until the next one moves it on (`SegmentInv`): in `in_d[g]` up to the copy out, in `out_d[g]` behind the kernel, in the slot's
`bufout` from then until it is packed. The critical step is another block's copy into `in_d[g]`: if this segment's bytes are in use, it becomes `crossed`, and if they are not, nothing is said
of `in_d[g]`. The kernel of another block may run meanwhile: its copy came either after this block's, which then is `crossed`, or before, and then it finds this
block's bytes in `in_d[g]` and leaves `out_d[g]` as it is. `LastInv` is
what polling the last stream tells: a block is done but for its `late` segments.

For the refinement a slot is busy from its first call to its last operation; `SlotDevice` promises nothing once the device is not `orderly`, that is once a segment was crossed or late, and
until then the three operations of all segments collapse into its one step.

### The compression kernel

The second part of `GpuProofs` is about the threads of a block, for every number of them (`MAX_CODED`), of rounds and of bytes. The invariant rests on two facts. A thread
writes only two cells of the arrays all share, `Cell(t, 0)` and `Cell(t, 1)`, and uses them in turn (`CellFacts`, `OwnCells`); and the
barriers keep all within one step of another. So what a thread's cells hold depends on its own phase only (`ThreadData`),
and when one searches in round `r` all are in round `r` (`AllInRound`), before it or behind it does not matter. `SeesPacket` puts the cells together: at
`k` cells from its own a thread sees the byte `k` behind its position, and in the window the one `MAX_CODED` before that. In the
last round this ends with the last thread, which is why `MaxCheck` is cut short there and a `'^'` never read.
`FindMatchIs` holds for any contents of the arrays: the search returns the length 1 or a run of equal bytes that begins and ends among the cells
looked at. `DecoderWindow` says which byte the decoder has in a cell after `x` bytes, and `OffsetIs` that an offset into the
`2 * MAX_CODED` cells of the encoder is that cell.

### Packing and unpacking

The last part of `GpuProofs` takes a buffer from the kernel through `aftercomp` and the trailer to `DecodeKernel`, and back. `PackInv` is the invariant
of the kernel and:

1. `TokensFound`: a position whose thread has passed it has a token, so when the kernel ends all have one.
2. `Packed`: the sizes noted so far are the distances of *cuts* in what is written, and what lies between two of them unpacks to its packet
   (`Cuts`). Of the packet in the making, `GroupOK` says that *whatever* flags and tokens are to follow, the decoder's loop gets to where `aftercomp` is, with the bytes packed so far (`Decodes`). The
   quantifier is what makes it inductive: the flags of a group are written in front of its tokens and still change while these are held back in `holdbuf`.
3. `Chunk` and `Unpacks`: a finished chunk is the buffer itself or its packets, and comes back.

The two cases of a step are a token that is held back (`TokenHeld`) and one that completes a group (`GroupWritten`); both rest on what the lowest bit of the flags is
after `k` shifts, so no induction over a flag byte or over the chunk is needed. A run of the decoder's loop is a function from passes to its state; all that stop, stop
at the same pass (`LeastExists`), so one that is exhibited is the one `DecodePacket` means (`PacketDecoded`, `PacketEnds`). `SizesRead` finds
the cuts again as the sums over the trailer, and `PacketsJoin` puts the packets together. That a `buffer` which did not shrink is sent as it is, is the other half of `Chunk`.

### LZSS

`LzssProofs!IInv` needs, besides `BuffersFollowInput`, that the lookahead is full as long as there is input (`LookaheadFull`): only then is
`uncodedHead` after a turn where the next symbol is. Losslessness is about the file as a whole and about
each cell in it, and it would seem to need an induction over the file. `FileInv` avoids it. It says that there is a set `P` of *places*, records of a
position in the file and in the input, a flag of the group and the head of the window, which contains the
beginning, and from each of which a token of the file leads to another one in `P` (`IsToken`), unless it is the encoder's own. The encoder's
step adds one place. The decoder is at a place of `P`, and its window is `WindowAt(input, from, head)`, the encoder's when it was there
(`DecoderAt`). So each token it reads is the one the encoder wrote, and the symbols it copies out of its window those of the input.
No token overlaps with the flags of the group in the making (the last line of `EncodedRight`),
because those still change. At the end of the file the place is the last one, which gives `LosslessButTail`; `DecodesAPrefix` is a part of the invariant.

There, the search occurs only through what both searches guarantee: a match of length `n` at `offset` is one.

That both find the same is about the lists of `list.c`, in a build where the cell behind their heads is nobody's. `ListInv` comes first in the module: the list search takes the first symbol of a position
on trust, so that the encoder's tokens are right needs that each list has its own symbol's positions only (`FileStep` uses it). `ListsFollowWindow` speaks of whole lists and is not inductive by itself: a step changes single
links. `Listed` says the same link by link: a head is the oldest position with its symbol, a link leads to the oldest of the younger ones, and both end if there is none. From
it follows what a list is as a whole (`ChainIs`): it goes through all positions with its symbol, for each is younger than the one before and the next one is never skipped.
`ReplaceChar` takes the oldest position out, which is always the head of its list (`RemovedIs`), so that `RemoveChar`'s other branch is never taken; under the new head the others are one older (`HeadMoves`), and the position just written is the
youngest, so it belongs at the end (`AddedIs`). `ReplaceKeeps` does this for the symbols of a token, one after the other, and ends with the window `Slid` gives. A match
of one symbol or more begins with the next symbol, so it is on that symbol's list, and the order of the list is the order in which `brute.c` looks (`SearchesSame`).

### OpenCL LZSS blocks

`BlocksApart` is address arithmetic: part `i` of the buffer begins `i - 1` sizes of a `FIFO` behind the first, and a block that fits ends before
part `i + 1`. `ItemsOK` (a work-item that has not begun has nothing to write) makes it inductive. `ItemsSuffice` says that rounding
up to a multiple of the work-group leaves no block without a work-item.

`BlocksComeBack` is about what is in the file. `Owned` says of a cell of the buffer that what is in it was written there by the work-item whose part it is in, so once all
have ended the host splits the buffer into exactly their blocks (`FinishedKeeps`, `SplitKeeps`). `FileOf` is the file of a list of blocks, each the digits of its length and then its symbols;
`FileRead` shows that parsing it finds block after block where it was put, whatever cells there are between two lengths. That `ValueOf` undoes `AsText` (`TextsBack`) and that each number has a text (`TextsExist`) go by the least number for which it
would not hold. `RestoreInv` carries the blocks from the work-items through the file to the decoder and the output. An empty encoding is a `0` and a separator in the file and no symbols;
that a block's length is 0 exactly if it is `NeverEncoded` is carried along from the work-item (`CompressedLengths`), which is how `Remains` knows what is to come back.

### Bit files

`BFInv` gives each operation a *place*: so many bytes of the file and so many bits. `Behind` is the place after an operation, computed from the one before alone. What an operation
has written is then said by `OpAt`, in terms of `BitAt`: bit `j` of byte `q` is in the file, or it still waits in the buffer. A call of a writer keeps every bit before its place, whichever of the
two it is in, leaves its own from there on (`Puts`, `Wrote`) and is then at `Behind`; so `Laid`, all operations at their places, only grows (`LaidOn`, `OpKept`). Appending
begins on a whole byte, as closing has filled the last one. On a full device `WriterAt` lets the place run on: nothing is claimed of bits behind the end, and the file ends exactly at `capacity`.

A reader at a place (`ReaderAt`) either gets the bits from there and is at `Behind`, or `Behind` does not fit in the file (`Gets`, `Reads`). Reader and writer use the same arithmetic, `ByteOf` and `BitOf` of the
`j`-th bit from a place on, and that is the whole alignment argument (`ChunkRead`). That a read which fails means a full device follows as `Behind` is at or before the
end of what is laid. The loops over whole bytes and then bits are recursive functions; `PutBitsIs` and `PutNumberIs` reduce `BitFilePutBits` and both `BitFilePutBitsNum`
forms to the same two loops on `Whole` and `Rest` of the bits, and `LeastFirstIs` says what the memory of a number holds. That `cell` of either endianness has each byte once is all the readers need (`CellsDiffer`).

### Run-length encoding

The encoding an input has is stated from the input alone: `RunsTo[id]`, the runs begun at or before a position, and `Start(c)`, where run `c`
begins. `Start` is onto, as `RunsTo` grows by at most one, and each position has the symbol of its run's start. `IInv` then says of each
kernel that what it has done is right and the rest is still in some work-item's share (`Pending`). That every position is in a share is
where the group size and the stride come in. No order of the work-items matters, as all who write to a cell of
`compacted` write the same (`CompactedIs`).

The OpenCL buffer of positions has `n` cells, so the end of the last run may be lost if there are `n` runs. `LostCell` says what
the cell behind it can hold. The counts then add up to -1 (`EncodedSum`) and the verification rejects them. After a failure it is the last
input's results that are verified. Their counts are positive (`CountsKept`: they have been accepted once), so that the sum is
the length and the comparison is of the whole input (`AcceptedPositive`). Without that, counts below zero could make up for a sum that is too large.

Prefix sums, `rleCpu` of `kernel.cu`, the sum of the counts and the concatenation of the runs are recursive functions. That such a function exists is
one lemma, `RecursionExists` (`IteratedExists` in `GpuProofs`), with the step as a function and not as an operator; what it computes is argued by the least position at which it would go wrong
(`LeastExists`).

### The Burrows-Wheeler transform

`BwtProofs` takes the serial and the OpenCL program from the input to the input, in four steps.

1. *Counting.* `Rank` numbers the places of a sequence by their keys, equal keys in order. That it is onto (`RankOnto`) gives what both the radix sort
   and the way back rest on: a pass deals all rotations out, stably (`PassDeals`), so two passes sort by two symbols (`RadixSorts`); together with
   what `GroupSorts` says of the groups, neighbours are in the order of the whole rotations (`GroupsSorted`), and since that order is transitive so are all (`NeighboursRise`).
2. *The way back.* In a sorted matrix, going back one symbol keeps the order among rows with the same last symbol (`BackRises`), so the rank of a row's last symbol is
   the row of the rotation before it, or of one that is `Alike` (`RankGoesBack`, `PredIs`): a periodic block has equal rotations, and `qsort` may leave them in any order. `UnrotatedIs` follows
   the rows from `S0Index`, each `Alike` to the rotation meant.
3. *Move-to-front.* The list stays a listing of all symbols (`ToFrontIs`), so the place of a symbol tells it, and the decoder's list is the encoder's at each symbol (`MTFRestores`).
4. *The file.* `IInv` knows a block by its number: `BlockAt(i)` of the input is in entry `i`, then in order, then `Coded`, and `FrameOK(i)`: what stands at the place of frame `i` decodes to it. What the host has written
   is the first `w` blocks (`WrittenUpTo`), in whatever order the work-items ran. The OpenCL program counts the indexes as file, and finds nothing behind the last frame (`FrameUnrotated`);
   there is always one entry for each block (`FinishKeeps`).

The functions the code computes in loops are recursive here too, and `RecursionExists` and `LeastExists` do the inductions.

### Only model-checked

* Liveness (`EndsUnlessStuck` of `Culzss`, `DeliversEverything` of `Deculzss`) is beyond TLAPS; so is everything with ENABLED.
* The sort of `BwtCuda`: the theorems of `BwtProofs` are about `Bwt`. The run `bwt` checks it on inputs of up to 5 symbols; that it does not sort every longer one is the finding of section 6.

## 8. Not modelled

* Bytes where the properties do not tell them apart: the pipelines pass on whole blocks (`Deculzss` has their sizes); in
  `Packing` a trailer entry is one cell.
* `fifo` being null when SIGINT arrives before `queueInit`; a second SIGINT; lost updates of
  `exit_signal++` (the increment is atomic in the model).
* What happens after memory is overrun, used after it is freed or read uninitialised: undefined. The models stop there
  or show that it is reachable. That includes what `WalkMatches` reads behind the last place, and OpenCL and CUDA calls whose
  errors the programs ignore.
* File sizes beyond an `int` (CULZSS) and beyond what a `float` counts exactly (OpenCL LZSS); sizes for the OpenCL run-length
  encoder that are no multiples of the work-group (the program encodes none).
* What the pipelines take for granted of each other's detail: `Culzss!DeviceRun` is right while `crossed` and `late` are empty. What the tokens of a segment that was crossed or late
  are good for is not followed into the file.
* `list.c` in a build where another variable lies behind the array of lists, beyond the step that overwrites it; `LzssBlocks` beyond a count of blocks
  that stray digits have changed (`ParseFile`).
* The CUDA transform with more than one thread block: both runs of `BwtCuda` have one, so the race between blocks
  of `BuildMatches` is in neither.
* How command lines are parsed (`optlist`, `getopt`). The main functions around the coders occur as `DriverStops` in `Lzss`, `LzssBlocks` and `Bwt`:
  they may leave before they have called a coder, and they ignore what it returns.
  CULZSS's enters `Deculzss` with the number of blocks and the padding it computes. Timing, test data, plots, set-up of CUDA.
* Third-party code: `chag` (its templates are included and never called) and `hemi`. `grid_stride_range` and
  thrust's `stable_sort_by_key` and `remove_copy_if` are modelled where they are used.

## 9. Plan

Every invariant of the passing runs has a theorem about it. What is left is a theorem about the sort of `BwtCuda`. It cannot be `RotationsSorted`,
which section 6 refutes: it would have to name the inputs whose last place meets an equal bucket of another group at place 0, and
hold for one thread block only.

## 10. Running

    tlc -config MCCulzssSafety.cfg MCCulzss.tla
    tlapm CulzssProofs.tla

`PROJECT.json` lists runs, mutants, theorems, hazards and, under `map`, the source lines each
definition translates.
