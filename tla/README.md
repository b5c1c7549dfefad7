# Verification of the optrode FPGA+SoC software

TLA+ models of the recording programs, the DMA drivers, the adaptive filters and
the programs that try them, checked with TLC on small instances, with theorems
proved by TLAPS for every value of the constants.  Paths are relative to the
repository.

tlc -config MCRecord.cfg MCRecord.tla      # one run; all runs are in
PROJECT.json tlapm RecordProofs.tla                     # the proofs of one
module

## 1. The system

| Part | Source | State | Operations | Used by |
|---|---|---|---|---|
| Recording program | `main.cpp`, `optrode/config.h` | `Recording` (file number, sample count), `audioBuffer`, `AudioFile`, files on disk, stop flag | loop: save a full file and start the next, save work in progress, fetch samples, send a word; SIGINT; last save | - |
| Data collection program | `datacollection.cpp` | the same, a buffer per channel, position in the input file | checks of the input; the same loop, dealing samples to four channels and playing the input, two samples a pass | - |
| AXI stream driver | `optrode/AxiStreamDma.*` | `buffer`, mapped registers and memory windows | constructor, `spoofData`, `sendData`, `fillBuffer`, `sync` | both programs, through `Board` |
| DMA loop-back test | `dmatest/dmatest.c` | two blocks of memory, the registers | a fixed list of register accesses and two waits | - |
| AXI DMA driver | `optrode/external/AxiDMA.*` | registers, two mutexes | construction (`run`) and destruction; scatter-gather: `Send`, `Send_repeat`, `Recv`, `Transf`; direct: `DirectSend`, `DirectRecv`, `DirectManualRecv`; manual variants | no program here |
| Descriptor chains | `optrode/external/AxiDmaDescriptors.*` | the chain in physical memory, count, remainder | `InitDescriptors`, `ProcessDescriptors` | AXI DMA driver |
| Byte buffer | `optrode/external/AxiDmaBuffer.*` | a vector | copy in and out | AXI DMA driver |
| LMS filters | `filters/lms.h` | step size, error, power, delay line, taps | `step`, `resetStepSize` | `lmsDemo.cpp` |
| Leaky integrator | `filters/leakyIntegrator.h` | last sample | `step` | `lmsDemo.cpp` |
| LMS demonstration | `lmsDemo.cpp` | two recordings, five output files, two averages, a filter | load, a loop over the samples, save | - |
| Serial port, UI, board, data writer | `optrode/external/SerialPort.*`, `optrode/ui.*`, `optrode/board.*`, `optrode/datawriter.h` | - | - | - |

How they interact.  The two recording programs run a single thread that calls
the stream driver and `AudioFile` in turn; a SIGINT handler writes one flag the
loop reads.  The stream driver shares registers and memory with an engine in
hardware and polls it: every register access interleaves with the engine, and
the engine survives the process.  The loop-back test drives the same engine with
a list of accesses of its own.  The AXI DMA driver may be called from several
threads; two mutexes, one for each direction, guard one engine, one chain and
one buffer for each direction, all at fixed physical addresses.  The
demonstration runs two integrators and a filter, one sample after another.  What
hardware and libraries (`AudioFile`, `std::vector`) do is modelled from the way
the sources use them and marked external in `PROJECT.json`.

What is hard: the end of a file and the saves around it, in any state of the
buffer and under crashes; a driver that resets and restarts an engine without
waiting for it; transfers that outlive the call or the process that started
them; descriptor memory that outlives its chain; arithmetic kept by differences
or fed back after rounding; vectors indexed without a look at their length.

What makes each part correct: no sample is lost, doubled or misplaced between
the engine and the file (programs, stream driver); closed files are full and
never touched again; a crash costs only the tail of one file; the input is taken
in pairs to its end (data collection, which is to send both samples of a pair
and sends one: finding 4); what is sent is what the caller gave, success is
reported only for a transfer that happened, every call returns (AXI DMA driver);
the engine is never led out of its chain and buffer and the bytes are counted
right (chains); every word comes back in order and the test ends (loop-back);
power, error and update are those of the samples in the line (filter); averages
stay near the samples, and the files written add up to the file read
(demonstration).

## 2. Modules

| Module | Models | How |
|---|---|---|
| `Archive` | abstract specification: a growing list of closed files and an open one | what both programs promise |
| `Record` | `main.cpp`; refines `Archive` | one action per branch of the loop, saves in two steps (open, write) |
| `DataCollection` | `datacollection.cpp`; refines `Archive` | the same, the deal of the samples one by one |
| `DmaEngine` | the engine of the FPGA in simple mode (external) | register accesses and engine steps, for `StreamDma` and `DmaTest` |
| `StreamDma` | `AxiStreamDma` and the loops around it | one action per register access |
| `DmaTest` | `dmatest.c` and the FIFO it goes through | the list of accesses, one per step |
| `AxiDma` | `AxiDMA` in both modes | one action per stage of a call |
| `DescriptorRing` | `AxiDmaDescriptors` | one action per operation and per descriptor the engine completes |
| `LmsFilter` | `filters/lms.h` | one action per call |
| `LeakyIntegrator` | `filters/leakyIntegrator.h` | `step` as an operator: the set of its results |
| `LmsDemo` | `lmsDemo.cpp` | one action per pass; extends `LeakyIntegrator` and `LmsFilter`, whose `Step` is part of a pass |
| `RecordProofs`, `DataCollectionProofs`, `StreamDmaProofs`, `DmaTestProofs`, `AxiDmaProofs`, `DescriptorRingProofs`, `LmsDemoProofs` | theorems, section 5 | - |
| `DmaEngineProofs` | lemmas about the engine, used by the stream and the test | - |
| `MC*` | instances for TLC | - |

Operators named `X_Something` next to an operator `X` are mutants: `X` as a
plausible mistake would have it.  Each property is known to fail when its mutant
takes the place of the original (the table is in `PROJECT.json`).

**Record, DataCollection.**  `pc` is the place in `main`; `after` is where
`main` goes on after `AudioFile::save`, which is two steps, since opening a file
for writing empties it.  `audioFile` is what `setAudioBuffer` last stored,
`disk` the files, `capacity` that of the vector, because the code compares it
with the sample count.  A sample is its number in the order of arrival, so that
lost, doubled and reordered samples differ.  `Crash` may come at any step;
nothing is read back after it.  `Handler` is the SIGINT handler, from the moment
it is installed.  `DataCollection` starts with the checks of the input, which
may reject it.  `Send` takes two samples of the input and sends the first, which
is what the transfer of `sendData` is long enough for; `sent` are the indices
sent.  `status == ERROR` is never seen by the loops, as the constructor throws
instead of setting it, and is left out.

**DmaEngine.**  `chan` holds the registers of both channels and what is left of
the transfer in progress.  The repository does not tell how the engine was
built, so `hw` chooses: whether one channel's reset reaches the other, whether a
channel stays idle until its next transfer, whether a reset has taken effect at
the next access.

**StreamDma.**  The program counter runs over the register accesses; `step`
counts those of the constructor, which may fail at each mapping, and the six
writes that start a transfer.  `client` is the program, which sends before its
first `fillBuffer` or not.  A process may be killed at any step and another one
started: the constructor then finds the registers, the FIFO and a transfer as
they were left.  `inherited` are the channels on which such a transfer may still
be pending, `missed` counts the words it takes.

**DmaTest.**  `main` has no branches besides its two waits: it is the sequence
`Script`, and `at` the place in it.  Engine and FIFO may start in any state an
earlier program left.

**AxiDma.**  A call is a script of stages (lock, chain, allocate, fill, start,
check, tail or length, wait, acknowledge, process, reset, poll, copy); a failing
stage replaces the rest by what the code still does.  `isSg` is how the engine
was built; a call for the other mode returns at once.  Construction is the
script of `run()`, on channels an earlier program left in any state; destruction
is the reset of both.  The engine completes transfers, makes errors and ends
resets at any time.  `case` is chosen at the start and fixes the calls made, the
faults that may occur, whether resets are shared, and how many calls and packets
there are. `wire` records what was sent for which call; `reported` which calls
returned a length; `got` which packet went to whom; `abandoned` the channels on
which a call gave up a pending transfer without a reset, as `Send`, `Recv` and
all of direct mode do.  A transfer is one descriptor here; longer chains are
`DescriptorRing`.

**DescriptorRing.**  `memory` outlives the calls.  Call, wait, count, sum and
reset are steps, the engine completes a descriptor between any two of them, and
a call may be abandoned (a timeout, followed by a reset).  `moved` lists the
bytes of the buffer the engine touched.

**LmsFilter.**  `T` is a two's complement integer, `-Half` to `Half - 1`,
computed wider and wrapped when stored, as C++20 does for the integer types
shorter than `int`; `Half` is 2 to the bits of `T` but one, but nothing depends
on its being a power of two. Both classes, normalised or not, are covered by two
flags chosen initially.

**LeakyIntegrator, LmsDemo.**  The fixed point types become integers; how they
round a product is left open, up or down, each time anew, so that the results
hold for every rounding mode.  The recordings have any length up to `MaxLength`.
The five output files, which are loaded before they are written over, have the
lengths some earlier run left, each its own, and none if they are missing:
`LoadedLengths` is the set of the combinations.  An index past the end of a
vector, which is undefined in C++, leads to `pc = "overrun"`, where nothing is
promised.  `Pass` is the loop body: both averages, the filter's step, the five
stores.  `Inputs`, from which `LmsFilter` by itself takes its samples, plays no
part here.  `Loaded` is what an earlier run left in a file, and differs from
every number so that it can be told from what this run writes.

## 3. Runs

| Run | Module | Result | Instance |
|---|---|---|---|
| `record` | MCRecord | passes | growth 2, files of 4, packets of up to 3, 12 samples |
| `record_final_save` | MCRecord | violated | growth 2, files of 8, packets of 1, 20 samples |
| `record_second_file` | MCRecord | violated | the same |
| `datacollection` | MCDataCollection | passes | 3 channels, growth 2, files of 5, inputs of 0, 1, 2, 3, 10, 13, packets of up to 3 |
| `datacollection_input` | MCDataCollection | violated | the same |
| `stream` | MCStreamDma | passes | every `hw`; 0, 1 or 2 words for one sent, 3 in flight, 4 in all, one restart |
| `stream_stop` | MCStreamDma | violated | every `hw`; one word for one sent, 4 in all, no restart |
| `dmatest` | MCDmaTest | passes | 3 words; FIFO of 1, 3, 5 words with up to 2 old ones; every `hw`, every state of the engine |
| `dma` | MCAxiDma | passes | 2 threads, two cases: 3 calls of Send, Send_repeat, Recv or direct mode with failures to allocate and to start; 2 calls of Send_repeat, Transf or direct mode with every fault and shared resets |
| `ring` | MCDescriptorRing | passes | 2 bytes per descriptor, buffers of 1 to 6 bytes |
| `lms` | MCLmsFilter | passes | 2 taps of 5 bits, 3 sample values, all sequences |
| `lmsdemo` | MCLmsDemo | passes | 1 and 2 taps of 4 bits, samples -9 and 8, alpha 4/10, files of up to 3 samples, one of the five possibly of another length |

What the passing runs show.

* `record`: every sample received is in a closed file, in `audioBuffer` or in
  `dma.buffer`, in order (`SamplesInOrder`); closed files hold
  `SAMPLES_PER_FILE` samples and less than a packet more (`ClosedFilesFull`);
  whenever the program is cut off, the current file is a prefix of the recording
  (`CurrentFileIsPrefix`); SIGINT ends the program (`StopsAfterSignal`); the
  whole implements `Archive` (`RefinesArchive`), so closed files are final.
* `datacollection`: the samples go round the channels across files: each channel
  of each file holds exactly its own of the samples of that stretch, in
  ascending order (`SamplesDealt`); a crash leaves a prefix of each channel
  (`CurrentFileIsPrefix`); the input is taken in pairs, each once and in order,
  to its end, and the first of each pair is sent; only the first transfer of an
  input of fewer than two samples reads behind it (`PairsSent`); the program
  ends (`Ends`) and implements `Archive`.
* `stream`: words reach `main` once and in order (`WordsInOrder`) and writes
  stay near the base of the window (`WritesNearBase`), both for an engine whose
  reset is over at the next access; for every engine no transfer of the process
  is cut short (`NoTransferAborted`) and none is pending outside its wait
  (`PendingOnlyInSync`).
* `dmatest`: the words come back in order behind those that were in the FIFO
  (`LoopBack`); the test gets past its first wait only with a FIFO that holds
  the whole transfer (`FifoHoldsTransfer`); with such a FIFO, and an engine that
  keeps its flags, it ends from every state of the engine (`Finishes`).
* `dma`: what goes out is the caller's data (`SentIsOwn`), a reported length is
  a transfer that was made (`SuccessIsReal`), nobody rewrites a chain or buffer
  in use (`ChainInUse`), a packet goes to one call, at the address it asked for
  (`ReceivedOnce`), and a packet received is kept until some call has handed it
  over (`NoPacketLost`), every call returns (`CallReturns`). `SentIsOwn`,
  `SuccessIsReal` and `ReceivedOnce` hold until a call gives up a transfer
  without a reset; after that they do not.
* `ring`: the engine finds usable descriptors only (`FoundUsable`), stays in the
  buffer and moves as many bytes as it has in a transmission (`InsideBuffer`),
  which are those of the buffer in their order up to two descriptors
  (`BufferInOrder`) and no longer from three on (section 6); the length summed
  up is right unless an abandoned chain or a second packet interferes
  (`LengthIsReal`).
* `lms`: `pow` is the power of the line modulo overflow (`PowerOfLine`), the
  error that of the old taps on the new line (`ErrorIsResidual`), and an update
  with a step that is small enough never enlarges it (`UpdateImproves`).
* `lmsdemo`: the averages drift by at most 2/minusAlpha units beyond the samples
  (`AverageBounded`); average, error and cancelled part add up to the sample,
  and what the loop did not reach is as it was loaded (`FilesAddUp`); the
  program gets to its end with one tap and files of the right lengths, or with
  nothing to do, and otherwise indexes past a vector (`EndsInBounds`).

What the violated runs show: the findings of section 6.

Why the bounds are enough.  `record`: three files are closed, packets fall short
of, hit and jump over both the capacity and the file size, and the first growth,
the rotation and the kept capacity all occur.  `datacollection`: three channels
and files of five let a file start in each channel; the inputs are empty, too
short for a pair, too short for a pass, even and odd.  `stream`: a `fillBuffer`
of several words, one that must wait, words left over for the next, and a
process killed at every step followed by one that receives.  `dmatest`: FIFOs
that are too small, just right and large enough, filled with old words or not.
`dma`: with three calls there is each pair of an older, a current and a waiting
call; with every fault two, the second of which finds all that a failed first
one can leave; its invariants were also checked with three calls for each mode
alone.  `ring`: chains of one, two and three descriptors with and without a
remainder, in every order; the state space is finite without a bound on calls.
`lms`: five bits overflow within two steps, and the state space is finite
without a bound on samples.  `lmsdemo`: recordings longer than, as long as and
shorter than each other and than the output files, one of which may be missing,
shorter or longer than the rest; a lookahead of zero and one; an average of
samples of -9 goes to -6, -9 and -10, beyond the range, since both products are
rounded down; and four bits overflow.

Deadlock is checked except where the system really stops: in `StreamDma` (the
end of the last program, a constructor that failed, a `sync` without an answer),
in `DmaTest` (its end, a wait that hangs), in `AxiDma` (all calls made) and in
`LmsDemo` (its end or an index out of bounds).

## 4. Fairness

`Record` and `DataCollection`: weak fairness of `main`, a running process; it
includes that `fillBuffer`, `spoofData` and `sendData` return, which
`stream_stop` shows to depend on the FPGA.  `StreamDma`, `DmaTest`: the program
runs and the engine does what it can, each with weak fairness; the FPGA owes no
word, and nobody is obliged to start a program again.  `AxiDma`: every thread is
scheduled and the engine makes progress; no fairness of the mutex beyond that of
the thread, which suffices because calls are finitely many.  `DescriptorRing`,
`LmsFilter` and `LmsDemo` have safety properties only.

## 5. Proofs

The theorems hold for every value of the constants that satisfies the assumption
of the module (`RecordAssumption`, `StreamDmaAssumption` and so on: numbers are
natural, sizes positive; in `AxiDma` threads and channels are different names,
in `DescriptorRing` one of the sizes is the largest, as an `int` has one; for
the filter, its parameters are values of `T` and `MinStep <= MaxStep`; for the
demonstration, samples are within `Bound` and the two coefficients add up to
one).  Every invariant and every action property of the passing runs is the
subject of a theorem.

| Module | Theorem | Property |
|---|---|---|
| `RecordProofs` | `TypeCorrect` | `TypeOK` |
| | `NoSampleLost` | `SamplesInOrder` |
| | `ClosedFilesAreFull` | `ClosedFilesFull` |
| | `CrashLeavesPrefix` | `CurrentFileIsPrefix` |
| | `ClosedFilesStay` | `ClosedFilesFrozen`: no step changes a closed file |
| | `ImplementsArchive` | `RefinesArchive` |
| `DataCollectionProofs` | `TypeCorrect` | `TypeOK` |
| | `CrashLeavesPrefix` | `CurrentFileIsPrefix` |
| | `TakesPairs` | `PairsSent` |
| | `GoesRound` | `SamplesDealt` |
| | `ImplementsArchive` | `RefinesArchive` |
| `StreamDmaProofs` | `TypeCorrect` | `TypeOK` |
| | `NothingPendingElsewhere` | `PendingOnlyInSync` |
| | `NoneAborted` | `NoTransferAborted` |
| | `NothingLost` | `WordsInOrder` |
| | `StaysNearBase` | `WritesNearBase` |
| `DmaTestProofs` | `TypeCorrect` | `TypeOK` |
| | `FifoSuffices` | `FifoHoldsTransfer` |
| | `WordsComeBack` | `LoopBack` |
| `AxiDmaProofs` | `TypeCorrect` | `TypeOK` |
| | `SendsOwn` | `SentIsOwn` |
| | `SuccessReal` | `SuccessIsReal` |
| | `ReceivesOnce` | `ReceivedOnce`, if `Separate` |
| | `ChainKept` | `ChainInUse`, if `Separate` |
| | `PacketsKept` | `NoPacketLost`, if `Separate` and resets are not shared |
| `DescriptorRingProofs` | `TypeCorrect` | `TypeOK` |
| | `NeverStops` | `FoundUsable` |
| | `StaysInside` | `InsideBuffer` |
| | `ShortChainsInOrder` | `BufferInOrder` |
| | `LengthReal` | `LengthIsReal` |
| `LmsDemoProofs` | `FilterTypeCorrect` | `FilterTypeOK` |
| | `PowerStays` | `PowerOfLine`, with more than one tap |
| | `ErrorIsWhatIsMissed` | `ErrorIsResidual` |
| | `UpdatesImprove` | `UpdateImproves`, but for a single normalised tap |
| | `TypeCorrect` | `TypeOK` |
| | `OutputsAddUp` | `FilesAddUp` |
| | `AveragesStayNear` | `AverageBounded` |
| | `EndsOnlyInBounds` | `EndsInBounds` |

Each module has an inductive invariant, built up in layers where it is long, a
lemma for each action or group of actions, and theorems that read the properties
off the invariant.

* **RecordProofs.**  The four invariants are not inductive together: that a
  rotation closes a full file needs that the file on disk equals `audioBuffer`
  when `rotate` is reached, which needs that `AudioFile` holds `audioBuffer`
  from `SaveFullFile` to `WriteFile`; that the last save, which writes an older
  content, keeps the prefix needs that `AudioFile` always holds a prefix of
  `audioBuffer`; that the count equals the length needs what `bytesRecorded` is
  between `FillBuffer` and `Collect`.  `IInv` adds these.  `ClosedFilesStay`
  follows from `IInv` and the actions that write `disk`; `ImplementsArchive`
  maps `FillBuffer` to `Receive`, `Rotate` to `CloseFile` and all else to a
  stutter.
* **DataCollectionProofs.**  `Saved` says, channel by channel, that `AudioFile`
  and the file being recorded are beginnings of the buffer; `Played` ties
  `inputIdx` to what was sent and to where `main` may be when the input is at
  its end; it goes past the end only where the input has no pair, and then once.
  For `SamplesDealt` the samples of a file are an interval (`HeldIs`): between
  them the channels of a buffer that is dealt out hold every sample of its
  stretch, so the files closed so far end where the buffer begins (`Closed`),
  the buffer holds the samples up to the one whose turn it is (`Current`), and a
  full file waits to be closed with all of its channels (`Full`).  The same
  facts map a rotation to `CloseFile` of `Archive` and the deal of a sample to
  `Receive`.
* **StreamDmaProofs.**  `PendingOnlyInSync` needs that a channel with a transfer
  of this process is neither in reset nor idle (`OwnNotReset`, `BusyNotIdle`),
  or the wait would end early; `NoTransferAborted` then follows, because the
  writes that could abort a transfer are elsewhere.  This part holds for every
  engine, the one with a slow reset included. For the order `JInv` adds, for an
  engine whose resets are over at the next access, what the registers hold at
  each place of `fillBuffer` (`Regs`), that the words in `main`, driver, memory
  and FIFO are consecutive (`InOrder`), and that the FPGA, sent nothing
  meanwhile, can fill no more than its FIFO (`Bounded`).
* **DmaTestProofs.**  A table of the script (`Script` is a concatenation) gives
  each place its access; the invariant says for each place what the registers
  hold, where the words are (`Flow`), and that what was sent and not received is
  in the FIFO (`Room`).
* **AxiDmaProofs.**  A thread is at a stage of its script, and `Edges` has the
  stages that may follow one another.  `Control` adds that from its lock on a
  thread holds the mutex of its direction, so that one thread at most works on a
  channel; `Registers` says what the registers of the channel are at each stage;
  `Transmission` that chain, buffer and engine then hold the data of that
  thread's call; `Reception` that the packet in memory is the one the call will
  hand over. These hold under every fault, until a call gives up a transfer
  without a reset. For `ChainInUse` and `NoPacketLost`, which exclude late and
  failed transfers, `NothingAbandoned` shows that then no call gives up;
  `Healthy` that a channel is in reset only while a thread waits for the end of
  it and that no error is seen; `Course` that each thread gets through its
  script in order; and `Keeping` where every packet is. `Separate` says that
  `Transf` and `Recv` are not both called: `Transf` holds `tx_mute` only,
  although it rewrites the receive chain and resets the receive channel
  (`AxiDMA.cpp:277`), and without the hypothesis the three properties are false,
  as TLC shows with two threads that call one each.  So is `NoPacketLost` if
  resets are shared: the reset at the end of a `Send` then discards what a
  `Recv` is receiving.
* **DescriptorRingProofs.**  Ahead of the engine the chain is as
  `InitDescriptors` left it, behind it complete unless freed (`Running`), and
  the bytes moved are those of the descriptors behind (`Filled`).  `ChainFits`
  has the arithmetic: the descriptors of every chain lie in the buffer, and the
  last ends where it ends. For `LengthIsReal` the bytes counted so far are the
  total of the descriptors passed (`Summed`), which are those of one packet
  (`OnePacket`); the total is a recursive function, about which a smallest
  counterexample is enough.
* **LmsDemoProofs.**  `step` keeps the drift bounded, whatever the rounding,
  because it takes its share off the drift before it rounds (`StepWithinDrift`).
  For the indices the invariant ties the lengths of the files, which no pass
  changes, to how far the loop has come.  A sum over taps does not depend on the
  order it is taken in (`SumWithout`), so that shifting the line by one adds the
  newest square and takes off the oldest (`TotalOfShifted`); what overflowed
  before a sum makes no difference to what is stored after it (`StoredSum`);
  from both comes `PowerOfLine`.  `UpdateImproves` needs it, because the divisor
  of a normalised update is the stored power: each tap then moves in the
  direction of the error by no more than its share (`TapChange`), and all of
  them together by no more than twice the error (`TotalBounded`).  With a single
  tap the divisor is the power of all samples ever seen, which may overflow
  (section 6).  `FilesAddUp` holds for whatever the filter does, as long as it
  stays in its types.

Recursive functions and sums over sets are within the provers' reach here
because each is shown to exist, or to have a property, by the smallest
counterexample, which needs well-foundedness of the naturals only, not an
induction theorem.

Only model-checked: liveness (`StopsAfterSignal`, `Ends`, `CallReturns`,
`Finishes`), which needs fairness and ENABLED.

## 6. Findings

1. **The last save is stale** (`main.cpp:187`, `record_final_save`).  There is
   no `setAudioBuffer` before it: up to a full capacity of samples is lost at
   exit. `datacollection.cpp:223` has the same code.
2. **Work in progress is saved in the first file only** (`main.cpp:143`,
   `record_second_file`).  The save waits for the count to reach the capacity,
   and a cleared vector keeps its capacity.  It is also missed when a packet
   jumps over the capacity.
3. **SIGINT cannot stop a waiting driver** (`AxiStreamDma.cpp:198`,
   `stream_stop`).
4. **Every second sample of the input is lost** (`AxiStreamDma.cpp:149`,
   `datacollection_input`).  `sendData` puts two samples in the memory of the
   channel and starts a transfer of 4 bytes, which is one; the loop goes on by
   two (`datacollection.cpp:216`), and its trace (`datacollection.cpp:214`,
   commented out) says of both that they were sent.

Seen while modelling, without a run of their own:

* With one tap, which `lmsDemo.cpp:32` uses, the power grows for ever: nothing
  is subtracted from it (`filters/lms.h:77`).  `PowerOfLine` is violated in the
  second step of an `MCLmsFilter` with `TapCounts = {1}`.
* An input of fewer than two samples is read behind its end
  (`datacollection.cpp:157`): what lies there is sent, or the program dies.
* From three descriptors on the buffer is not sent: all descriptors but the last
  have the address of the first (`AxiDmaDescriptors.cpp:120`), which is why
  `BufferInOrder` stops at two.
* `Transf` holds only `tx_mute` and conflicts with `Recv` (`AxiDMA.cpp:277`).
* `Send` returns from a timeout without a reset (`AxiDMA.cpp:94`), unlike
  `Send_repeat`, as do `Recv` and direct mode, where the late interrupt then
  answers a later `DirectManualRecv` (`AxiDMA.cpp:709`) whose data is elsewhere.
* `DirectManualRecv` documents `-ERR_DMA_IS_SG` (`AxiDMA.cpp:693`) and has no
  test of the mode.
* After an abandoned chain, or when a second packet arrives before the count,
  `ProcessDescriptors` returns a wrong length.
* With more than one tap the demonstration indexes past the end of its
  correlation array, and with files shorter than `ref` past those
  (`lmsDemo.cpp:116-139`); both are what `EndsInBounds` describes.
* The demonstration filters `opt` to predict `ref` and stores `opt` less the
  error as the cancelled part (`lmsDemo.cpp:165-167`), which is the filter's
  estimate only where both signals are equal.

Where a property would fail in one of these cases, `PROJECT.json` names it with
the hazard; the passing runs leave the combination out or the property says so.

## 7. Not modelled

* The `Manual*` functions of `AxiDMA`: pieces of a transfer that leave locking
  and order to a caller, and the repository has none.
* `DirectManualRecv` on a scatter-gather engine.
* `dmatest/test.c`, a variant of the same loop-back for another board.
* The serial port (parameters for the kernel); board, UI and data writer (no
  state of their own).
* `AxiDmaBuffer`, but for its one exception, which is a branch of `AxiDma`.
* The failures of `open` and `mmap` in `InitDescriptors`, when `Send` and `Recv`
  ignore them; the application words of descriptors.
* Floating point in filters and integrator, with it the NaN branch of
  `normalise`; in `lmsDemo.cpp` the correlations computed after the loop.
* What lies behind an input of fewer than two samples in `datacollection.cpp`:
  it is sent as a word like any other, or reading it is a crash.
* A constructor of `AxiDMA` that cannot open or map `/dev/mem` and throws before
  it touches anything; engines with one channel only (`hasTx`, `hasRx`).
* Errors of the engine in simple mode: the error bits of its status
  (`AxiStreamDma.h:13-34`), at which `fillBuffer`, testing the whole register
  (`AxiStreamDma.cpp:160`), would start another transfer, stay 0 in `DmaEngine`.
* Logging, names and time stamps.

## 8. Plan

Done, in this order: `Archive` and `Record` with their proofs, `StreamDma`,
`AxiDma`, `DataCollection`, `LmsFilter`, `DescriptorRing`; then restarts of a
killed process in `StreamDma`, the engine as a module of its own, `DmaTest`,
`LeakyIntegrator` and `LmsDemo`; then the proofs about all of them.

What is left, the most useful first:

1. An abstract specification of a channel (sent once, received once) that
   `StreamDma` and `DmaTest` refine, with the refinements proved.
2. Action properties of the drivers as theorems, such as that a call never
   touches the registers of a channel whose mutex it does not hold.
3. The `Manual*` functions as calls of `AxiDma`, for a caller that keeps to one
   thread for each channel.
