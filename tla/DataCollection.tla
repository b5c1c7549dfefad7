---------------------------- MODULE DataCollection ----------------------------
(***************************************************************************)
(* The data collection program (datacollection.cpp): it takes the samples  *)
(* of an input file two per pass of its loop, sends the first of them to   *)
(* the FPGA, and records the samples that come back, dealing them out to    *)
(* the channels of the file being recorded one after another.  The loop     *)
(* saves and closes files as main.cpp does.                                 *)
(*                                                                          *)
(* A received sample is its number in the order of arrival, an input sample *)
(* its index.  fillBuffer and sendData are modelled by their result.        *)
(***************************************************************************)
EXTENDS Naturals, Sequences, FiniteSets, Functions, SequencesExt

CONSTANTS
  TotalChannels,   \* TOTAL_CHANNELS_DATACOLLECTION
  BufferLength,    \* BUFFER_LENGTH: first capacity of a channel and its growth
  SamplesPerFile,  \* SAMPLES_PER_FILE
  InputLengths,    \* the lengths the input file may have
  MaxBatch         \* bound: samples one fillBuffer returns

ASSUME DataCollectionAssumption ==
  /\ TotalChannels \in Nat \ {0}
  /\ BufferLength \in Nat \ {0}
  /\ SamplesPerFile \in Nat \ {0}
  /\ InputLengths \subseteq Nat
  /\ MaxBatch \in Nat

Channels == 0..(TotalChannels - 1)

VARIABLES
  pc,                  \* where main() is
  after,               \* where main() goes on once AudioFile::save returns
  recordingStopSignal, \* set by the SIGINT handler
  file,                \* r.file
  recordedSamples,     \* r.recordedSamples, of all channels
  currentChannel,      \* the channel the next sample goes to
  audioBuffer,         \* audioBuffer, a sequence of samples per channel
  capacity,            \* the capacity of audioBuffer[0]
  audioFile,           \* the samples held by the AudioFile object
  disk,                \* the files that exist, by number
  dmaBuffer,           \* fpga.dma.buffer
  received,            \* number of samples the DMA has delivered
  length,              \* number of samples in the input file
  inputIdx,            \* index of the next input sample to send
  sent                 \* the indices sent to the FPGA

recording == <<file, recordedSamples, currentChannel, audioBuffer, capacity>>
dma       == <<dmaBuffer, received>>
input     == <<length, inputIdx, sent>>
vars      == <<pc, after, recordingStopSignal, recording, audioFile, disk, dma, input>>

Halted == {"done", "rejected", "crashed"}

Empty == [c \in Channels |-> <<>>]

Init ==
  /\ pc = "start"
  /\ after = "first"
  /\ recordingStopSignal = FALSE
  /\ file = 0
  /\ recordedSamples = 0
  /\ currentChannel = 0
  /\ audioBuffer = Empty
  /\ capacity = BufferLength
  /\ audioFile = Empty
  /\ disk = <<>>
  /\ dmaBuffer = <<>>
  /\ received = 0
  /\ length \in InputLengths
  /\ inputIdx = 0
  /\ sent = <<>>

-------------------------------------------------------------------------------
(* AudioFile, a library outside the repository: setAudioBuffer then save,    *)
(* which empties the file, then writes it.  disk[n+1] is the file number n. *)

StartSave(b, next) ==
  /\ audioFile' = b
  /\ pc' = "open"
  /\ after' = next

Put(f, b) == [i \in 1..(IF f > Len(disk) THEN f ELSE Len(disk)) |->
                IF i = f THEN b ELSE disk[i]]

OpenFile ==
  /\ pc = "open"
  /\ disk' = Put(file + 1, Empty)
  /\ pc' = "write"
  /\ UNCHANGED <<after, recordingStopSignal, recording, audioFile, dma, input>>

WriteFile ==
  /\ pc = "write"
  /\ disk' = Put(file + 1, audioFile)
  /\ pc' = after
  /\ UNCHANGED <<after, recordingStopSignal, recording, audioFile, dma, input>>

-------------------------------------------------------------------------------
(* main()                                                                   *)

(* The command line and the input file are checked first: main() returns 1   *)
(* to 5 if the file is not named, not there, not a WAV file, or has another  *)
(* bit depth or too low a sample rate.                                      *)
CheckInput ==
  /\ pc = "start"
  /\ pc' \in {"init", "rejected"}
  /\ UNCHANGED <<after, recordingStopSignal, recording, audioFile, disk, dma, input>>

InitialiseAudioFile ==
  /\ pc = "init"
  /\ StartSave(audioBuffer, "first")
  /\ UNCHANGED <<recordingStopSignal, recording, disk, dma, input>>

(* An odd last sample is not played.                                        *)
inputFileNumSamples == IF length % 2 = 0 THEN length ELSE length - 1

Send_Odd(next) ==         \* mutant: the index advances by the words sent
  /\ sent' = Append(sent, inputIdx)
  /\ inputIdx' = inputIdx + 1
  /\ pc' = next
  /\ UNCHANGED <<after, recordingStopSignal, recording, audioFile, disk, dma, length>>

(* sendData puts two input samples in the memory of mm2s and transfers      *)
(* transfer_size_bytes, which is the first of them.  Nothing tests that they *)
(* are there before the first sendData: of an input of fewer than two       *)
(* samples it reads what happens to lie behind the vector, which is not a   *)
(* sample of the input, or kills the program, which is a Crash.             *)
Send(next) ==
  /\ sent' = Append(sent, inputIdx)
  /\ inputIdx' = inputIdx + 2
  /\ pc' = next
  /\ UNCHANGED <<after, recordingStopSignal, recording, audioFile, disk, dma, length>>

SendFirst == pc = "first" /\ Send("loop")
SendNext  == pc = "send" /\ Send("loop")

LoopTest ==
  /\ pc = "loop"
  /\ pc' = IF inputIdx < inputFileNumSamples /\ ~recordingStopSignal
           THEN "check" ELSE "final"
  /\ UNCHANGED <<after, recordingStopSignal, recording, audioFile, disk, dma, input>>

SaveFullFile ==
  /\ pc = "check"
  /\ recordedSamples >= SamplesPerFile
  /\ StartSave(audioBuffer, "rotate")
  /\ UNCHANGED <<recordingStopSignal, recording, disk, dma, input>>

Rotate_FirstChannel ==    \* mutant: a new file starts with channel 0
  /\ pc = "rotate"
  /\ file' = file + 1
  /\ recordedSamples' = 0
  /\ currentChannel' = 0
  /\ audioBuffer' = Empty
  /\ StartSave(Empty, "fill")
  /\ UNCHANGED <<recordingStopSignal, capacity, disk, dma, input>>

Rotate_NoSet ==           \* mutant: initialiseAudioFile without setAudioBuffer
  /\ pc = "rotate"
  /\ file' = file + 1
  /\ recordedSamples' = 0
  /\ audioBuffer' = Empty
  /\ StartSave(audioFile, "fill")
  /\ UNCHANGED <<recordingStopSignal, currentChannel, capacity, disk, dma, input>>

Rotate_KeepCount ==       \* mutant: recordedSamples is not reset
  /\ pc = "rotate"
  /\ file' = file + 1
  /\ audioBuffer' = Empty
  /\ StartSave(Empty, "fill")
  /\ UNCHANGED <<recordingStopSignal, recordedSamples, currentChannel, capacity, disk,
                 dma, input>>

(* The channels are cleared, which leaves their capacity, at least          *)
(* BUFFER_LENGTH; the current channel stays.                                *)
Rotate ==
  /\ pc = "rotate"
  /\ file' = file + 1
  /\ recordedSamples' = 0
  /\ audioBuffer' = Empty
  /\ StartSave(Empty, "fill")
  /\ UNCHANGED <<recordingStopSignal, currentChannel, capacity, disk, dma, input>>

SaveWip ==
  /\ pc = "check"
  /\ recordedSamples < SamplesPerFile
  /\ recordedSamples = capacity
  /\ StartSave(audioBuffer, "grow")
  /\ UNCHANGED <<recordingStopSignal, recording, disk, dma, input>>

Grow ==
  /\ pc = "grow"
  /\ capacity' = capacity + BufferLength
  /\ pc' = "fill"
  /\ UNCHANGED <<after, recordingStopSignal, file, recordedSamples, currentChannel,
                 audioBuffer, audioFile, disk, dma, input>>

NothingToSave ==
  /\ pc = "check"
  /\ recordedSamples < SamplesPerFile
  /\ recordedSamples # capacity
  /\ pc' = "fill"
  /\ UNCHANGED <<after, recordingStopSignal, recording, audioFile, disk, dma, input>>

FillBuffer(k) ==
  /\ pc = "fill"
  /\ dmaBuffer' = dmaBuffer \o [i \in 1..k |-> received + i]
  /\ received' = received + k
  /\ pc' = "deal"
  /\ UNCHANGED <<after, recordingStopSignal, recording, audioFile, disk, input>>

(* push_back: a full vector doubles.                                        *)
Grown(cap, len) == IF len < cap THEN cap ELSE 2 * cap

NextChannel_Past(c) == (c + 1) % (TotalChannels + 1)   \* mutant: one channel too many
NextChannel(c) == IF c = TotalChannels - 1 THEN 0 ELSE c + 1

(* The loop over dma.buffer, a sample per step.                             *)
Deal ==
  /\ pc = "deal"
  /\ dmaBuffer # <<>>
  /\ audioBuffer' = [audioBuffer EXCEPT ![currentChannel] = Append(@, Head(dmaBuffer))]
  /\ capacity' = IF currentChannel = 0 THEN Grown(capacity, Len(audioBuffer[0]))
                 ELSE capacity
  /\ recordedSamples' = recordedSamples + 1
  /\ currentChannel' = NextChannel(currentChannel)
  /\ dmaBuffer' = Tail(dmaBuffer)
  /\ UNCHANGED <<pc, after, recordingStopSignal, file, audioFile, disk, received, input>>

Dealt_Wait ==             \* mutant: it is waited for the first sample
  /\ pc = "deal"
  /\ dmaBuffer = <<>>
  /\ pc' = IF recordedSamples = 0 THEN "fill" ELSE "send"
  /\ UNCHANGED <<after, recordingStopSignal, recording, audioFile, disk, dma, input>>

Dealt ==
  /\ pc = "deal"
  /\ dmaBuffer = <<>>
  /\ pc' = "send"
  /\ UNCHANGED <<after, recordingStopSignal, recording, audioFile, disk, dma, input>>

(* As in main.cpp there is no setAudioBuffer before the last save.          *)
FinalSave ==
  /\ pc = "final"
  /\ recordedSamples # 0
  /\ StartSave(audioFile, "done")
  /\ UNCHANGED <<recordingStopSignal, recording, disk, dma, input>>

NoFinalSave ==
  /\ pc = "final"
  /\ recordedSamples = 0
  /\ pc' = "done"
  /\ UNCHANGED <<after, recordingStopSignal, recording, audioFile, disk, dma, input>>

-------------------------------------------------------------------------------
(* SIGINT, once the first file is initialised, and crashes.                 *)
Handler ==
  /\ pc \notin Halted \cup {"start", "init"} /\ ~(pc \in {"open", "write"} /\ after = "first")
  /\ ~recordingStopSignal
  /\ recordingStopSignal' = TRUE
  /\ UNCHANGED <<pc, after, recording, audioFile, disk, dma, input>>

Crash ==
  /\ pc \notin Halted
  /\ pc' = "crashed"
  /\ UNCHANGED <<after, recordingStopSignal, recording, audioFile, disk, dma, input>>

Main ==
  \/ CheckInput \/ InitialiseAudioFile \/ SendFirst \/ LoopTest
  \/ SaveFullFile \/ Rotate \/ SaveWip \/ Grow \/ NothingToSave
  \/ \E k \in 0..MaxBatch : FillBuffer(k)
  \/ Deal \/ Dealt \/ SendNext
  \/ FinalSave \/ NoFinalSave
  \/ OpenFile \/ WriteFile

Terminated == pc \in Halted /\ UNCHANGED vars

Next == Main \/ Handler \/ Crash \/ Terminated

Spec == Init /\ [][Next]_vars

(* main() runs, and fillBuffer and sendData return.                         *)
FairSpec == Spec /\ WF_vars(Main)

-------------------------------------------------------------------------------
(* Properties.                                                              *)

(* Every variable stays in its set; a file is on disk once its first save   *)
(* has opened it (datacollection.cpp:60, 127-152).                          *)
TypeOK ==
  /\ pc \in {"start", "init", "open", "write", "first", "loop", "check", "rotate", "grow",
             "fill", "deal", "send", "final"} \cup Halted
  /\ after \in {"first", "rotate", "fill", "grow", "done"}
  /\ recordingStopSignal \in BOOLEAN
  /\ {file, recordedSamples, capacity, received, inputIdx} \subseteq Nat
  /\ currentChannel \in Channels
  /\ {audioBuffer, audioFile} \cup Range(disk) \subseteq [Channels -> Seq(Nat)]
  /\ dmaBuffer \in Seq(Nat)
  /\ sent \in Seq(Nat)
  /\ Len(disk) \in {file, file + 1}

(* The samples the channels of b hold.                                      *)
Held(b) == UNION {Range(b[c]) : c \in Channels}

(* The number of samples in the first f closed files.                       *)
End(f) == Cardinality(UNION {Held(disk[g]) : g \in 1..f})

(* Each channel of b holds its turns of the samples after the n-th up to the *)
(* m-th, all of them, once and in order.                                    *)
DealtOut(b, n, m) ==
  \A c \in Channels :
    /\ Range(b[c]) = {s \in (n + 1)..m : (s - 1) % TotalChannels = c}
    /\ \A i, j \in DOMAIN b[c] : i < j => b[c][i] < b[c][j]

(* Across all files the samples go round the channels without a gap: the     *)
(* n-th one is in channel (n-1) mod TOTAL_CHANNELS, also in a file that      *)
(* starts in the middle of a round, and recordedSamples counts those of the *)
(* file being recorded (datacollection.cpp:167-211).                        *)
SamplesDealt ==
  LET now == End(file) + recordedSamples
  IN /\ \A f \in 1..file : DealtOut(disk[f], End(f - 1), End(f))
     /\ DealtOut(audioBuffer, End(file), now)
     /\ dmaBuffer = [i \in 1..(received - now) |-> now + i]

(* At every moment, after a crash in the middle of a save too, the file      *)
(* being recorded holds in each channel the first samples of that channel,  *)
(* perhaps none (datacollection.cpp:147, 171, 185, 223).                    *)
CurrentFileIsPrefix ==
  Len(disk) = file + 1 =>
    \A c \in Channels : IsPrefix(disk[file + 1][c], audioBuffer[c])

(* The input is taken in pairs, once and in order, and the first sample of   *)
(* each pair is sent; nothing is sent of an input that was rejected, and    *)
(* unless it was stopped the program has taken every pair when it ends.     *)
(* Only the first sendData, of an input of fewer than two samples, reads    *)
(* behind the end (datacollection.cpp:85-112, 152-159, 213-216,             *)
(* AxiStreamDma.cpp:141-149).                                               *)
PairsSent ==
  /\ sent = [i \in 1..Len(sent) |-> 2 * (i - 1)]
  /\ \A i \in 1..Len(sent) : sent[i] + 1 >= length => i = 1 /\ length < 2
  /\ pc = "rejected" => sent = <<>> /\ disk = <<>>
  /\ pc = "done" /\ ~recordingStopSignal =>
       Len(sent) = IF length < 2 THEN 1 ELSE length \div 2

(* Both samples of each pair are sent, as the author's trace of the loop has *)
(* it (datacollection.cpp:214): an input that was not stopped was sent      *)
(* whole.  The transfer is of one sample, so the second of each pair is not *)
(* (AxiStreamDma.cpp:141-149).                                              *)
EverySampleSent ==
  pc = "done" /\ ~recordingStopSignal =>
    \A i \in 0..length : i < inputFileNumSamples => i \in Range(sent)

(* The program ends with the input (datacollection.cpp:159).                *)
Ends == <>(pc \in Halted)

(* The recording is an Archive: put back in the order of arrival, the       *)
(* channels of a closed file never change, and those of the open file are   *)
(* followed by what arrives (datacollection.cpp:159-217).                   *)
InOrder(b) ==
  [i \in 1..Cardinality(Held(b)) |->
     CHOOSE s \in Held(b) : Cardinality({r \in Held(b) : r < s}) = i - 1]

closedFiles == [f \in 1..file |-> InOrder(disk[f])]
openFile    == InOrder(audioBuffer) \o dmaBuffer

ARCHIVE == INSTANCE Archive WITH
  MinLength <- SamplesPerFile, closed <- closedFiles, open <- openFile

RefinesArchive == ARCHIVE!ArchiveSpec
=============================================================================
