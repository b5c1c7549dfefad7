-------------------------------- MODULE Record --------------------------------
(***************************************************************************)
(* The recording program (main.cpp): packets of samples are taken from the *)
(* DMA, collected in audioBuffer[0], saved from time to time ("wip") and,   *)
(* when a file is full, moved to a closed file.  SIGINT asks the loop to    *)
(* stop; a crash may end the program at any step, in the middle of a save   *)
(* too.                                                                     *)
(*                                                                          *)
(* A sample is its number in the order of arrival.  Only channel 0 is       *)
(* modelled: the program never puts a sample in the other channels.         *)
(* fillBuffer and spoofData are modelled by their result here, register by  *)
(* register in StreamDma.                                                   *)
(***************************************************************************)
EXTENDS Naturals, Sequences

CONSTANTS
  SampleRate,      \* SAMPLE_RATE: first capacity of the buffer and its growth
  SamplesPerFile,  \* SAMPLES_PER_FILE
  MaxBatch,        \* bound: samples one fillBuffer returns
  MaxSamples       \* bound: samples received in one behaviour

ASSUME RecordAssumption ==
  /\ SampleRate \in Nat \ {0}
  /\ SamplesPerFile \in Nat \ {0}
  /\ MaxBatch \in Nat
  /\ MaxSamples \in Nat

BytesPerSample == 4    \* BYTES_PER_SAMPLE

VARIABLES
  pc,                  \* where main() is
  after,               \* where main() goes on once AudioFile::save returns
  recordingStopSignal, \* set by the SIGINT handler
  file,                \* r.file, the number of the file being recorded
  recordedSamples,     \* r.recordedSamples
  audioBuffer,         \* audioBuffer[0]
  capacity,            \* audioBuffer[0].capacity()
  audioFile,           \* the samples held by the AudioFile object
  disk,                \* the files that exist, by number
  dmaBuffer,           \* fpga.dma.buffer
  bytesRecorded,       \* result of the last fillBuffer
  received             \* number of samples the DMA has delivered

vars == <<pc, after, recordingStopSignal, file, recordedSamples, audioBuffer,
          capacity, audioFile, disk, dmaBuffer, bytesRecorded, received>>

recording == <<file, recordedSamples, audioBuffer, capacity>>
dma       == <<dmaBuffer, bytesRecorded, received>>

Halted == {"done", "crashed"}

Init ==
  /\ pc = "init"
  /\ after = "loop"
  /\ recordingStopSignal = FALSE
  /\ file = 0
  /\ recordedSamples = 0
  /\ audioBuffer = <<>>
  /\ capacity = SampleRate
  /\ audioFile = <<>>
  /\ disk = [f \in {} |-> <<>>]   \* no file exists
  /\ dmaBuffer = <<>>
  /\ bytesRecorded = 0
  /\ received = 0

-------------------------------------------------------------------------------
(* AudioFile, a library outside the repository.                             *)

(* setAudioBuffer(b) then save(filename), going on at "next" afterwards.    *)
StartSave(b, next) ==
  /\ audioFile' = b
  /\ pc' = "open"
  /\ after' = next

(* save opens the file for writing, which empties it ...                    *)
OpenFile ==
  /\ pc = "open"
  /\ disk' = [f \in (DOMAIN disk) \cup {file} |->
                IF f = file THEN <<>> ELSE disk[f]]
  /\ pc' = "write"
  /\ UNCHANGED <<after, recordingStopSignal, recording, audioFile, dma>>

(* ... then writes the samples the object holds.                            *)
WriteFile ==
  /\ pc = "write"
  /\ disk' = [disk EXCEPT ![file] = audioFile]
  /\ pc' = after
  /\ UNCHANGED <<after, recordingStopSignal, recording, audioFile, dma>>

(* std::vector: the capacity after n elements are inserted at the end of    *)
(* one of length len.                                                       *)
InsertCapacity(cap, len, n) ==
  IF len + n <= cap THEN cap
  ELSE len + (IF n > len THEN n ELSE len)

-------------------------------------------------------------------------------
(* main()                                                                   *)

(* initialiseAudioFile before the loop.                                     *)
InitialiseAudioFile ==
  /\ pc = "init"
  /\ StartSave(audioBuffer, "loop")
  /\ UNCHANGED <<recordingStopSignal, recording, disk, dma>>

LoopTest_IfRecorded ==    \* mutant: the loop is left only if there is data
  /\ pc = "loop"
  /\ pc' = IF recordingStopSignal /\ recordedSamples # 0 THEN "final" ELSE "check"
  /\ UNCHANGED <<after, recordingStopSignal, recording, audioFile, disk, dma>>

LoopTest ==
  /\ pc = "loop"
  /\ pc' = IF recordingStopSignal THEN "final" ELSE "check"
  /\ UNCHANGED <<after, recordingStopSignal, recording, audioFile, disk, dma>>

SaveFullFile_Bytes ==     \* mutant: bytes compared with a number of samples
  /\ pc = "check"
  /\ recordedSamples * BytesPerSample >= SamplesPerFile
  /\ StartSave(audioBuffer, "rotate")
  /\ UNCHANGED <<recordingStopSignal, recording, disk, dma>>

(* The file is full: save it ...                                            *)
SaveFullFile ==
  /\ pc = "check"
  /\ recordedSamples >= SamplesPerFile
  /\ StartSave(audioBuffer, "rotate")
  /\ UNCHANGED <<recordingStopSignal, recording, disk, dma>>

Rotate_Skip ==            \* mutant: r.file++ twice
  /\ pc = "rotate"
  /\ file' = file + 2
  /\ recordedSamples' = 0
  /\ audioBuffer' = <<>>
  /\ capacity' = IF capacity < SampleRate THEN SampleRate ELSE capacity
  /\ StartSave(<<>>, "fill")
  /\ UNCHANGED <<recordingStopSignal, disk, dma>>

Rotate_NoSet ==           \* mutant: initialiseAudioFile without setAudioBuffer
  /\ pc = "rotate"
  /\ file' = file + 1
  /\ recordedSamples' = 0
  /\ audioBuffer' = <<>>
  /\ capacity' = IF capacity < SampleRate THEN SampleRate ELSE capacity
  /\ StartSave(audioFile, "fill")
  /\ UNCHANGED <<recordingStopSignal, disk, dma>>

Rotate_NoClear ==         \* mutant: the buffer is not cleared
  /\ pc = "rotate"
  /\ file' = file + 1
  /\ recordedSamples' = 0
  /\ StartSave(audioBuffer, "fill")
  /\ UNCHANGED <<recordingStopSignal, audioBuffer, capacity, disk, dma>>

(* ... and start the next one, which initialiseAudioFile saves empty.  The   *)
(* cleared vector keeps its capacity.                                       *)
Rotate ==
  /\ pc = "rotate"
  /\ file' = file + 1
  /\ recordedSamples' = 0
  /\ audioBuffer' = <<>>
  /\ capacity' = IF capacity < SampleRate THEN SampleRate ELSE capacity
  /\ StartSave(<<>>, "fill")
  /\ UNCHANGED <<recordingStopSignal, disk, dma>>

(* The buffer is full: save the work in progress ...                        *)
SaveWip ==
  /\ pc = "check"
  /\ recordedSamples < SamplesPerFile
  /\ recordedSamples = capacity
  /\ StartSave(audioBuffer, "grow")
  /\ UNCHANGED <<recordingStopSignal, recording, disk, dma>>

(* ... and reserve another SAMPLE_RATE samples.                             *)
Grow ==
  /\ pc = "grow"
  /\ capacity' = capacity + SampleRate
  /\ pc' = "fill"
  /\ UNCHANGED <<after, recordingStopSignal, file, recordedSamples, audioBuffer,
                 audioFile, disk, dma>>

NothingToSave ==
  /\ pc = "check"
  /\ recordedSamples < SamplesPerFile
  /\ recordedSamples # capacity
  /\ pc' = "fill"
  /\ UNCHANGED <<after, recordingStopSignal, recording, audioFile, disk, dma>>

(* fillBuffer returns k samples at the end of dma.buffer.                   *)
FillBuffer(k) ==
  /\ pc = "fill"
  /\ received + k <= MaxSamples
  /\ dmaBuffer' = dmaBuffer \o [i \in 1..k |-> received + i]
  /\ bytesRecorded' = BytesPerSample * k
  /\ received' = received + k
  /\ pc' = "collect"
  /\ UNCHANGED <<after, recordingStopSignal, recording, audioFile, disk>>

Collect_KeepDma ==        \* mutant: dma.buffer.clear() forgotten
  /\ pc = "collect"
  /\ bytesRecorded > 0
  /\ audioBuffer' = audioBuffer \o dmaBuffer
  /\ capacity' = InsertCapacity(capacity, Len(audioBuffer), Len(dmaBuffer))
  /\ recordedSamples' = recordedSamples + bytesRecorded \div BytesPerSample
  /\ pc' = "spoof"
  /\ UNCHANGED <<after, recordingStopSignal, file, audioFile, disk, dma>>

Collect ==
  /\ pc = "collect"
  /\ bytesRecorded > 0
  /\ audioBuffer' = audioBuffer \o dmaBuffer
  /\ capacity' = InsertCapacity(capacity, Len(audioBuffer), Len(dmaBuffer))
  /\ dmaBuffer' = <<>>
  /\ recordedSamples' = recordedSamples + bytesRecorded \div BytesPerSample
  /\ pc' = "spoof"
  /\ UNCHANGED <<after, recordingStopSignal, file, audioFile, disk,
                 bytesRecorded, received>>

NothingCollected ==
  /\ pc = "collect"
  /\ bytesRecorded = 0
  /\ pc' = "spoof"
  /\ UNCHANGED <<after, recordingStopSignal, recording, audioFile, disk, dma>>

(* spoofData(transfer_size_bytes) returns.                                  *)
SpoofData ==
  /\ pc = "spoof"
  /\ pc' = "loop"
  /\ UNCHANGED <<after, recordingStopSignal, recording, audioFile, disk, dma>>

(* The save after the loop: there is no setAudioBuffer before it.           *)
FinalSave ==
  /\ pc = "final"
  /\ recordedSamples # 0
  /\ StartSave(audioFile, "done")
  /\ UNCHANGED <<recordingStopSignal, recording, disk, dma>>

NoFinalSave ==
  /\ pc = "final"
  /\ recordedSamples = 0
  /\ pc' = "done"
  /\ UNCHANGED <<after, recordingStopSignal, recording, audioFile, disk, dma>>

-------------------------------------------------------------------------------
(* The environment.                                                         *)

(* SIGINT.  The handler is installed once the first file is initialised.     *)
HandlerInstalled == pc # "init" /\ ~(pc \in {"open", "write"} /\ after = "loop")

Handler ==
  /\ pc \notin Halted
  /\ HandlerInstalled
  /\ ~recordingStopSignal
  /\ recordingStopSignal' = TRUE
  /\ UNCHANGED <<pc, after, recording, audioFile, disk, dma>>

(* A crash, a kill or a power cut.                                          *)
Crash ==
  /\ pc \notin Halted
  /\ pc' = "crashed"
  /\ UNCHANGED <<after, recordingStopSignal, recording, audioFile, disk, dma>>

Save == OpenFile \/ WriteFile

Main ==
  \/ InitialiseAudioFile \/ LoopTest
  \/ SaveFullFile \/ Rotate \/ SaveWip \/ Grow \/ NothingToSave
  \/ \E k \in 0..MaxBatch : FillBuffer(k)
  \/ Collect \/ NothingCollected \/ SpoofData
  \/ FinalSave \/ NoFinalSave
  \/ Save

Terminated == pc \in Halted /\ UNCHANGED vars

Next == Main \/ Handler \/ Crash \/ Terminated

Spec == Init /\ [][Next]_vars

(* main() is never stopped for ever at a step; in particular fillBuffer and *)
(* spoofData return, which StreamDma shows to depend on the DMA.            *)
FairSpec == Spec /\ WF_vars(Main)

-------------------------------------------------------------------------------
(* Properties.                                                              *)

PCs == {"init", "open", "write", "loop", "check", "rotate", "grow", "fill",
        "collect", "spoof", "final", "done", "crashed"}

(* Every variable stays in its set; the files on disk are numbered from 0   *)
(* without a hole (main.cpp:21-47, 60, 106-117).                            *)
TypeOK ==
  /\ pc \in PCs
  /\ after \in {"loop", "rotate", "fill", "grow", "done"}
  /\ recordingStopSignal \in BOOLEAN
  /\ file \in Nat
  /\ recordedSamples \in Nat
  /\ audioBuffer \in Seq(Nat)
  /\ capacity \in Nat
  /\ audioFile \in Seq(Nat)
  /\ DOMAIN disk \in {0..(file-1), 0..file}
  /\ disk \in [DOMAIN disk -> Seq(Nat)]
  /\ dmaBuffer \in Seq(Nat)
  /\ bytesRecorded \in Nat
  /\ received \in 0..MaxSamples

(* s holds the samples that follow the n-th, in order and without a gap.    *)
Follows(s, n) == \A i \in 1..Len(s) : s[i] = n + i

(* The number of samples recorded before file f.                            *)
Before(f) == IF f = 0 THEN 0 ELSE disk[f-1][Len(disk[f-1])]

(* Nothing that arrived is lost, repeated or reordered: the closed files,    *)
(* then audioBuffer, then dma.buffer hold the samples 1, 2, ..., received    *)
(* (main.cpp:130-176), in a crashed program too.                            *)
SamplesInOrder ==
  /\ \A f \in 0..(file-1) : disk[f] # <<>> /\ Follows(disk[f], Before(f))
  /\ Follows(audioBuffer \o dmaBuffer, Before(file))
  /\ received = Before(file) + Len(audioBuffer) + Len(dmaBuffer)

(* A closed file holds at least SAMPLES_PER_FILE samples and exceeds it by   *)
(* less than one packet (main.cpp:130).                                     *)
ClosedFilesFull ==
  \A f \in 0..(file-1) :
    /\ Len(disk[f]) >= SamplesPerFile
    /\ Len(disk[f]) < SamplesPerFile + MaxBatch

IsPrefixOf(s, t) == Len(s) <= Len(t) /\ \A i \in 1..Len(s) : s[i] = t[i]

(* At every moment, so also after a crash in the middle of a save, the file *)
(* being recorded holds the first samples of audioBuffer, perhaps none      *)
(* (main.cpp:117, 133, 146, 187).                                           *)
CurrentFileIsPrefix ==
  file \in DOMAIN disk => IsPrefixOf(disk[file], audioBuffer)

ClosedFilesKept == \A f \in 0..(file-1) : f < file' /\ disk'[f] = disk[f]

(* A closed file is never written again (main.cpp:136).                     *)
ClosedFilesFrozen == [][ClosedFilesKept]_vars

(* Once SIGINT was taken the program ends, as long as the DMA answers       *)
(* (main.cpp:62-69, 122).                                                   *)
StopsAfterSignal == recordingStopSignal ~> pc \in Halted

(* The recording is an Archive: a file is closed by Rotate, a packet        *)
(* arrives by FillBuffer, everything else is invisible.                     *)
closedFiles == [f \in 1..file |-> disk[f-1]]
openFile    == audioBuffer \o dmaBuffer

ARCHIVE == INSTANCE Archive WITH
  MinLength <- SamplesPerFile, closed <- closedFiles, open <- openFile

RefinesArchive == ARCHIVE!ArchiveSpec

(* "Stopping data feed safely..." (main.cpp:66) and "save file"              *)
(* (main.cpp:182): when the program has ended the last file holds all of the *)
(* samples recorded for it.                                                 *)
FinalFileComplete == pc = "done" => disk[file] = audioBuffer

(* RECORD_SAVE_INTERVAL_SECONDS = 1U (config.h:34), "save wip"              *)
(* (main.cpp:145): in every file, fewer than SAMPLE_RATE samples are not on *)
(* disk when the program asks for the next packet.                          *)
EveryFileSaved ==
  pc = "fill" => Len(audioBuffer) - Len(disk[file]) < SampleRate
=============================================================================
