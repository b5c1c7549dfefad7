----------------------------- MODULE RecordProofs -----------------------------
(***************************************************************************)
(* Proofs about Record, for every value of its constants.                  *)
(***************************************************************************)
EXTENDS Record, SequenceTheorems, TLAPS

-------------------------------------------------------------------------------
(* The inductive invariant: TypeOK, SamplesInOrder, ClosedFilesFull and what *)
(* each point of main() knows.                                              *)

(* recordedSamples counts audioBuffer; between two packets it stays below   *)
(* one file.                                                                *)
CountOK ==
  /\ recordedSamples = Len(audioBuffer)
  /\ recordedSamples < SamplesPerFile + MaxBatch
  /\ pc \in {"fill", "collect", "grow"} => recordedSamples < SamplesPerFile
  /\ (pc \in {"open", "write"} /\ after \in {"fill", "grow"})
       => recordedSamples < SamplesPerFile

(* dma.buffer is empty except between fillBuffer and the copy.              *)
DmaOK ==
  /\ pc \notin {"collect", "crashed"} => dmaBuffer = <<>>
  /\ pc = "collect" => /\ bytesRecorded = BytesPerSample * Len(dmaBuffer)
                       /\ Len(dmaBuffer) <= MaxBatch

(* The file exists once it was opened, and a full file is on disk before    *)
(* the next one is started.                                                 *)
SaveOK ==
  /\ pc \notin {"init", "open", "crashed"} => file \in DOMAIN disk
  /\ (pc \in {"open", "write"} /\ after = "rotate")
       => recordedSamples >= SamplesPerFile /\ audioFile = audioBuffer
  /\ pc = "rotate"
       => recordedSamples >= SamplesPerFile /\ disk[file] = audioBuffer

IInv ==
  /\ TypeOK
  /\ SamplesInOrder
  /\ ClosedFilesFull
  /\ CountOK
  /\ DmaOK
  /\ SaveOK
  /\ CurrentFileIsPrefix
  /\ IsPrefixOf(audioFile, audioBuffer)

-------------------------------------------------------------------------------
(* Lemmas about sequences of sample numbers.                                *)

(* A packet appended to a run of consecutive samples continues the run.     *)
LEMMA PacketFollows ==
  ASSUME NEW s \in Seq(Nat), NEW n \in Nat, NEW k \in Nat, Follows(s, n)
  PROVE  LET p == [i \in 1..k |-> n + Len(s) + i] IN
         /\ p \in Seq(Nat)
         /\ Len(p) = k
         /\ s \o p \in Seq(Nat)
         /\ Len(s \o p) = Len(s) + k
         /\ Follows(s \o p, n)
<1> DEFINE p == [i \in 1..k |-> n + Len(s) + i]
<1>1. Len(s) \in Nat
  BY LenProperties
<1>2. p \in [1..k -> Nat] /\ p \in Seq(Nat)
  BY <1>1, SMT
<1>3. Len(p) = k
  BY <1>2, SMT
<1>4. /\ s \o p \in Seq(Nat)
      /\ Len(s \o p) = Len(s) + Len(p)
      /\ \A i \in 1..(Len(s) + Len(p)) :
            (s \o p)[i] = IF i <= Len(s) THEN s[i] ELSE p[i - Len(s)]
  BY <1>2, ConcatProperties
<1>5. Follows(s \o p, n)
  BY <1>1, <1>3, <1>4, SMT DEF Follows
<1> QED
  BY <1>2, <1>3, <1>4, <1>5

(* Appending to a sequence keeps its prefixes.                              *)
LEMMA PrefixOfConcat ==
  ASSUME NEW s \in Seq(Nat), NEW t \in Seq(Nat), NEW u \in Seq(Nat),
         IsPrefixOf(s, t)
  PROVE  IsPrefixOf(s, t \o u)
<1>1. Len(s) \in Nat /\ Len(t) \in Nat /\ Len(u) \in Nat
  BY LenProperties
<1> QED
  BY <1>1, ConcatProperties, SMT DEF IsPrefixOf

-------------------------------------------------------------------------------
(* The invariant holds initially.                                           *)
LEMMA InitIInv == Init => IInv
<1> SUFFICES ASSUME Init PROVE IInv
  OBVIOUS
<1> USE RecordAssumption
<1>1. TypeOK
  <2>1. file = 0 /\ disk = [f \in {} |-> <<>>]
    BY DEF Init
  <2>2. DOMAIN disk = {} /\ 0..(file-1) = {}
    BY <2>1
  <2>3. disk \in [DOMAIN disk -> Seq(Nat)]
    BY <2>1, <2>2, Zenon
  <2>4. DOMAIN disk \in {0..(file-1), 0..file}
    BY <2>2
  <2>5. <<>> \in Seq(Nat)
    OBVIOUS
  <2>6. pc \in PCs /\ after \in {"loop", "rotate", "fill", "grow", "done"}
    BY DEF Init, PCs
  <2>7. recordingStopSignal \in BOOLEAN /\ file \in Nat /\ recordedSamples \in Nat
    BY DEF Init
  <2>8. capacity \in Nat /\ bytesRecorded \in Nat /\ received \in 0..MaxSamples
    BY DEF Init
  <2>9. audioBuffer \in Seq(Nat) /\ audioFile \in Seq(Nat) /\ dmaBuffer \in Seq(Nat)
    BY <2>5 DEF Init
  <2> QED
    BY <2>3, <2>4, <2>6, <2>7, <2>8, <2>9 DEF TypeOK
<1>2. SamplesInOrder
  BY DEF Init, SamplesInOrder, Follows, Before
<1>3. ClosedFilesFull /\ CountOK /\ DmaOK /\ SaveOK
  BY DEF Init, ClosedFilesFull, CountOK, DmaOK, SaveOK
<1>4. CurrentFileIsPrefix /\ IsPrefixOf(audioFile, audioBuffer)
  BY DEF Init, CurrentFileIsPrefix, IsPrefixOf
<1> QED
  BY <1>1, <1>2, <1>3, <1>4 DEF IInv

-------------------------------------------------------------------------------
(* Every step preserves the invariant.                                      *)

(* The invariants about the data survive a step that changes no data.       *)
LEMMA DataUnchanged ==
  ASSUME IInv, UNCHANGED <<recording, disk, dma>>
  PROVE  SamplesInOrder' /\ ClosedFilesFull' /\ CurrentFileIsPrefix'
<1>1. /\ file' = file /\ audioBuffer' = audioBuffer /\ disk' = disk
      /\ dmaBuffer' = dmaBuffer /\ received' = received
  BY DEF recording, dma
<1>2. SamplesInOrder'
  BY <1>1 DEF IInv, SamplesInOrder, Follows, Before
<1> QED
  BY <1>1, <1>2 DEF IInv, ClosedFilesFull, CurrentFileIsPrefix, IsPrefixOf

LEMMA InitialiseAudioFileStep ==
  ASSUME IInv, InitialiseAudioFile PROVE IInv'
<1> USE RecordAssumption
<1>1. UNCHANGED <<recording, disk, dma>>
  BY DEF InitialiseAudioFile, recording, dma
<1>2. SamplesInOrder' /\ ClosedFilesFull' /\ CurrentFileIsPrefix'
  BY <1>1, DataUnchanged
<1>3. TypeOK'
  BY DEF IInv, TypeOK, PCs, InitialiseAudioFile, StartSave, recording, dma
<1>4. CountOK' /\ DmaOK'
  BY DEF IInv, TypeOK, CountOK, DmaOK, InitialiseAudioFile, StartSave, recording, dma, BytesPerSample
<1>5. SaveOK'
  BY DEF IInv, TypeOK, CountOK, SaveOK, InitialiseAudioFile, StartSave, recording, dma
<1>6. IsPrefixOf(audioFile, audioBuffer)'
  BY DEF IInv, TypeOK, IsPrefixOf, InitialiseAudioFile, StartSave, recording, dma
<1> QED
  BY <1>2, <1>3, <1>4, <1>5, <1>6 DEF IInv

LEMMA LoopTestStep ==
  ASSUME IInv, LoopTest PROVE IInv'
<1> USE RecordAssumption
<1>1. UNCHANGED <<recording, disk, dma>>
  BY DEF LoopTest, recording, dma
<1>2. SamplesInOrder' /\ ClosedFilesFull' /\ CurrentFileIsPrefix'
  BY <1>1, DataUnchanged
<1>3. TypeOK'
  BY DEF IInv, TypeOK, PCs, LoopTest, recording, dma
<1>4. CountOK' /\ DmaOK'
  BY DEF IInv, TypeOK, CountOK, DmaOK, LoopTest, recording, dma, BytesPerSample
<1>5. SaveOK'
  BY DEF IInv, TypeOK, CountOK, SaveOK, LoopTest, recording, dma
<1>6. IsPrefixOf(audioFile, audioBuffer)'
  BY DEF IInv, TypeOK, IsPrefixOf, LoopTest, recording, dma
<1> QED
  BY <1>2, <1>3, <1>4, <1>5, <1>6 DEF IInv

LEMMA SaveFullFileStep ==
  ASSUME IInv, SaveFullFile PROVE IInv'
<1> USE RecordAssumption
<1>1. UNCHANGED <<recording, disk, dma>>
  BY DEF SaveFullFile, recording, dma
<1>2. SamplesInOrder' /\ ClosedFilesFull' /\ CurrentFileIsPrefix'
  BY <1>1, DataUnchanged
<1>3. TypeOK'
  BY DEF IInv, TypeOK, PCs, SaveFullFile, StartSave, recording, dma
<1>4. CountOK' /\ DmaOK'
  BY DEF IInv, TypeOK, CountOK, DmaOK, SaveFullFile, StartSave, recording, dma, BytesPerSample
<1>5. SaveOK'
  BY DEF IInv, TypeOK, CountOK, SaveOK, SaveFullFile, StartSave, recording, dma
<1>6. IsPrefixOf(audioFile, audioBuffer)'
  BY DEF IInv, TypeOK, IsPrefixOf, SaveFullFile, StartSave, recording, dma
<1> QED
  BY <1>2, <1>3, <1>4, <1>5, <1>6 DEF IInv

LEMMA SaveWipStep ==
  ASSUME IInv, SaveWip PROVE IInv'
<1> USE RecordAssumption
<1>1. UNCHANGED <<recording, disk, dma>>
  BY DEF SaveWip, recording, dma
<1>2. SamplesInOrder' /\ ClosedFilesFull' /\ CurrentFileIsPrefix'
  BY <1>1, DataUnchanged
<1>3. TypeOK'
  BY DEF IInv, TypeOK, PCs, SaveWip, StartSave, recording, dma
<1>4. CountOK' /\ DmaOK'
  BY DEF IInv, TypeOK, CountOK, DmaOK, SaveWip, StartSave, recording, dma, BytesPerSample
<1>5. SaveOK'
  BY DEF IInv, TypeOK, CountOK, SaveOK, SaveWip, StartSave, recording, dma
<1>6. IsPrefixOf(audioFile, audioBuffer)'
  BY DEF IInv, TypeOK, IsPrefixOf, SaveWip, StartSave, recording, dma
<1> QED
  BY <1>2, <1>3, <1>4, <1>5, <1>6 DEF IInv

LEMMA NothingToSaveStep ==
  ASSUME IInv, NothingToSave PROVE IInv'
<1> USE RecordAssumption
<1>1. UNCHANGED <<recording, disk, dma>>
  BY DEF NothingToSave, recording, dma
<1>2. SamplesInOrder' /\ ClosedFilesFull' /\ CurrentFileIsPrefix'
  BY <1>1, DataUnchanged
<1>3. TypeOK'
  BY DEF IInv, TypeOK, PCs, NothingToSave, recording, dma
<1>4. CountOK' /\ DmaOK'
  BY DEF IInv, TypeOK, CountOK, DmaOK, NothingToSave, recording, dma, BytesPerSample
<1>5. SaveOK'
  BY DEF IInv, TypeOK, CountOK, SaveOK, NothingToSave, recording, dma
<1>6. IsPrefixOf(audioFile, audioBuffer)'
  BY DEF IInv, TypeOK, IsPrefixOf, NothingToSave, recording, dma
<1> QED
  BY <1>2, <1>3, <1>4, <1>5, <1>6 DEF IInv

LEMMA NothingCollectedStep ==
  ASSUME IInv, NothingCollected PROVE IInv'
<1> USE RecordAssumption
<1>1. UNCHANGED <<recording, disk, dma>>
  BY DEF NothingCollected, recording, dma
<1>2. SamplesInOrder' /\ ClosedFilesFull' /\ CurrentFileIsPrefix'
  BY <1>1, DataUnchanged
<1>3. TypeOK'
  BY DEF IInv, TypeOK, PCs, NothingCollected, recording, dma
<1>4. CountOK' /\ DmaOK'
  BY DEF IInv, TypeOK, CountOK, DmaOK, NothingCollected, recording, dma, BytesPerSample
<1>5. SaveOK'
  BY DEF IInv, TypeOK, CountOK, SaveOK, NothingCollected, recording, dma
<1>6. IsPrefixOf(audioFile, audioBuffer)'
  BY DEF IInv, TypeOK, IsPrefixOf, NothingCollected, recording, dma
<1> QED
  BY <1>2, <1>3, <1>4, <1>5, <1>6 DEF IInv

LEMMA SpoofDataStep ==
  ASSUME IInv, SpoofData PROVE IInv'
<1> USE RecordAssumption
<1>1. UNCHANGED <<recording, disk, dma>>
  BY DEF SpoofData, recording, dma
<1>2. SamplesInOrder' /\ ClosedFilesFull' /\ CurrentFileIsPrefix'
  BY <1>1, DataUnchanged
<1>3. TypeOK'
  BY DEF IInv, TypeOK, PCs, SpoofData, recording, dma
<1>4. CountOK' /\ DmaOK'
  BY DEF IInv, TypeOK, CountOK, DmaOK, SpoofData, recording, dma, BytesPerSample
<1>5. SaveOK'
  BY DEF IInv, TypeOK, CountOK, SaveOK, SpoofData, recording, dma
<1>6. IsPrefixOf(audioFile, audioBuffer)'
  BY DEF IInv, TypeOK, IsPrefixOf, SpoofData, recording, dma
<1> QED
  BY <1>2, <1>3, <1>4, <1>5, <1>6 DEF IInv

LEMMA FinalSaveStep ==
  ASSUME IInv, FinalSave PROVE IInv'
<1> USE RecordAssumption
<1>1. UNCHANGED <<recording, disk, dma>>
  BY DEF FinalSave, recording, dma
<1>2. SamplesInOrder' /\ ClosedFilesFull' /\ CurrentFileIsPrefix'
  BY <1>1, DataUnchanged
<1>3. TypeOK'
  BY DEF IInv, TypeOK, PCs, FinalSave, StartSave, recording, dma
<1>4. CountOK' /\ DmaOK'
  BY DEF IInv, TypeOK, CountOK, DmaOK, FinalSave, StartSave, recording, dma, BytesPerSample
<1>5. SaveOK'
  BY DEF IInv, TypeOK, CountOK, SaveOK, FinalSave, StartSave, recording, dma
<1>6. IsPrefixOf(audioFile, audioBuffer)'
  BY DEF IInv, TypeOK, IsPrefixOf, FinalSave, StartSave, recording, dma
<1> QED
  BY <1>2, <1>3, <1>4, <1>5, <1>6 DEF IInv

LEMMA NoFinalSaveStep ==
  ASSUME IInv, NoFinalSave PROVE IInv'
<1> USE RecordAssumption
<1>1. UNCHANGED <<recording, disk, dma>>
  BY DEF NoFinalSave, recording, dma
<1>2. SamplesInOrder' /\ ClosedFilesFull' /\ CurrentFileIsPrefix'
  BY <1>1, DataUnchanged
<1>3. TypeOK'
  BY DEF IInv, TypeOK, PCs, NoFinalSave, recording, dma
<1>4. CountOK' /\ DmaOK'
  BY DEF IInv, TypeOK, CountOK, DmaOK, NoFinalSave, recording, dma, BytesPerSample
<1>5. SaveOK'
  BY DEF IInv, TypeOK, CountOK, SaveOK, NoFinalSave, recording, dma
<1>6. IsPrefixOf(audioFile, audioBuffer)'
  BY DEF IInv, TypeOK, IsPrefixOf, NoFinalSave, recording, dma
<1> QED
  BY <1>2, <1>3, <1>4, <1>5, <1>6 DEF IInv

LEMMA HandlerStep ==
  ASSUME IInv, Handler PROVE IInv'
<1> USE RecordAssumption
<1>1. UNCHANGED <<recording, disk, dma>>
  BY DEF Handler, recording, dma
<1>2. SamplesInOrder' /\ ClosedFilesFull' /\ CurrentFileIsPrefix'
  BY <1>1, DataUnchanged
<1>3. TypeOK'
  BY DEF IInv, TypeOK, PCs, Handler, HandlerInstalled, recording, dma
<1>4. CountOK' /\ DmaOK'
  BY DEF IInv, TypeOK, CountOK, DmaOK, Handler, HandlerInstalled, recording, dma, BytesPerSample
<1>5. SaveOK'
  BY DEF IInv, TypeOK, CountOK, SaveOK, Handler, HandlerInstalled, recording, dma
<1>6. IsPrefixOf(audioFile, audioBuffer)'
  BY DEF IInv, TypeOK, IsPrefixOf, Handler, HandlerInstalled, recording, dma
<1> QED
  BY <1>2, <1>3, <1>4, <1>5, <1>6 DEF IInv

LEMMA CrashStep ==
  ASSUME IInv, Crash PROVE IInv'
<1> USE RecordAssumption
<1>1. UNCHANGED <<recording, disk, dma>>
  BY DEF Crash, recording, dma
<1>2. SamplesInOrder' /\ ClosedFilesFull' /\ CurrentFileIsPrefix'
  BY <1>1, DataUnchanged
<1>3. TypeOK'
  BY DEF IInv, TypeOK, PCs, Crash, recording, dma
<1>4. CountOK' /\ DmaOK'
  BY DEF IInv, TypeOK, CountOK, DmaOK, Crash, recording, dma, BytesPerSample
<1>5. SaveOK'
  BY DEF IInv, TypeOK, CountOK, SaveOK, Crash, recording, dma
<1>6. IsPrefixOf(audioFile, audioBuffer)'
  BY DEF IInv, TypeOK, IsPrefixOf, Crash, recording, dma
<1> QED
  BY <1>2, <1>3, <1>4, <1>5, <1>6 DEF IInv

(* So they do when only the current file is written.                        *)
LEMMA CurrentFileWritten ==
  ASSUME IInv, UNCHANGED <<file, audioBuffer, dmaBuffer, received>>,
         \A f \in 0..(file-1) : disk'[f] = disk[f]
  PROVE  SamplesInOrder' /\ ClosedFilesFull'
<1> file \in Nat
  BY DEF IInv, TypeOK
<1>1. \A f \in 0..file : Before(f)' = Before(f)
  BY DEF Before
<1>2. SamplesInOrder'
  BY <1>1 DEF IInv, SamplesInOrder, Follows
<1> QED
  BY <1>2 DEF IInv, ClosedFilesFull

LEMMA OpenFileStep ==
  ASSUME IInv, OpenFile PROVE IInv'
<1>1. UNCHANGED <<after, recordingStopSignal, file, recordedSamples, audioBuffer,
                  capacity, audioFile, dmaBuffer, bytesRecorded, received>>
      /\ pc = "open" /\ pc' = "write"
  BY DEF OpenFile, recording, dma
<1>2. file \in Nat /\ DOMAIN disk \in {0..(file-1), 0..file}
  BY DEF IInv, TypeOK
<1>3. DOMAIN disk' = 0..file
  <2>1. DOMAIN disk' = (DOMAIN disk) \cup {file}
    BY DEF OpenFile
  <2> QED
    BY <1>2, <2>1
<1>4. disk'[file] = <<>> /\ \A f \in 0..(file-1) : disk'[f] = disk[f]
  <2>1. \A f \in 0..(file-1) : f \in DOMAIN disk /\ f # file
    BY <1>2
  <2> QED
    BY <2>1, Zenon DEF OpenFile
<1>5. SamplesInOrder' /\ ClosedFilesFull'
  BY <1>1, <1>4, CurrentFileWritten
<1>6. TypeOK'
  <2>1. disk' \in [DOMAIN disk' -> Seq(Nat)]
    <3>1. disk' = [f \in 0..file |-> disk'[f]]
      BY <1>3, Zenon DEF OpenFile
    <3>2. \A f \in 0..(file-1) : disk[f] \in Seq(Nat)
      BY <1>2 DEF IInv, TypeOK
    <3>3. \A f \in 0..file : disk'[f] \in Seq(Nat)
      <4>1. \A f \in 0..file : f = file \/ f \in 0..(file-1)
        BY <1>2
      <4>2. <<>> \in Seq(Nat)
        OBVIOUS
      <4> QED
        BY <4>1, <4>2, <3>2, <1>4, Zenon
    <3> QED
      BY <3>1, <3>3, <1>3, Zenon
  <2>2. DOMAIN disk' \in {0..(file'-1), 0..file'}
    BY <1>1, <1>3
  <2> QED
    BY <1>1, <2>1, <2>2 DEF IInv, TypeOK, PCs
<1>7. CountOK' /\ DmaOK'
  BY <1>1 DEF IInv, CountOK, DmaOK
<1>8. SaveOK'
  BY <1>1, <1>2, <1>3 DEF IInv, SaveOK
<1>9. CurrentFileIsPrefix' /\ IsPrefixOf(audioFile, audioBuffer)'
  <2>1. Len(audioBuffer) \in Nat
    BY DEF IInv, TypeOK
  <2>2. Len(disk'[file]) = 0
    BY <1>4
  <2> QED
    BY <1>1, <2>1, <2>2 DEF IInv, CurrentFileIsPrefix, IsPrefixOf
<1> QED
  BY <1>5, <1>6, <1>7, <1>8, <1>9 DEF IInv

LEMMA WriteFileStep ==
  ASSUME IInv, WriteFile PROVE IInv'
<1>1. UNCHANGED <<after, recordingStopSignal, file, recordedSamples, audioBuffer,
                  capacity, audioFile, dmaBuffer, bytesRecorded, received>>
      /\ pc = "write" /\ pc' = after
  BY DEF WriteFile, recording, dma
<1>2. file \in Nat /\ file \in DOMAIN disk /\ audioFile \in Seq(Nat)
  BY <1>1 DEF IInv, TypeOK, SaveOK
<1>3. DOMAIN disk' = DOMAIN disk
  BY DEF WriteFile
<1>4. disk'[file] = audioFile /\ \A f \in 0..(file-1) : disk'[f] = disk[f]
  BY <1>2 DEF WriteFile, IInv, TypeOK
<1>5. SamplesInOrder' /\ ClosedFilesFull'
  BY <1>1, <1>4, CurrentFileWritten
<1>6. TypeOK'
  <2>1. disk' \in [DOMAIN disk' -> Seq(Nat)]
    BY <1>2 DEF WriteFile, IInv, TypeOK
  <2>2. DOMAIN disk' \in {0..(file'-1), 0..file'}
    BY <1>1, <1>3 DEF IInv, TypeOK
  <2> QED
    BY <1>1, <2>1, <2>2 DEF IInv, TypeOK, PCs
<1>7. CountOK' /\ DmaOK'
  BY <1>1 DEF IInv, TypeOK, CountOK, DmaOK
<1>8. SaveOK'
  BY <1>1, <1>2, <1>3, <1>4 DEF IInv, TypeOK, SaveOK
<1>9. CurrentFileIsPrefix' /\ IsPrefixOf(audioFile, audioBuffer)'
  BY <1>1, <1>4 DEF IInv, CurrentFileIsPrefix, IsPrefixOf
<1> QED
  BY <1>5, <1>6, <1>7, <1>8, <1>9 DEF IInv

LEMMA RotateStep ==
  ASSUME IInv, Rotate PROVE IInv'
<1> USE RecordAssumption
<1>1. /\ pc = "rotate" /\ pc' = "open" /\ after' = "fill"
      /\ file' = file + 1 /\ recordedSamples' = 0
      /\ audioBuffer' = <<>> /\ audioFile' = <<>>
      /\ capacity' \in Nat
      /\ UNCHANGED <<recordingStopSignal, disk, dmaBuffer, bytesRecorded, received>>
  BY DEF Rotate, StartSave, dma, IInv, TypeOK
<1>2. /\ file \in Nat /\ DOMAIN disk = 0..file
      /\ disk \in [0..file -> Seq(Nat)]
      /\ audioBuffer \in Seq(Nat)
  <2>1. file \in Nat /\ file \in DOMAIN disk
        /\ DOMAIN disk \in {0..(file-1), 0..file}
    BY <1>1 DEF IInv, TypeOK, SaveOK
  <2>2. DOMAIN disk = 0..file
    BY <2>1
  <2> QED
    BY <2>1, <2>2 DEF IInv, TypeOK
<1>3. /\ disk[file] = audioBuffer
      /\ dmaBuffer = <<>>
      /\ recordedSamples = Len(audioBuffer)
      /\ recordedSamples >= SamplesPerFile
      /\ recordedSamples < SamplesPerFile + MaxBatch
  BY <1>1 DEF IInv, SaveOK, DmaOK, CountOK
<1>4. audioBuffer \o dmaBuffer = audioBuffer
  BY <1>2, <1>3, ConcatEmptySeq
<1>5. /\ Follows(audioBuffer, Before(file))
      /\ received = Before(file) + Len(audioBuffer)
  <2>1. Len(dmaBuffer) = 0 /\ received \in Nat
    BY <1>3 DEF IInv, TypeOK
  <2>2. Before(file) + Len(audioBuffer) + 0 = received
    BY <1>4, <2>1 DEF IInv, SamplesInOrder
  <2>3. Before(file) \in Nat
    BY <1>2, LenProperties, ElementOfSeq DEF IInv, SamplesInOrder, Before
  <2> QED
    BY <1>2, <1>4, <2>2, <2>3, LenProperties DEF IInv, SamplesInOrder
<1>6. Len(audioBuffer) \in Nat \ {0}
  BY <1>2, <1>3, LenProperties
<1>7. Before(file') = received
  BY <1>1, <1>2, <1>3, <1>5, <1>6 DEF Follows, Before
<1>8. \A f \in 0..file' : Before(f)' = Before(f)
  BY <1>1 DEF Before
<1>9. SamplesInOrder'
  <2>1. \A f \in 0..(file'-1) : disk'[f] # <<>> /\ Follows(disk[f], Before(f))
    <3>1. \A f \in 0..(file-1) : disk[f] # <<>> /\ Follows(disk[f], Before(f))
      BY DEF IInv, SamplesInOrder
    <3>2. disk[file] # <<>> /\ Follows(disk[file], Before(file))
      BY <1>3, <1>5, <1>6
    <3>3. \A f \in 0..(file'-1) : f = file \/ f \in 0..(file-1)
      BY <1>1, <1>2
    <3> QED
      BY <1>1, <3>1, <3>2, <3>3
  <2>2. \A f \in 0..(file'-1) : Follows(disk[f], Before(f))'
    BY <1>1, <1>2, <1>8, <2>1 DEF Follows
  <2>3. audioBuffer' \o dmaBuffer' = <<>> /\ Len(audioBuffer') = 0 /\ Len(dmaBuffer') = 0
    BY <1>1, <1>3, ConcatEmptySeq, EmptySeq
  <2>4. Before(file)' = received /\ received \in Nat
    BY <1>1, <1>2, <1>7, <1>8 DEF IInv, TypeOK, Before
  <2> QED
    BY <1>1, <2>1, <2>2, <2>3, <2>4 DEF SamplesInOrder, Follows
<1>10. ClosedFilesFull'
  <2>1. \A f \in 0..(file'-1) : f = file \/ f \in 0..(file-1)
    BY <1>1, <1>2
  <2> QED
    BY <1>1, <1>3, <2>1 DEF IInv, ClosedFilesFull
<1>11. TypeOK'
  <2>1. DOMAIN disk' = 0..(file'-1) /\ disk' \in [DOMAIN disk' -> Seq(Nat)]
    BY <1>1, <1>2
  <2>2. audioBuffer' \in Seq(Nat) /\ audioFile' \in Seq(Nat)
    BY <1>1
  <2> QED
    BY <1>1, <1>2, <2>1, <2>2 DEF IInv, TypeOK, PCs
<1>12. CountOK' /\ DmaOK' /\ SaveOK'
  <2>1. Len(audioBuffer') = 0
    BY <1>1
  <2> QED
    BY <1>1, <1>3, <2>1 DEF CountOK, DmaOK, SaveOK
<1>13. CurrentFileIsPrefix' /\ IsPrefixOf(audioFile, audioBuffer)'
  <2>1. file' \notin DOMAIN disk'
    BY <1>1, <1>2
  <2> QED
    BY <1>1, <2>1 DEF CurrentFileIsPrefix, IsPrefixOf
<1> QED
  BY <1>9, <1>10, <1>11, <1>12, <1>13 DEF IInv

(* The number of samples before the current file is a natural number.       *)
LEMMA BeforeNat ==
  ASSUME IInv PROVE Before(file) \in Nat
<1>1. CASE file = 0
  BY <1>1 DEF Before
<1>2. CASE file # 0
  <2>1. file - 1 \in 0..(file-1) /\ file - 1 \in DOMAIN disk
    BY <1>2 DEF IInv, TypeOK
  <2>2. disk[file-1] \in Seq(Nat) /\ disk[file-1] # <<>>
    BY <2>1 DEF IInv, TypeOK, SamplesInOrder
  <2> QED
    BY <1>2, <2>2, EmptySeq, ElementOfSeq DEF Before
<1> QED
  BY <1>1, <1>2

LEMMA GrowStep ==
  ASSUME IInv, Grow PROVE IInv'
<1> USE RecordAssumption
<1>1. UNCHANGED <<after, recordingStopSignal, file, recordedSamples, audioBuffer,
                  audioFile, disk, dma>>
      /\ pc = "grow" /\ pc' = "fill" /\ capacity' \in Nat
  BY DEF Grow, IInv, TypeOK
<1>2. SamplesInOrder' /\ ClosedFilesFull'
  BY <1>1, CurrentFileWritten DEF dma
<1>3. TypeOK'
  BY <1>1 DEF IInv, TypeOK, PCs, dma
<1>4. CountOK' /\ DmaOK' /\ SaveOK'
  BY <1>1 DEF IInv, CountOK, DmaOK, SaveOK, dma
<1>5. CurrentFileIsPrefix' /\ IsPrefixOf(audioFile, audioBuffer)'
  BY <1>1 DEF IInv, CurrentFileIsPrefix, IsPrefixOf
<1> QED
  BY <1>2, <1>3, <1>4, <1>5 DEF IInv

LEMMA FillBufferStep ==
  ASSUME IInv, NEW k \in 0..MaxBatch, FillBuffer(k) PROVE IInv'
<1> USE RecordAssumption
<1> DEFINE packet == [i \in 1..k |-> received + i]
<1>1. /\ UNCHANGED <<after, recordingStopSignal, file, recordedSamples, audioBuffer,
                     capacity, audioFile, disk>>
      /\ pc = "fill" /\ pc' = "collect"
      /\ received + k <= MaxSamples /\ received' = received + k
      /\ bytesRecorded' = BytesPerSample * k
      /\ dmaBuffer' = dmaBuffer \o packet
  BY DEF FillBuffer, recording
<1>2. k \in Nat /\ received \in Nat /\ file \in Nat /\ audioBuffer \in Seq(Nat)
  BY DEF IInv, TypeOK
<1>3. /\ dmaBuffer = <<>>
      /\ audioBuffer \o dmaBuffer = audioBuffer
      /\ Len(dmaBuffer) = 0
  <2>1. dmaBuffer = <<>>
    BY <1>1 DEF IInv, DmaOK
  <2> QED
    BY <1>2, <2>1, ConcatEmptySeq
<1>4. /\ packet \in Seq(Nat)
      /\ Len(packet) = k
  BY <1>2
<1>5. dmaBuffer' = packet
  BY <1>1, <1>3, <1>4, ConcatEmptySeq
<1>6. /\ Before(file) \in Nat
      /\ Follows(audioBuffer, Before(file))
      /\ received = Before(file) + Len(audioBuffer)
  <2>1. Before(file) \in Nat
    BY BeforeNat
  <2> QED
    BY <1>2, <1>3, <2>1, LenProperties DEF IInv, SamplesInOrder
<1>7. SamplesInOrder'
  <2>1. Follows(audioBuffer \o packet, Before(file))
    <3>1. packet = [i \in 1..k |-> Before(file) + Len(audioBuffer) + i]
      BY <1>2, <1>6
    <3> HIDE DEF packet
    <3> QED
      BY <1>2, <1>6, <3>1, PacketFollows
  <2>2. Follows(audioBuffer \o dmaBuffer, Before(file))'
    BY <1>1, <1>5, <2>1 DEF Follows, Before
  <2>3. (received = Before(file) + Len(audioBuffer) + Len(dmaBuffer))'
    <3> HIDE DEF packet
    <3> QED
      BY <1>1, <1>2, <1>4, <1>5, <1>6, LenProperties DEF Before
  <2>4. (\A f \in 0..(file-1) : disk[f] # <<>> /\ Follows(disk[f], Before(f)))'
    BY <1>1 DEF IInv, SamplesInOrder, Follows, Before
  <2> QED
    BY <2>2, <2>3, <2>4 DEF SamplesInOrder
<1> HIDE DEF packet
<1>8. ClosedFilesFull'
  BY <1>1 DEF IInv, ClosedFilesFull
<1>9. TypeOK'
  BY <1>1, <1>2, <1>4, <1>5 DEF IInv, TypeOK, PCs, BytesPerSample
<1>10. CountOK' /\ DmaOK' /\ SaveOK'
  BY <1>1, <1>2, <1>4, <1>5 DEF IInv, CountOK, DmaOK, SaveOK, BytesPerSample
<1>11. CurrentFileIsPrefix' /\ IsPrefixOf(audioFile, audioBuffer)'
  BY <1>1 DEF IInv, CurrentFileIsPrefix, IsPrefixOf
<1> QED
  BY <1>7, <1>8, <1>9, <1>10, <1>11 DEF IInv

LEMMA CollectStep ==
  ASSUME IInv, Collect PROVE IInv'
<1> USE RecordAssumption
<1>1. /\ UNCHANGED <<after, recordingStopSignal, file, audioFile, disk,
                     bytesRecorded, received>>
      /\ pc = "collect" /\ pc' = "spoof"
      /\ audioBuffer' = audioBuffer \o dmaBuffer
      /\ dmaBuffer' = <<>>
      /\ recordedSamples' = recordedSamples + bytesRecorded \div BytesPerSample
      /\ capacity' = InsertCapacity(capacity, Len(audioBuffer), Len(dmaBuffer))
  BY DEF Collect
<1>2. /\ audioBuffer \in Seq(Nat) /\ dmaBuffer \in Seq(Nat) /\ capacity \in Nat
      /\ audioFile \in Seq(Nat)
  BY DEF IInv, TypeOK
<1>3. /\ Len(audioBuffer) \in Nat /\ Len(dmaBuffer) \in Nat
      /\ audioBuffer' \in Seq(Nat)
      /\ Len(audioBuffer') = Len(audioBuffer) + Len(dmaBuffer)
  BY <1>1, <1>2, LenProperties, ConcatProperties
<1>4. recordedSamples' = Len(audioBuffer')
  <2>1. bytesRecorded \div BytesPerSample = Len(dmaBuffer)
    BY <1>1, <1>3 DEF IInv, DmaOK, BytesPerSample
  <2> QED
    BY <1>1, <1>3, <2>1 DEF IInv, CountOK
<1>5. recordedSamples' < SamplesPerFile + MaxBatch
  BY <1>1, <1>3, <1>4 DEF IInv, CountOK, DmaOK
<1>6. SamplesInOrder'
  <2>1. audioBuffer' \o dmaBuffer' = audioBuffer \o dmaBuffer
    BY <1>1, <1>3, ConcatEmptySeq
  <2>2. Len(dmaBuffer') = 0
    BY <1>1
  <2>3. Len(audioBuffer') + Len(dmaBuffer') = Len(audioBuffer) + Len(dmaBuffer)
    BY <1>3, <2>2
  <2>4. Before(file)' = Before(file)
    BY <1>1 DEF Before
  <2>5. received' = Before(file) + Len(audioBuffer') + Len(dmaBuffer')
    <3>1. received = Before(file) + Len(audioBuffer) + Len(dmaBuffer)
      BY DEF IInv, SamplesInOrder
    <3> QED
      BY <1>1, <1>3, <2>2, <3>1, BeforeNat
  <2>6. (\A f \in 0..(file-1) : disk[f] # <<>> /\ Follows(disk[f], Before(f)))'
    BY <1>1 DEF IInv, SamplesInOrder, Follows, Before
  <2>7. Follows(audioBuffer \o dmaBuffer, Before(file))'
    BY <2>1, <2>4 DEF IInv, SamplesInOrder, Follows
  <2> QED
    BY <2>4, <2>5, <2>6, <2>7 DEF SamplesInOrder
<1>7. ClosedFilesFull'
  BY <1>1 DEF IInv, ClosedFilesFull
<1>8. TypeOK'
  <2>1. capacity' \in Nat
    BY <1>1, <1>2, <1>3 DEF InsertCapacity
  <2>2. dmaBuffer' \in Seq(Nat)
    BY <1>1
  <2> QED
    BY <1>1, <1>3, <1>4, <2>1, <2>2 DEF IInv, TypeOK, PCs
<1>9. CountOK' /\ DmaOK' /\ SaveOK'
  BY <1>1, <1>4, <1>5 DEF IInv, CountOK, DmaOK, SaveOK
<1>10. IsPrefixOf(audioFile, audioBuffer)'
  BY <1>1, <1>2, PrefixOfConcat DEF IInv
<1>11. CurrentFileIsPrefix'
  <2> SUFFICES ASSUME file \in DOMAIN disk PROVE IsPrefixOf(disk[file], audioBuffer')
    BY <1>1 DEF CurrentFileIsPrefix, IsPrefixOf
  <2>1. disk[file] \in Seq(Nat) /\ IsPrefixOf(disk[file], audioBuffer)
    BY DEF IInv, TypeOK, CurrentFileIsPrefix
  <2> QED
    BY <1>1, <1>2, <2>1, PrefixOfConcat
<1> QED
  BY <1>4, <1>5, <1>6, <1>7, <1>8, <1>9, <1>10, <1>11 DEF IInv

LEMMA NextIInv ==
  IInv /\ [Next]_vars => IInv'
<1> SUFFICES ASSUME IInv, [Next]_vars PROVE IInv'
  OBVIOUS
<1>1. CASE InitialiseAudioFile
  BY <1>1, InitialiseAudioFileStep
<1>2. CASE LoopTest
  BY <1>2, LoopTestStep
<1>3. CASE SaveFullFile
  BY <1>3, SaveFullFileStep
<1>4. CASE Rotate
  BY <1>4, RotateStep
<1>5. CASE SaveWip
  BY <1>5, SaveWipStep
<1>6. CASE Grow
  BY <1>6, GrowStep
<1>7. CASE NothingToSave
  BY <1>7, NothingToSaveStep
<1>8. CASE \E k \in 0..MaxBatch : FillBuffer(k)
  BY <1>8, FillBufferStep
<1>9. CASE Collect
  BY <1>9, CollectStep
<1>10. CASE NothingCollected
  BY <1>10, NothingCollectedStep
<1>11. CASE SpoofData
  BY <1>11, SpoofDataStep
<1>12. CASE FinalSave
  BY <1>12, FinalSaveStep
<1>13. CASE NoFinalSave
  BY <1>13, NoFinalSaveStep
<1>14. CASE OpenFile
  BY <1>14, OpenFileStep
<1>15. CASE WriteFile
  BY <1>15, WriteFileStep
<1>16. CASE Handler
  BY <1>16, HandlerStep
<1>17. CASE Crash
  BY <1>17, CrashStep
<1>18. CASE UNCHANGED vars
  <2>1. UNCHANGED <<recording, disk, dma>>
    BY <1>18 DEF vars, recording, dma
  <2> QED
    BY <1>18, <2>1, DataUnchanged
    DEF IInv, TypeOK, CountOK, DmaOK, SaveOK, IsPrefixOf, vars
<1> QED
  BY <1>1, <1>2, <1>3, <1>4, <1>5, <1>6, <1>7, <1>8, <1>9, <1>10, <1>11, <1>12, <1>13, <1>14, <1>15, <1>16, <1>17, <1>18 DEF Next, Main, Save, Terminated

-------------------------------------------------------------------------------
(* The theorems.                                                            *)

(* The inductive invariant holds in every reachable state of main.cpp.      *)
THEOREM Invariance == Spec => []IInv
<1>1. Init => IInv
  BY InitIInv
<1>2. IInv /\ [Next]_vars => IInv'
  BY NextIInv
<1> QED
  BY <1>1, <1>2, PTL DEF Spec

(* The variables of the recording loop stay in their sets.                  *)
THEOREM TypeCorrect == Spec => []TypeOK
<1>1. IInv => TypeOK
  BY DEF IInv
<1> QED
  BY <1>1, Invariance, PTL

(* No sample is lost, repeated or reordered while the loop records, rotates *)
(* files, is signalled or crashes (main.cpp:122-181).                       *)
THEOREM NoSampleLost == Spec => []SamplesInOrder
<1>1. IInv => SamplesInOrder
  BY DEF IInv
<1> QED
  BY <1>1, Invariance, PTL

(* Every closed file is full, by less than one packet too much              *)
(* (main.cpp:130).                                                          *)
THEOREM ClosedFilesAreFull == Spec => []ClosedFilesFull
<1>1. IInv => ClosedFilesFull
  BY DEF IInv
<1> QED
  BY <1>1, Invariance, PTL

(* A crash never leaves anything but a prefix of the recording in the       *)
(* current file (main.cpp:117, 133, 146, 187).                              *)
THEOREM CrashLeavesPrefix == Spec => []CurrentFileIsPrefix
<1>1. IInv => CurrentFileIsPrefix
  BY DEF IInv
<1> QED
  BY <1>1, Invariance, PTL

(* A closed file is never written again (main.cpp:136).                     *)
THEOREM ClosedFilesStay == Spec => ClosedFilesFrozen
<1>1. IInv /\ [Next]_vars => [ClosedFilesKept]_vars
  <2> SUFFICES ASSUME IInv, Next PROVE ClosedFilesKept
    OBVIOUS
  <2>1. file \in Nat /\ \A f \in 0..(file-1) : f \in DOMAIN disk /\ f < file
    BY DEF IInv, TypeOK
  <2>2. CASE OpenFile
    BY <2>1, <2>2 DEF OpenFile, ClosedFilesKept, recording
  <2>3. CASE WriteFile
    BY <2>1, <2>3 DEF WriteFile, ClosedFilesKept, recording, IInv, TypeOK
  <2>4. CASE Rotate
    BY <2>1, <2>4 DEF Rotate, ClosedFilesKept
  <2>5. CASE disk' = disk /\ file' = file
    BY <2>1, <2>5 DEF ClosedFilesKept
  <2> QED
    BY <2>2, <2>3, <2>4, <2>5
    DEF Next, Main, Save, Terminated, vars, recording, InitialiseAudioFile,
        LoopTest, SaveFullFile, SaveWip, Grow, NothingToSave, FillBuffer, Collect,
        NothingCollected, SpoofData, FinalSave, NoFinalSave, Handler, Crash
<1> QED
  BY <1>1, Invariance, PTL DEF Spec, ClosedFilesFrozen

-------------------------------------------------------------------------------
(* Record implements Archive.                                               *)

(* A step that keeps the files below the current one, the samples in the    *)
(* two buffers and the count is a stutter of Archive.                       *)
LEMMA Stutter ==
  ASSUME ClosedFilesKept, file \in Nat, file' = file, received' = received,
         openFile' = openFile
  PROVE  UNCHANGED ARCHIVE!archiveVars
<1>1. closedFiles' = closedFiles
  <2>1. \A f \in 1..file : f - 1 \in 0..(file-1)
    OBVIOUS
  <2>2. \A f \in 1..file : disk'[f-1] = disk[f-1]
    BY <2>1 DEF ClosedFilesKept
  <2> QED
    BY <2>2 DEF closedFiles
<1> QED
  BY <1>1 DEF ARCHIVE!archiveVars

(* FillBuffer is Receive, or a stutter when no sample came.                 *)
LEMMA FillBufferIsReceive ==
  ASSUME IInv, NEW k \in 0..MaxBatch, FillBuffer(k)
  PROVE  [ARCHIVE!ArchiveNext]_(ARCHIVE!archiveVars)
<1> DEFINE packet == [i \in 1..k |-> received + i]
<1>1. /\ file' = file /\ audioBuffer' = audioBuffer /\ disk' = disk
      /\ received' = received + k /\ dmaBuffer' = dmaBuffer \o packet
      /\ dmaBuffer = <<>>
  BY DEF FillBuffer, recording, IInv, DmaOK
<1>2. /\ received \in Nat /\ file \in Nat /\ audioBuffer \in Seq(Nat) /\ k \in Nat
      /\ packet \in Seq(Nat)
  <2>1. received \in Nat /\ file \in Nat /\ audioBuffer \in Seq(Nat) /\ k \in Nat
    BY RecordAssumption DEF IInv, TypeOK
  <2>2. packet \in Seq(Nat)
    BY <2>1
  <2> QED
    BY <2>1, <2>2
<1>3. closedFiles' = closedFiles
  BY <1>1 DEF closedFiles
<1>4. openFile' = openFile \o packet
  <2>1. dmaBuffer' = packet /\ openFile = audioBuffer
    BY <1>1, <1>2, ConcatEmptySeq DEF openFile
  <2> QED
    BY <1>1, <2>1 DEF openFile
<1>5. CASE k = 0
  <2>1. packet = <<>>
    BY <1>5
  <2>2. openFile \in Seq(Nat)
    BY <1>1, <1>2, ConcatEmptySeq DEF openFile
  <2>3. openFile' = openFile
    BY <1>4, <2>1, <2>2, ConcatEmptySeq
  <2> QED
    BY <1>1, <1>2, <1>3, <1>5, <2>3 DEF ARCHIVE!archiveVars
<1>6. CASE k # 0
  <2>1. k \in 1..MaxBatch
    BY <1>6, RecordAssumption
  <2>2. ARCHIVE!Receive(k)
    BY <1>1, <1>3, <1>4 DEF ARCHIVE!Receive
  <2> QED
    BY <2>1, <2>2 DEF ARCHIVE!ArchiveNext
<1> QED
  BY <1>5, <1>6

(* Rotate is CloseFile.                                                     *)
LEMMA RotateIsCloseFile ==
  ASSUME IInv, Rotate PROVE ARCHIVE!CloseFile
<1>1. /\ file' = file + 1 /\ audioBuffer' = <<>> /\ disk' = disk
      /\ dmaBuffer' = dmaBuffer /\ received' = received
      /\ dmaBuffer = <<>> /\ disk[file] = audioBuffer
      /\ recordedSamples >= SamplesPerFile /\ recordedSamples = Len(audioBuffer)
  BY DEF Rotate, dma, IInv, DmaOK, SaveOK, CountOK
<1>2. file \in Nat /\ audioBuffer \in Seq(Nat)
  BY DEF IInv, TypeOK
<1>3. openFile = audioBuffer /\ openFile' = <<>>
  BY <1>1, <1>2, ConcatEmptySeq DEF openFile
<1>4. closedFiles' = Append(closedFiles, openFile)
  <2>1. \A f \in 0..file : disk[f] \in Seq(Nat)
    BY <1>2 DEF IInv, TypeOK, SaveOK, Rotate
  <2>2. closedFiles \in Seq(Seq(Nat)) /\ Len(closedFiles) = file
    <3>1. \A f \in 1..file : f-1 \in 0..file
      BY <1>2
    <3>2. closedFiles \in [1..file -> Seq(Nat)]
      BY <2>1, <3>1 DEF closedFiles
    <3> QED
      BY <1>2, <3>2
  <2>3. closedFiles' = [f \in 1..(file+1) |-> disk[f-1]]
    BY <1>1 DEF closedFiles
  <2>4. /\ Append(closedFiles, openFile) \in Seq(Seq(Nat))
        /\ Len(Append(closedFiles, openFile)) = file + 1
        /\ \A f \in 1..file : Append(closedFiles, openFile)[f] = closedFiles[f]
        /\ Append(closedFiles, openFile)[file+1] = openFile
    BY <1>2, <1>3, <2>2, AppendProperties
  <2>5. /\ closedFiles' \in Seq(Seq(Nat))
        /\ Len(closedFiles') = file + 1
    <3>1. \A f \in 1..(file+1) : f-1 \in 0..file
      BY <1>2
    <3>2. closedFiles' \in [1..(file+1) -> Seq(Nat)]
      BY <2>1, <2>3, <3>1
    <3> QED
      BY <1>2, <3>2
  <2>6. \A f \in 1..(file+1) : closedFiles'[f] = Append(closedFiles, openFile)[f]
    <3>1. \A f \in 1..(file+1) : f \in 1..file \/ f = file+1
      BY <1>2
    <3>2. \A f \in 1..file : closedFiles[f] = disk[f-1]
      BY DEF closedFiles
    <3>3. \A f \in 1..(file+1) : closedFiles'[f] = disk[f-1]
      BY <2>3
    <3>4. \A f \in 1..file : disk[f-1] = Append(closedFiles, openFile)[f]
      BY <2>4, <3>2
    <3>5. (file+1)-1 = file /\ file+1 \in 1..(file+1)
      BY <1>2
    <3>6. disk[(file+1)-1] = Append(closedFiles, openFile)[file+1]
      BY <1>1, <1>3, <2>4, <3>5
    <3> SUFFICES ASSUME NEW f \in 1..(file+1)
                 PROVE  closedFiles'[f] = Append(closedFiles, openFile)[f]
      OBVIOUS
    <3>7. CASE f \in 1..file
      BY <3>3, <3>4, <3>7
    <3>8. CASE f = file+1
      BY <3>3, <3>5, <3>6, <3>8
    <3> QED
      BY <3>1, <3>7, <3>8
  <2> QED
    BY <2>4, <2>5, <2>6, SeqEqual
<1> QED
  BY <1>1, <1>3, <1>4 DEF ARCHIVE!CloseFile

(* Record implements Archive: closing a file and receiving a packet are     *)
(* the only visible steps (main.cpp:122-188).                               *)
THEOREM ImplementsArchive == Spec => RefinesArchive
<1>1. Init => ARCHIVE!ArchiveInit
  <2> SUFFICES ASSUME Init PROVE ARCHIVE!ArchiveInit
    OBVIOUS
  <2>1. audioBuffer = <<>> /\ dmaBuffer = <<>> /\ file = 0 /\ received = 0
    BY DEF Init
  <2>2. openFile = <<>>
    BY <2>1 DEF openFile
  <2>3. closedFiles = <<>>
    BY <2>1 DEF closedFiles
  <2> QED
    BY <2>1, <2>2, <2>3 DEF ARCHIVE!ArchiveInit
<1>2. IInv /\ [ClosedFilesKept]_vars /\ [Next]_vars
        => [ARCHIVE!ArchiveNext]_(ARCHIVE!archiveVars)
  <2> SUFFICES ASSUME IInv, [ClosedFilesKept]_vars, [Next]_vars
               PROVE  [ARCHIVE!ArchiveNext]_(ARCHIVE!archiveVars)
    OBVIOUS
  <2>1. CASE UNCHANGED vars
    BY <2>1 DEF vars, ARCHIVE!archiveVars, closedFiles, openFile
  <2> SUFFICES ASSUME Next, ClosedFilesKept
               PROVE  [ARCHIVE!ArchiveNext]_(ARCHIVE!archiveVars)
    BY <2>1
  <2>2. CASE \E k \in 0..MaxBatch : FillBuffer(k)
    BY <2>2, FillBufferIsReceive
  <2>3. CASE Rotate
    BY <2>3, RotateIsCloseFile DEF ARCHIVE!ArchiveNext
  <2>4. CASE Collect
    <3>1. audioBuffer \in Seq(Nat) /\ dmaBuffer \in Seq(Nat) /\ file \in Nat
      BY DEF IInv, TypeOK
    <3>2. openFile' = openFile
      BY <2>4, <3>1, ConcatProperties, ConcatEmptySeq DEF Collect, openFile
    <3> QED
      BY <2>4, <3>1, <3>2, Stutter DEF Collect
  <2>5. CASE UNCHANGED <<recording, dma>>
    <3>1. file \in Nat /\ file' = file /\ received' = received /\ openFile' = openFile
      BY <2>5 DEF IInv, TypeOK, recording, dma, openFile
    <3> QED
      BY <3>1, Stutter
  <2>6. CASE Grow
    <3>1. file \in Nat /\ file' = file /\ received' = received /\ openFile' = openFile
      BY <2>6 DEF IInv, TypeOK, Grow, dma, openFile
    <3> QED
      BY <3>1, Stutter
  <2> QED
    BY <2>1, <2>2, <2>3, <2>4, <2>5, <2>6
    DEF Next, Main, Save, Terminated, InitialiseAudioFile, LoopTest, SaveFullFile,
        SaveWip, NothingToSave, NothingCollected, SpoofData, FinalSave, NoFinalSave,
        Handler, Crash, OpenFile, WriteFile
<1>3. Spec => [][ClosedFilesKept]_vars
  BY ClosedFilesStay DEF ClosedFilesFrozen
<1> QED
  BY <1>1, <1>2, <1>3, Invariance, PTL DEF Spec, RefinesArchive, ARCHIVE!ArchiveSpec
=============================================================================
