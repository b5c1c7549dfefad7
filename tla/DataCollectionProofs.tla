------------------------- MODULE DataCollectionProofs -------------------------
(***************************************************************************)
(* Theorems about the data collection program, for every number of          *)
(* channels, buffer, file and input length: its types, the playback of the  *)
(* input, and how the samples go round the channels of one file after the   *)
(* other, so that put back in order they are an Archive.                    *)
(***************************************************************************)
EXTENDS DataCollection, Integers, SequenceTheorems, FiniteSetTheorems, TLAPS

-------------------------------------------------------------------------------
(* The inductive invariant.                                                 *)

Samples == [Channels -> Seq(Nat)]

PCs == {"start", "init", "open", "write", "first", "loop", "check", "rotate", "grow",
        "fill", "deal", "send", "final"} \cup Halted

Types ==
  /\ pc \in PCs
  /\ after \in {"first", "rotate", "fill", "grow", "done"}
  /\ recordingStopSignal \in BOOLEAN
  /\ file \in Nat /\ recordedSamples \in Nat /\ capacity \in Nat
  /\ received \in Nat /\ inputIdx \in Nat
  /\ currentChannel \in Channels
  /\ audioBuffer \in Samples /\ audioFile \in Samples
  /\ disk \in Seq(Samples) /\ Len(disk) \in {file, file + 1}
  /\ dmaBuffer \in Seq(Nat)
  /\ sent \in Seq(Nat)
  /\ length \in Nat

(* The elements of s are the first ones of t.                               *)
Heads(s, t) == Len(s) <= Len(t) /\ \A i \in 1..Len(s) : s[i] = t[i]

(* main() is in a save after which it goes on at p.                         *)
Saving(p) == pc \in {"open", "write"} /\ after = p

(* The file being recorded is there from the moment it is opened; what is in *)
(* AudioFile or on disk of it is the start of what was received.            *)
Saved ==
  /\ pc \notin {"start", "init", "open", "rejected", "crashed"} => Len(disk) = file + 1
  /\ \A c \in Channels : Heads(audioFile[c], audioBuffer[c])
  /\ Len(disk) = file + 1 => \A c \in Channels : Heads(disk[file + 1][c], audioBuffer[c])

(* Two samples of the input for each transfer; after the first one main()    *)
(* sends only where the next two are there, and it ends where they are not  *)
(* or it was stopped.                                                       *)
Playing == pc \in {"check", "rotate", "grow", "fill", "deal", "send"}
             \/ \E p \in {"rotate", "fill", "grow"} : Saving(p)

Played ==
  /\ inputIdx = 2 * Len(sent)
  /\ \A i \in 1..Len(sent) : sent[i] = 2 * (i - 1)
  /\ inputIdx <= inputFileNumSamples \/ (length < 2 /\ Len(sent) = 1)
  /\ pc \in {"loop", "final", "done"} \/ Saving("done") \/ Playing => Len(sent) # 0
  /\ pc \in {"start", "init", "first", "rejected"} \/ Saving("first") => Len(sent) = 0
  /\ pc \in {"start", "init", "rejected"} => disk = <<>>
  /\ Playing => inputIdx < inputFileNumSamples
  /\ pc \in {"final", "done"} \/ Saving("done")
       => recordingStopSignal \/ inputIdx >= inputFileNumSamples

IInv == Types /\ Saved /\ Played

-------------------------------------------------------------------------------
(* Lemmas about the operators.                                              *)

LEMMA HeadsAre ==
  ASSUME NEW s \in Seq(Nat), NEW t \in Seq(Nat)
  PROVE  /\ Heads(s, s) /\ Heads(<<>>, s)
         /\ \A n \in Nat : Heads(s, t) => Heads(s, Append(t, n))
         /\ Heads(s, t) => IsPrefix(s, t)
  <1>1. Len(s) \in Nat /\ Len(t) \in Nat
    BY LenProperties
  <1>2. Heads(s, s) /\ Heads(<<>>, s)
    BY <1>1 DEF Heads
  <1>3. ASSUME NEW n \in Nat, Heads(s, t) PROVE Heads(s, Append(t, n))
    <2>1. /\ Len(Append(t, n)) = Len(t) + 1
          /\ \A i \in 1..Len(t) : Append(t, n)[i] = t[i]
      OBVIOUS
    <2>2. QED
      BY <1>1, <1>3, <2>1 DEF Heads
  <1>4. ASSUME Heads(s, t) PROVE IsPrefix(s, t)
    <2>1. /\ \A i \in 1..Len(s) : s[i] \in Nat /\ t[i] \in Nat
          /\ \A i \in 1..Len(s) : t[i] = s[i]
      BY <1>1, <1>4 DEF Heads
    <2>2. /\ SubSeq(s, 1, Len(s)) \in Seq(Nat) /\ Len(SubSeq(s, 1, Len(s))) = Len(s)
          /\ \A i \in 1..Len(s) : SubSeq(s, 1, Len(s))[i] = s[i]
      BY <1>1, <2>1
    <2>3. /\ SubSeq(t, 1, Len(s)) \in Seq(Nat) /\ Len(SubSeq(t, 1, Len(s))) = Len(s)
          /\ \A i \in 1..Len(s) : SubSeq(t, 1, Len(s))[i] = t[i]
      BY <1>1, <1>4, <2>1 DEF Heads
    <2>4. SubSeq(s, 1, Len(s)) = SubSeq(t, 1, Len(s))
      BY <2>1, <2>2, <2>3, SeqEqual
    <2>5. QED
      BY <1>4, <2>4 DEF Heads, IsPrefix
  <1>5. QED
    BY <1>2, <1>3, <1>4

(* What disk holds after a save has reached the file being recorded.        *)
LEMMA PutIs ==
  ASSUME Types, NEW b \in Samples
  PROVE  /\ Put(file + 1, b) \in Seq(Samples)
         /\ Len(Put(file + 1, b)) = file + 1
         /\ Put(file + 1, b)[file + 1] = b
  <1>1. file \in Nat /\ disk \in Seq(Samples) /\ Len(disk) \in {file, file + 1}
    BY DEF Types
  <1>2. (IF file + 1 > Len(disk) THEN file + 1 ELSE Len(disk)) = file + 1
    BY <1>1
  <1>3. Put(file + 1, b) = [i \in 1..(file + 1) |-> IF i = file + 1 THEN b ELSE disk[i]]
    BY <1>2 DEF Put
  <1>4. \A i \in 1..(file + 1) : (IF i = file + 1 THEN b ELSE disk[i]) \in Samples
    BY <1>1
  <1>5. QED
    BY <1>1, <1>3, <1>4

LEMMA EmptyIs ==
  Empty \in Samples /\ \A c \in Channels : Empty[c] = <<>>
  BY DEF Empty, Samples

(* The input is played in pairs.                                            *)
LEMMA PairsOf ==
  ASSUME length \in Nat
  PROVE  /\ inputFileNumSamples \in Nat /\ inputFileNumSamples <= length
         /\ inputFileNumSamples = IF length < 2 THEN 0 ELSE 2 * (length \div 2)
         /\ length >= 2 => inputFileNumSamples >= 2
         /\ \A k \in Nat : /\ 2 * k < inputFileNumSamples => 2 * k + 2 <= inputFileNumSamples
                           /\ 2 * k = inputFileNumSamples => k = length \div 2
  <1>1. PICK q \in Nat : (length = 2 * q \/ length = 2 * q + 1) /\ q = length \div 2
    OBVIOUS
  <1>2. inputFileNumSamples = 2 * q
    BY <1>1 DEF inputFileNumSamples
  <1>3. QED
    BY <1>1, <1>2

LEMMA InitIInv == Init => IInv
  <1> SUFFICES ASSUME Init PROVE IInv
    OBVIOUS
  <1>1. length \in Nat /\ 0 \in Channels /\ BufferLength \in Nat
    BY DataCollectionAssumption DEF Init, Channels
  <1>2. Types
    <2>1. pc \in PCs /\ after \in {"first", "rotate", "fill", "grow", "done"}
      BY DEF Init, PCs
    <2>2. disk = <<>> /\ disk \in Seq(Samples) /\ Len(disk) = 0 /\ file = 0
      BY DEF Init
    <2>3. dmaBuffer \in Seq(Nat) /\ sent \in Seq(Nat)
      BY DEF Init
    <2>4. audioBuffer \in Samples /\ audioFile \in Samples
      BY EmptyIs DEF Init
    <2>5. /\ recordingStopSignal \in BOOLEAN /\ currentChannel \in Channels
          /\ recordedSamples \in Nat /\ capacity \in Nat
          /\ received \in Nat /\ inputIdx \in Nat
      BY <1>1 DEF Init
    <2>6. file \in Nat /\ Len(disk) \in {file, file + 1}
      BY <2>2
    <2>7. QED
      BY <1>1, <2>1, <2>2, <2>3, <2>4, <2>5, <2>6 DEF Types
  <1>3. Saved
    <2>1. \A c \in Channels : Heads(audioFile[c], audioBuffer[c])
      <3>1. \A c \in Channels : audioFile[c] = <<>> /\ audioBuffer[c] = <<>>
        BY EmptyIs DEF Init
      <3>2. Heads(<<>>, <<>>)
        BY DEF Heads
      <3>3. QED
        BY <3>1, <3>2
    <2>2. Len(disk) # file + 1
      BY DEF Init
    <2>3. pc = "start"
      BY DEF Init
    <2>4. QED
      BY <2>1, <2>2, <2>3 DEF Saved
  <1>4. Played
    BY <1>1, PairsOf DEF Init, Played, Playing, Saving
  <1>5. QED
    BY <1>2, <1>3, <1>4 DEF IInv

-------------------------------------------------------------------------------
(* Every step preserves the invariant.                                      *)

(* The steps that only move pc, or that SIGINT takes.                        *)
Moved ==
  /\ CheckInput \/ LoopTest \/ NothingToSave \/ Dealt \/ NoFinalSave
     \/ Handler \/ Crash \/ Terminated

LEMMA MovedKeeps == ASSUME IInv, Moved PROVE IInv'
  <1>1. /\ UNCHANGED <<after, file, recordedSamples, currentChannel, audioBuffer, capacity,
                       audioFile, disk, dmaBuffer, received, length, inputIdx, sent>>
        /\ inputFileNumSamples' = inputFileNumSamples
    BY DEF Moved, CheckInput, LoopTest, NothingToSave, Dealt, NoFinalSave, Handler, Crash,
           Terminated, recording, dma, input, vars, inputFileNumSamples
  <1>2. pc' \in PCs /\ recordingStopSignal' \in BOOLEAN
    BY DEF Moved, CheckInput, LoopTest, NothingToSave, Dealt, NoFinalSave, Handler, Crash,
           Terminated, vars, PCs, Halted, IInv, Types
  <1>3. Types'
    BY <1>1, <1>2 DEF IInv, Types, PCs
  <1>4. Saved'
    <2>1. pc' \notin {"start", "init", "open", "rejected", "crashed"} =>
            pc \notin {"start", "init", "open", "rejected", "crashed"}
      BY DEF Moved, CheckInput, LoopTest, NothingToSave, Dealt, NoFinalSave, Handler, Crash,
             Terminated, vars, Halted
    <2>2. QED
      BY <1>1, <2>1 DEF IInv, Saved
  <1>5. Played'
    <2>1. Played
      BY DEF IInv
    <2>2. \/ pc' = pc
          \/ pc = "start" /\ pc' \in {"init", "rejected"}
          \/ pc = "loop" /\ pc' = "check" /\ inputIdx < inputFileNumSamples
          \/ /\ pc = "loop" /\ pc' = "final"
             /\ recordingStopSignal' \/ ~(inputIdx < inputFileNumSamples)
          \/ pc = "check" /\ pc' = "fill"
          \/ pc = "deal" /\ pc' = "send"
          \/ pc = "final" /\ pc' = "done"
          \/ pc' = "crashed"
      BY DEF Moved, CheckInput, LoopTest, NothingToSave, Dealt, NoFinalSave, Handler, Crash,
             Terminated, vars
    <2>3. recordingStopSignal => recordingStopSignal'
      BY DEF Moved, CheckInput, LoopTest, NothingToSave, Dealt, NoFinalSave, Handler, Crash,
             Terminated, vars
    <2>4. inputIdx \in Nat /\ inputFileNumSamples \in Nat
      BY PairsOf DEF IInv, Types
    <2>5. QED
      BY <1>1, <2>1, <2>2, <2>3, <2>4 DEF Played, Playing, Saving
  <1>6. QED
    BY <1>3, <1>4, <1>5 DEF IInv

(* The saves.                                                               *)
Saves == InitialiseAudioFile \/ SaveFullFile \/ SaveWip \/ FinalSave

LEMMA SavesKeep == ASSUME IInv, Saves PROVE IInv'
  <1>1. /\ UNCHANGED <<recordingStopSignal, file, recordedSamples, currentChannel, audioBuffer,
                       capacity, disk, dmaBuffer, received, length, inputIdx, sent>>
        /\ inputFileNumSamples' = inputFileNumSamples
        /\ audioFile' \in {audioFile, audioBuffer} /\ pc' = "open"
    BY DEF Saves, InitialiseAudioFile, SaveFullFile, SaveWip, FinalSave, StartSave,
           recording, dma, input, inputFileNumSamples
  <1>2. \/ pc = "init" /\ after' = "first"
        \/ pc = "check" /\ after' \in {"rotate", "grow"}
        \/ pc = "final" /\ after' = "done"
    BY DEF Saves, InitialiseAudioFile, SaveFullFile, SaveWip, FinalSave, StartSave
  <1>3. Types'
    BY <1>1, <1>2 DEF IInv, Types, PCs
  <1>4. Saved'
    <2>1. audioBuffer \in Samples
      BY DEF IInv, Types
    <2>2. \A c \in Channels : Heads(audioBuffer[c], audioBuffer[c])
      BY <2>1, HeadsAre DEF Samples
    <2>3. QED
      BY <1>1, <2>2 DEF IInv, Saved
  <1>5. Played'
    <2>1. Played
      BY DEF IInv
    <2>2. QED
      BY <1>1, <1>2, <2>1 DEF Played, Playing, Saving
  <1>6. QED
    BY <1>3, <1>4, <1>5 DEF IInv

LEMMA RotateKeeps == ASSUME IInv, Rotate PROVE IInv'
  <1>1. /\ UNCHANGED <<recordingStopSignal, currentChannel, capacity, disk, dmaBuffer, received,
                       length, inputIdx, sent>>
        /\ inputFileNumSamples' = inputFileNumSamples
        /\ file' = file + 1 /\ recordedSamples' = 0
        /\ audioBuffer' = Empty /\ audioFile' = Empty
        /\ pc = "rotate" /\ pc' = "open" /\ after' = "fill"
    BY DEF Rotate, StartSave, dma, input, inputFileNumSamples
  <1>2. file \in Nat /\ Len(disk) = file + 1
    BY <1>1 DEF IInv, Types, Saved
  <1>3. Types'
    <2>1. file' \in Nat /\ Len(disk) \in {file', file' + 1}
      BY <1>1, <1>2
    <2>2. QED
      BY <1>1, <2>1, EmptyIs DEF IInv, Types, PCs
  <1>4. Saved'
    <2>1. Len(disk') # file' + 1
      BY <1>1, <1>2
    <2>2. \A c \in Channels : Heads(Empty[c], Empty[c])
      BY EmptyIs, HeadsAre DEF Samples
    <2>3. QED
      BY <1>1, <2>1, <2>2 DEF Saved
  <1>5. Played'
    BY <1>1 DEF IInv, Played, Playing, Saving
  <1>6. QED
    BY <1>3, <1>4, <1>5 DEF IInv

LEMMA GrowKeeps == ASSUME IInv, Grow PROVE IInv'
  <1>1. /\ UNCHANGED <<after, recordingStopSignal, file, recordedSamples, currentChannel,
                       audioBuffer, audioFile, disk, dmaBuffer, received, length, inputIdx, sent>>
        /\ inputFileNumSamples' = inputFileNumSamples
        /\ capacity' = capacity + BufferLength /\ pc = "grow" /\ pc' = "fill"
    BY DEF Grow, dma, input, inputFileNumSamples
  <1>2. capacity' \in Nat
    BY <1>1, DataCollectionAssumption DEF IInv, Types
  <1>3. Types' /\ Saved' /\ Played'
    BY <1>1, <1>2 DEF IInv, Types, Saved, Played, Playing, Saving, PCs
  <1>4. QED
    BY <1>3 DEF IInv

(* Sends happen where the next two samples of the input are there.          *)
LEMMA SendsKeep == ASSUME IInv, SendFirst \/ SendNext PROVE IInv'
  <1>1. /\ UNCHANGED <<after, recordingStopSignal, file, recordedSamples, currentChannel,
                       audioBuffer, capacity, audioFile, disk, dmaBuffer, received, length>>
        /\ inputFileNumSamples' = inputFileNumSamples
        /\ sent' = Append(sent, inputIdx) /\ inputIdx' = inputIdx + 2
        /\ pc \in {"first", "send"} /\ pc' = "loop"
    BY DEF SendFirst, SendNext, Send, recording, dma, inputFileNumSamples
  <1>2. /\ length \in Nat /\ inputIdx \in Nat /\ sent \in Seq(Nat)
        /\ inputIdx = 2 * Len(sent) /\ Len(sent) \in Nat
        /\ \A i \in 1..Len(sent) : sent[i] = 2 * (i - 1)
        /\ inputFileNumSamples \in Nat /\ (length >= 2 => inputFileNumSamples >= 2)
    BY PairsOf DEF IInv, Types, Played
  <1>3. 2 * Len(sent) < inputFileNumSamples \/ (length < 2 /\ Len(sent) = 0)
    <2>1. CASE pc = "first"
      <3>1. Len(sent) = 0
        BY <2>1 DEF IInv, Played
      <3>2. QED
        BY <1>2, <3>1
    <2>2. CASE pc = "send"
      BY <1>2, <2>2 DEF IInv, Played, Playing
    <2>3. QED
      BY <1>1, <2>1, <2>2
  <1>4. 2 * Len(sent) + 2 <= inputFileNumSamples \/ (length < 2 /\ Len(sent) = 0)
    BY <1>2, <1>3, PairsOf
  <1>5. /\ sent' \in Seq(Nat) /\ Len(sent') = Len(sent) + 1
        /\ \A i \in 1..Len(sent') : sent'[i] = 2 * (i - 1)
    <2>1. /\ sent' \in Seq(Nat) /\ Len(sent') = Len(sent) + 1
          /\ sent'[Len(sent) + 1] = inputIdx
          /\ \A i \in 1..Len(sent) : sent'[i] = sent[i]
      BY <1>1, <1>2
    <2>2. \A i \in 1..(Len(sent) + 1) : sent'[i] = 2 * (i - 1)
      <3>1. TAKE i \in 1..(Len(sent) + 1)
      <3>2. CASE i = Len(sent) + 1
        <4>1. 2 * (i - 1) = 2 * Len(sent)
          BY <1>2, <3>2
        <4>2. QED
          BY <1>2, <2>1, <3>2, <4>1
      <3>3. CASE i \in 1..Len(sent)
        BY <1>2, <2>1, <3>3
      <3>4. QED
        BY <1>2, <3>2, <3>3
    <2>3. QED
      BY <2>1, <2>2
  <1>6. /\ inputIdx' \in Nat /\ inputIdx' = 2 * Len(sent')
        /\ inputIdx' <= inputFileNumSamples \/ (length < 2 /\ Len(sent') = 1)
    BY <1>1, <1>2, <1>4, <1>5
  <1>7. Types'
    BY <1>1, <1>5, <1>6 DEF IInv, Types, PCs
  <1>8. Saved'
    BY <1>1 DEF IInv, Saved
  <1>9. Played'
    BY <1>1, <1>5, <1>6 DEF Played, Playing, Saving
  <1>10. QED
    BY <1>7, <1>8, <1>9 DEF IInv

LEMMA FillBufferKeeps ==
  ASSUME IInv, NEW k \in 0..MaxBatch, FillBuffer(k)
  PROVE  IInv'
  <1> DEFINE packet == [i \in 1..k |-> received + i]
  <1>1. /\ UNCHANGED <<after, recordingStopSignal, file, recordedSamples, currentChannel,
                       audioBuffer, capacity, audioFile, disk, length, inputIdx, sent>>
        /\ inputFileNumSamples' = inputFileNumSamples
        /\ dmaBuffer' = dmaBuffer \o packet /\ received' = received + k
        /\ pc = "fill" /\ pc' = "deal"
    BY DEF FillBuffer, recording, input, inputFileNumSamples
  <1>2. k \in Nat /\ received \in Nat /\ dmaBuffer \in Seq(Nat)
    BY DataCollectionAssumption DEF IInv, Types
  <1>3. packet \in Seq(Nat)
    BY <1>2
  <1>4. dmaBuffer' \in Seq(Nat) /\ received' \in Nat
    BY <1>1, <1>2, <1>3
  <1> HIDE DEF packet
  <1>5. Types' /\ Saved' /\ Played'
    BY <1>1, <1>4 DEF IInv, Types, Saved, Played, Playing, Saving, PCs
  <1>6. QED
    BY <1>5 DEF IInv

(* A sample goes to the end of one channel, the start of all stays.         *)
LEMMA DealKeeps == ASSUME IInv, Deal PROVE IInv'
  <1>1. /\ UNCHANGED <<pc, after, recordingStopSignal, file, audioFile, disk, received,
                       length, inputIdx, sent>>
        /\ inputFileNumSamples' = inputFileNumSamples
        /\ audioBuffer' =
             [audioBuffer EXCEPT ![currentChannel] = Append(@, Head(dmaBuffer))]
        /\ recordedSamples' = recordedSamples + 1
        /\ currentChannel' = NextChannel(currentChannel)
        /\ dmaBuffer' = Tail(dmaBuffer) /\ dmaBuffer # <<>>
    BY DEF Deal, input, inputFileNumSamples
  <1>2. /\ dmaBuffer \in Seq(Nat) /\ audioBuffer \in Samples /\ audioFile \in Samples
        /\ disk \in Seq(Samples) /\ currentChannel \in Channels
        /\ recordedSamples \in Nat /\ capacity \in Nat /\ file \in Nat
    BY DEF IInv, Types
  <1>3. Head(dmaBuffer) \in Nat /\ Tail(dmaBuffer) \in Seq(Nat)
    BY <1>1, <1>2
  <1>4. /\ audioBuffer' \in Samples
        /\ \A c \in Channels : audioBuffer'[c] \in
             {audioBuffer[c], Append(audioBuffer[c], Head(dmaBuffer))}
    BY <1>1, <1>2, <1>3 DEF Samples
  <1>5. /\ recordedSamples' \in Nat /\ NextChannel(currentChannel) \in Channels
        /\ capacity' \in Nat
    <2>1. recordedSamples' \in Nat
      BY <1>1, <1>2
    <2>2. NextChannel(currentChannel) \in Channels
      BY <1>2, DataCollectionAssumption DEF NextChannel, Channels
    <2>3. capacity' \in {capacity, 2 * capacity}
      BY DEF Deal, Grown
    <2>4. QED
      BY <1>2, <2>1, <2>2, <2>3
  <1>6. Types'
    BY <1>1, <1>3, <1>4, <1>5 DEF IInv, Types
  <1>7. Saved'
    <2>1. \A s \in Seq(Nat) : \A c \in Channels :
            Heads(s, audioBuffer[c]) => Heads(s, audioBuffer'[c])
      <3>1. ASSUME NEW s \in Seq(Nat), NEW c \in Channels, Heads(s, audioBuffer[c])
            PROVE  Heads(s, audioBuffer'[c])
        <4>1. audioBuffer[c] \in Seq(Nat)
          BY <1>2 DEF Samples
        <4>2. Heads(s, Append(audioBuffer[c], Head(dmaBuffer)))
          BY <1>3, <3>1, <4>1, HeadsAre
        <4>3. QED
          BY <1>4, <3>1, <4>2
      <3>2. QED
        BY <3>1
    <2>2. \A c \in Channels : audioFile[c] \in Seq(Nat)
      BY <1>2 DEF Samples
    <2>3. Len(disk) = file + 1 => \A c \in Channels : disk[file + 1][c] \in Seq(Nat)
      <3>1. Len(disk) = file + 1 => disk[file + 1] \in Samples
        BY <1>2
      <3>2. QED
        BY <3>1 DEF Samples
    <2>4. QED
      BY <1>1, <2>1, <2>2, <2>3 DEF IInv, Saved
  <1>8. Played'
    BY <1>1 DEF IInv, Played, Playing, Saving
  <1>9. QED
    BY <1>6, <1>7, <1>8 DEF IInv

LEMMA FileKeeps == ASSUME IInv, OpenFile \/ WriteFile PROVE IInv'
  <1>1. /\ UNCHANGED <<after, recordingStopSignal, file, recordedSamples, currentChannel,
                       audioBuffer, capacity, audioFile, dmaBuffer, received, length,
                       inputIdx, sent>>
        /\ inputFileNumSamples' = inputFileNumSamples
    BY DEF OpenFile, WriteFile, recording, dma, input, inputFileNumSamples
  <1>2. /\ \/ pc = "open" /\ pc' = "write"
           \/ pc = "write" /\ pc' = after
        /\ after \in {"first", "rotate", "fill", "grow", "done"}
    BY DEF OpenFile, WriteFile, IInv, Types
  <1>3. PICK b \in {Empty, audioFile} : disk' = Put(file + 1, b)
    BY DEF OpenFile, WriteFile
  <1>4. b \in Samples /\ \A c \in Channels : Heads(b[c], audioBuffer[c])
    <2>1. audioFile \in Samples /\ audioBuffer \in Samples
      BY DEF IInv, Types
    <2>2. \A c \in Channels : Heads(audioFile[c], audioBuffer[c])
      BY DEF IInv, Saved
    <2>3. \A c \in Channels : Heads(Empty[c], audioBuffer[c])
      BY <2>1, EmptyIs, HeadsAre DEF Samples
    <2>4. QED
      BY <2>1, <2>2, <2>3, EmptyIs
  <1>5. disk' \in Seq(Samples) /\ Len(disk') = file + 1 /\ disk'[file + 1] = b
    BY <1>3, <1>4, PutIs DEF IInv
  <1>6. Types'
    BY <1>1, <1>2, <1>5 DEF IInv, Types, PCs, Halted
  <1>7. Saved'
    BY <1>1, <1>4, <1>5 DEF IInv, Saved
  <1>8. Played'
    BY <1>1, <1>2 DEF IInv, Played, Playing, Saving
  <1>9. QED
    BY <1>6, <1>7, <1>8 DEF IInv

LEMMA NextIInv == IInv /\ [Next]_vars => IInv'
  <1> SUFFICES ASSUME IInv, [Next]_vars PROVE IInv'
    OBVIOUS
  <1>1. CASE UNCHANGED vars
    <2>1. /\ UNCHANGED <<pc, after, recordingStopSignal, file, recordedSamples, currentChannel,
                         audioBuffer, capacity, audioFile, disk, dmaBuffer, received, length,
                         inputIdx, sent>>
          /\ inputFileNumSamples' = inputFileNumSamples
      BY <1>1 DEF vars, recording, dma, input, inputFileNumSamples
    <2>2. Types' /\ Saved' /\ Played'
      BY <2>1 DEF IInv, Types, Saved, Played, Playing, Saving
    <2>3. QED
      BY <2>2 DEF IInv
  <1>2. CASE Moved
    BY <1>2, MovedKeeps
  <1>3. CASE Saves
    BY <1>3, SavesKeep
  <1>4. CASE Rotate \/ Grow \/ SendFirst \/ SendNext
    BY <1>4, RotateKeeps, GrowKeeps, SendsKeep
  <1>5. CASE \E k \in 0..MaxBatch : FillBuffer(k)
    BY <1>5, FillBufferKeeps
  <1>6. CASE Deal \/ OpenFile \/ WriteFile
    BY <1>6, DealKeeps, FileKeeps
  <1>7. QED
    BY <1>1, <1>2, <1>3, <1>4, <1>5, <1>6 DEF Next, Main, Moved, Saves

LEMMA SpecIInv == Spec => []IInv
  <1>1. QED
    BY InitIInv, NextIInv, PTL DEF Spec

-------------------------------------------------------------------------------
(* The samples go round the channels.                                       *)

(* The samples in the first f closed files.                                 *)
Arrived(f) == UNION {Held(disk[g]) : g \in 1..f}

(* The number of the last sample that was dealt.                            *)
Now == End(file) + recordedSamples

Closed ==
  /\ \A f \in 0..file : End(f) \in Nat /\ Arrived(f) = 1..End(f)
  /\ \A f \in 1..file : End(f - 1) <= End(f) /\ DealtOut(disk[f], End(f - 1), End(f))

(* What is left of the packet follows on what the channels hold.            *)
Current ==
  /\ DealtOut(audioBuffer, End(file), Now)
  /\ Now <= received
  /\ dmaBuffer = [i \in 1..(received - Now) |-> Now + i]
  /\ currentChannel = Now % TotalChannels
  /\ pc \notin {"deal", "crashed"} => dmaBuffer = <<>>

(* The file that is closed next is full and was saved.                      *)
Full ==
  /\ pc = "rotate" => disk[file + 1] = audioBuffer /\ recordedSamples >= SamplesPerFile
  /\ Saving("rotate") => audioFile = audioBuffer /\ recordedSamples >= SamplesPerFile

Rounds == Closed /\ Current /\ Full

(* The remainder is the one number below the divisor.                       *)
LEMMA RemainderIs ==
  ASSUME NEW t \in Nat \ {0}, NEW q \in Nat, NEW r \in 0..(t - 1)
  PROVE  (t * q + r) % t = r
  <1> DEFINE v == t * q + r
             p == v \div t
             s == v % t
  <1>1. v \in Nat  OBVIOUS
  <1>2. p \in Nat /\ s \in 0..(t - 1) /\ v = t * p + s  BY <1>1
  <1> HIDE DEF p, s
  <1>3. \A x, y \in Nat : x < y => t * x + t <= t * y
    <2>1. ASSUME NEW x \in Nat, NEW y \in Nat, x < y
          PROVE  t * x + t <= t * y
      <3>1. PICK d \in Nat : y = x + 1 + d
        <4>1. y - (x + 1) \in Nat /\ y = x + 1 + (y - (x + 1))  BY <2>1
        <4>2. QED BY <4>1
      <3>2. t * y = t * x + t + t * d /\ t * d \in Nat /\ t * x \in Nat  BY <3>1
      <3>3. QED BY <3>2
    <2>2. QED BY <2>1
  <1>4. t * q \in Nat /\ t * p \in Nat /\ t * q + r = t * p + s  BY <1>2
  <1>5. ~(q < p) /\ ~(p < q)  BY <1>2, <1>3, <1>4
  <1>6. p = q  BY <1>2, <1>5
  <1>7. QED BY <1>2, <1>4, <1>6 DEF s

(* The channel of a sample, and of the one after it.                        *)
LEMMA NextTurn ==
  ASSUME NEW n \in Nat
  PROVE  n % TotalChannels \in Channels /\ NextChannel(n % TotalChannels) = (n + 1) % TotalChannels
  <1> DEFINE t == TotalChannels
             q == n \div TotalChannels
             c == n % TotalChannels
  <1>1. t \in Nat \ {0}  BY DataCollectionAssumption
  <1>2. q \in Nat /\ c \in 0..(t - 1) /\ n = t * q + c  BY <1>1
  <1>3. CASE c = t - 1
    <2>1. n + 1 = t * (q + 1) + 0  BY <1>1, <1>2, <1>3
    <2> q + 1 \in Nat /\ 0 \in 0..(t - 1)  BY <1>1, <1>2
    <2> HIDE DEF q, c, t
    <2>2. (n + 1) % t = 0  BY <1>1, <1>2, <2>1, RemainderIs
    <2>3. QED BY <1>2, <1>3, <2>2 DEF NextChannel, Channels, c, t
  <1>4. CASE c # t - 1
    <2>1. n + 1 = t * q + (c + 1) /\ c + 1 \in 0..(t - 1)  BY <1>1, <1>2, <1>4
    <2>2. (n + 1) % t = c + 1  BY <1>1, <1>2, <2>1, RemainderIs
    <2>3. QED BY <1>2, <1>4, <2>2 DEF NextChannel, Channels
  <1>5. QED BY <1>3, <1>4

(* Between them the channels hold every sample of their stretch.            *)
LEMMA HeldIs ==
  ASSUME NEW b, NEW n \in Nat, NEW m \in Nat, n <= m, DealtOut(b, n, m)
  PROVE  Held(b) = (n + 1)..m /\ Cardinality(Held(b)) = m - n
  <1>1. \A c \in Channels : Range(b[c]) = {s \in (n + 1)..m : (s - 1) % TotalChannels = c}
    BY DEF DealtOut
  <1>2. \A s \in (n + 1)..m : s - 1 \in Nat /\ (s - 1) % TotalChannels \in Channels
    <2>1. TAKE s \in (n + 1)..m
    <2>2. s - 1 \in Nat  OBVIOUS
    <2>3. QED BY <2>2, NextTurn
  <1>3. Held(b) = (n + 1)..m  BY <1>1, <1>2 DEF Held
  <1>4. Cardinality((n + 1)..m) = m - n
    <2>1. CASE n = m
      <3>1. (n + 1)..m = {}  BY <2>1
      <3>2. QED BY <2>1, <3>1, FS_EmptySet
    <2>2. CASE n # m
      BY <2>2, FS_Interval
    <2>3. QED BY <2>1, <2>2
  <1>5. QED BY <1>3, <1>4

LEMMA RangeOfAppend ==
  ASSUME NEW s \in Seq(Nat), NEW x \in Nat
  PROVE  /\ Range(Append(s, x)) = Range(s) \cup {x}
         /\ (\A i \in DOMAIN s : s[i] < x) /\ (\A i, j \in DOMAIN s : i < j => s[i] < s[j])
              => \A i, j \in DOMAIN Append(s, x) : i < j => Append(s, x)[i] < Append(s, x)[j]
  <1> DEFINE t == Append(s, x)
             n == Len(s)
  <1>1. /\ n \in Nat /\ DOMAIN s = 1..n /\ DOMAIN t = 1..(n + 1)
        /\ t[n + 1] = x /\ \A i \in 1..n : t[i] = s[i]
    OBVIOUS
  <1> HIDE DEF t, n
  <1>2. Range(t) = Range(s) \cup {x}
    <2>1. \A i \in 1..(n + 1) : i \in 1..n \/ i = n + 1  BY <1>1
    <2>2. n + 1 \in 1..(n + 1) /\ \A i \in 1..n : i \in 1..(n + 1)  BY <1>1
    <2>3. QED BY <1>1, <2>1, <2>2 DEF Range
  <1>3. ASSUME \A i \in DOMAIN s : s[i] < x, \A i, j \in DOMAIN s : i < j => s[i] < s[j],
               NEW i \in DOMAIN t, NEW j \in DOMAIN t, i < j
        PROVE  t[i] < t[j]
    <2>1. i \in 1..n  BY <1>1, <1>3
    <2>2. CASE j = n + 1  BY <1>1, <1>3, <2>1, <2>2
    <2>3. CASE j \in 1..n  BY <1>1, <1>3, <2>1, <2>3
    <2>4. QED BY <1>1, <2>2, <2>3
  <1>4. QED BY <1>2, <1>3 DEF t

(* The next sample goes to the end of the channel whose turn it is.          *)
LEMMA DealOne ==
  ASSUME NEW b \in Samples, NEW n \in Nat, NEW m \in Nat, n <= m, DealtOut(b, n, m)
  PROVE  DealtOut([b EXCEPT ![m % TotalChannels] = Append(@, m + 1)], n, m + 1)
  <1> DEFINE d == m % TotalChannels
             e == [b EXCEPT ![d] = Append(@, m + 1)]
  <1>1. d \in Channels  BY NextTurn
  <1>2. ASSUME NEW c \in Channels
        PROVE  b[c] \in Seq(Nat)
    BY DEF Samples
  <1>3. e[d] = Append(b[d], m + 1) /\ \A c \in Channels : c # d => e[c] = b[c]
    BY <1>1 DEF Samples
  <1>4. \A c \in Channels : Range(b[c]) = {s \in (n + 1)..m : (s - 1) % TotalChannels = c}
    BY DEF DealtOut
  <1>5. (m + 1) - 1 = m /\ (n + 1)..(m + 1) = ((n + 1)..m) \cup {m + 1} /\ m + 1 \notin (n + 1)..m
    OBVIOUS
  <1> HIDE DEF d, e
  <1>6. ((m + 1) - 1) % TotalChannels = d  BY <1>5 DEF d
  <1>7. ASSUME NEW c \in Channels
        PROVE  /\ Range(e[c]) = {s \in (n + 1)..(m + 1) : (s - 1) % TotalChannels = c}
               /\ \A i, j \in DOMAIN e[c] : i < j => e[c][i] < e[c][j]
    <2>1. CASE c # d
      <3>1. e[c] = b[c]  BY <1>3, <2>1
      <3>2. {s \in (n + 1)..(m + 1) : (s - 1) % TotalChannels = c}
              = {s \in (n + 1)..m : (s - 1) % TotalChannels = c}
        BY <1>5, <1>6, <2>1
      <3>3. QED BY <1>4, <3>1, <3>2 DEF DealtOut
    <2>2. CASE c = d
      <3> m + 1 \in Nat  OBVIOUS
      <3>1. Range(e[c]) = Range(b[c]) \cup {m + 1}  BY <1>2, <1>3, <2>2, RangeOfAppend
      <3>2. {s \in (n + 1)..(m + 1) : (s - 1) % TotalChannels = c}
              = {s \in (n + 1)..m : (s - 1) % TotalChannels = c} \cup {m + 1}
        BY <1>5, <1>6, <2>2
      <3>3. \A i \in DOMAIN b[c] : b[c][i] < m + 1
        <4>1. TAKE i \in DOMAIN b[c]
        <4>2. b[c][i] \in Range(b[c])  BY DEF Range
        <4>3. b[c][i] \in (n + 1)..m  BY <1>4, <4>2
        <4>4. QED BY <4>3
      <3>4. \A i, j \in DOMAIN b[c] : i < j => b[c][i] < b[c][j]  BY DEF DealtOut
      <3>5. \A i, j \in DOMAIN e[c] : i < j => e[c][i] < e[c][j]
        BY <1>2, <1>3, <2>2, <3>3, <3>4, RangeOfAppend
      <3>6. QED BY <1>4, <3>1, <3>2, <3>5
    <2>3. QED BY <2>1, <2>2
  <1>8. QED BY <1>7 DEF DealtOut, d, e

LEMMA NothingDealt ==
  ASSUME NEW n \in Nat
  PROVE  DealtOut(Empty, n, n)
  <1>1. (n + 1)..n = {}  OBVIOUS
  <1>2. \A c \in Channels : Empty[c] = <<>>  BY EmptyIs
  <1>3. Range(<<>>) = {} /\ DOMAIN <<>> = {}  BY DEF Range
  <1>4. QED BY <1>1, <1>2, <1>3 DEF DealtOut

(* The closed files stay, and so does where they end.                       *)
LEMMA EndsStay ==
  ASSUME NEW n \in Nat, \A g \in 1..n : disk'[g] = disk[g]
  PROVE  \A f \in 0..n : End(f)' = End(f) /\ Arrived(f)' = Arrived(f)
  <1>1. TAKE f \in 0..n
  <1>2. \A g \in 1..f : disk'[g] = disk[g]  OBVIOUS
  <1>3. \A g \in 1..f : Held(disk'[g]) = Held(disk[g])  BY <1>2
  <1>4. {Held(disk'[g]) : g \in 1..f} = {Held(disk[g]) : g \in 1..f}  BY <1>3
  <1>5. QED BY <1>4 DEF End, Arrived

LEMMA ClosedStays ==
  ASSUME IInv, Closed, UNCHANGED file, \A g \in 1..file : disk'[g] = disk[g]
  PROVE  Closed' /\ End(file)' = End(file)
  <1>1. file \in Nat  BY DEF IInv, Types
  <1>2. \A f \in 0..file : End(f)' = End(f) /\ Arrived(f)' = Arrived(f)  BY <1>1, EndsStay
  <1>3. \A f \in 1..file : f \in 0..file /\ f - 1 \in 0..file  BY <1>1
  <1>4. \A f \in 0..file : End(f)' \in Nat /\ Arrived(f)' = 1..End(f)'  BY <1>2 DEF Closed
  <1>5. \A f \in 1..file : End(f - 1)' <= End(f)'  BY <1>2, <1>3 DEF Closed
  <1>6. ASSUME NEW f \in 1..file
        PROVE  DealtOut(disk[f], End(f - 1), End(f))'
    <2>1. DealtOut(disk[f], End(f - 1), End(f))  BY DEF Closed
    <2>2. disk'[f] = disk[f] /\ End(f - 1)' = End(f - 1) /\ End(f)' = End(f)  BY <1>2, <1>3
    <2>3. QED BY <2>1, <2>2 DEF DealtOut
  <1>7. file \in 0..file  BY <1>1
  <1>8. QED BY <1>2, <1>4, <1>5, <1>6, <1>7 DEF Closed

LEMMA InitRounds == Init => Rounds
  <1> SUFFICES ASSUME Init PROVE Rounds
    OBVIOUS
  <1>1. file = 0 /\ recordedSamples = 0 /\ received = 0 /\ dmaBuffer = <<>> /\ audioBuffer = Empty
        /\ pc = "start" /\ currentChannel = 0
    BY DEF Init
  <1>2. \A f \in 0..file : f = 0  BY <1>1
  <1>3. Arrived(0) = {} /\ End(0) = 0
    <2>1. 1..0 = {}  OBVIOUS
    <2>2. UNION {Held(disk[g]) : g \in 1..0} = {}  BY <2>1
    <2>3. QED BY <2>2, FS_EmptySet DEF Arrived, End
  <1>4. 1..0 = {}  OBVIOUS
  <1>5. Closed  BY <1>1, <1>2, <1>3, <1>4 DEF Closed
  <1>6. Now = 0  BY <1>1, <1>3 DEF Now
  <1>7. 0 % TotalChannels = 0  BY DataCollectionAssumption
  <1>8. DealtOut(audioBuffer, End(file), Now)  BY <1>1, <1>3, <1>6, NothingDealt
  <1>9. dmaBuffer = [i \in 1..(received - Now) |-> Now + i]
    <2>1. 1..(received - Now) = {}  BY <1>1, <1>6
    <2>2. [i \in {} |-> Now + i] = <<>>  OBVIOUS
    <2>3. QED BY <1>1, <2>1, <2>2
  <1>10. Current  BY <1>1, <1>6, <1>7, <1>8, <1>9 DEF Current
  <1>11. Full  BY <1>1 DEF Full, Saving
  <1>12. QED BY <1>5, <1>10, <1>11 DEF Rounds

-------------------------------------------------------------------------------
(* Every step goes on with the round.                                       *)

LEMMA QuietKeeps ==
  ASSUME IInv, Rounds,
         UNCHANGED <<file, recordedSamples, currentChannel, audioBuffer, dmaBuffer, received>>,
         \A g \in 1..file : disk'[g] = disk[g],
         pc' \in {"deal", "crashed"} \/ dmaBuffer = <<>>
  PROVE  Closed' /\ Current' /\ End(file)' = End(file)
  <1>1. Closed' /\ End(file)' = End(file)  BY ClosedStays DEF Rounds
  <1>2. Now' = Now  BY <1>1 DEF Now
  <1>3. DealtOut(audioBuffer, End(file), Now)'
    <2>1. DealtOut(audioBuffer, End(file), Now)  BY DEF Rounds, Current
    <2>2. QED BY <1>1, <1>2, <2>1 DEF DealtOut
  <1>4. Current'
    <2>1. Now <= received /\ currentChannel = Now % TotalChannels
          /\ dmaBuffer = [i \in 1..(received - Now) |-> Now + i]
      BY DEF Rounds, Current
    <2>2. dmaBuffer' = [i \in 1..(received' - Now') |-> Now' + i]  BY <1>2, <2>1
    <2>3. QED BY <1>2, <1>3, <2>1, <2>2 DEF Current
  <1>5. QED BY <1>1, <1>4

LEMMA MovedRounds == ASSUME IInv, Rounds, Moved PROVE Rounds'
  <1>1. UNCHANGED <<file, recordedSamples, currentChannel, audioBuffer, capacity,
                    audioFile, disk, dmaBuffer, received>>
    BY DEF Moved, CheckInput, LoopTest, NothingToSave, Dealt, NoFinalSave, Handler, Crash,
           Terminated, recording, dma, input, vars
  <1>2. pc' \in {"deal", "crashed"} \/ dmaBuffer = <<>>
    <2>1. pc \in {"deal", "crashed"} \/ dmaBuffer = <<>>  BY DEF Rounds, Current
    <2>2. \/ dmaBuffer = <<>>
          \/ pc' = "crashed" \/ pc' = pc
          \/ pc \notin {"deal", "crashed"}
      BY DEF Moved, CheckInput, LoopTest, NothingToSave, Dealt, NoFinalSave, Handler, Crash,
             Terminated, vars
    <2>3. QED BY <2>1, <2>2
  <1>3. Closed' /\ Current'  BY <1>1, <1>2, QuietKeeps
  <1>4. Full'
    <2>1. /\ pc' = "rotate" => pc = "rotate"
          /\ pc' \in {"open", "write"} => pc' = pc /\ after' = after
      BY DEF Moved, CheckInput, LoopTest, NothingToSave, Dealt, NoFinalSave, Handler, Crash,
             Terminated, vars
    <2>2. QED BY <1>1, <2>1 DEF Rounds, Full, Saving
  <1>5. QED BY <1>3, <1>4 DEF Rounds

LEMMA SavesRound == ASSUME IInv, Rounds, Saves PROVE Rounds'
  <1>1. /\ UNCHANGED <<file, recordedSamples, currentChannel, audioBuffer, disk, dmaBuffer,
                       received>>
        /\ pc \in {"init", "check", "final"} /\ pc' = "open"
        /\ after' = "rotate" => audioFile' = audioBuffer /\ recordedSamples >= SamplesPerFile
    BY DEF Saves, InitialiseAudioFile, SaveFullFile, SaveWip, FinalSave, StartSave,
           recording, dma
  <1>2. dmaBuffer = <<>>  BY <1>1 DEF Rounds, Current
  <1>3. Closed' /\ Current'  BY <1>1, <1>2, QuietKeeps
  <1>4. Full'  BY <1>1 DEF Full, Saving
  <1>5. QED BY <1>3, <1>4 DEF Rounds

LEMMA OnwardRounds == ASSUME IInv, Rounds, Grow \/ SendFirst \/ SendNext PROVE Rounds'
  <1>1. /\ UNCHANGED <<file, recordedSamples, currentChannel, audioBuffer, disk, dmaBuffer,
                       received>>
        /\ pc \in {"grow", "first", "send"} /\ pc' \in {"fill", "loop"}
    BY DEF Grow, SendFirst, SendNext, Send, recording, dma
  <1>2. dmaBuffer = <<>>  BY <1>1 DEF Rounds, Current
  <1>3. Closed' /\ Current'  BY <1>1, <1>2, QuietKeeps
  <1>4. Full'  BY <1>1 DEF Full, Saving
  <1>5. QED BY <1>3, <1>4 DEF Rounds

LEMMA PutElsewhere ==
  ASSUME Types, NEW b
  PROVE  Put(file + 1, b)[file + 1] = b /\ \A g \in 1..file : Put(file + 1, b)[g] = disk[g]
  <1>1. file \in Nat /\ Len(disk) \in {file, file + 1}  BY DEF Types
  <1>2. (IF file + 1 > Len(disk) THEN file + 1 ELSE Len(disk)) = file + 1  BY <1>1
  <1>3. Put(file + 1, b) = [i \in 1..(file + 1) |-> IF i = file + 1 THEN b ELSE disk[i]]
    BY <1>2 DEF Put
  <1>4. QED BY <1>1, <1>3

LEMMA FileRounds == ASSUME IInv, Rounds, OpenFile \/ WriteFile PROVE Rounds'
  <1>1. /\ UNCHANGED <<after, file, recordedSamples, currentChannel, audioBuffer, audioFile,
                       dmaBuffer, received>>
        /\ pc \in {"open", "write"} /\ pc' \in {"write", after}
        /\ pc' = "write" \/ disk' = Put(file + 1, audioFile)
        /\ after \in {"first", "rotate", "fill", "grow", "done"}
    BY DEF OpenFile, WriteFile, recording, dma, IInv, Types
  <1>2. PICK b : disk' = Put(file + 1, b)  BY DEF OpenFile, WriteFile
  <1>3. \A g \in 1..file : disk'[g] = disk[g]  BY <1>2, PutElsewhere DEF IInv
  <1>4. dmaBuffer = <<>>  BY <1>1 DEF Rounds, Current
  <1>5. Closed' /\ Current'  BY <1>1, <1>3, <1>4, QuietKeeps
  <1>6. Full'
    <2>1. Put(file + 1, audioFile)[file + 1] = audioFile  BY PutElsewhere DEF IInv
    <2>2. QED BY <1>1, <2>1 DEF Rounds, Full, Saving
  <1>7. QED BY <1>5, <1>6 DEF Rounds

(* The lengths of what was received and dealt out.                          *)
LEMMA NowIs ==
  ASSUME IInv, Rounds
  PROVE  /\ file \in Nat /\ End(file) \in Nat /\ Now \in Nat /\ End(file) <= Now
         /\ received \in Nat /\ Now <= received /\ recordedSamples = Now - End(file)
         /\ dmaBuffer \in Seq(Nat) /\ Len(dmaBuffer) = received - Now
         /\ dmaBuffer = <<>> => received = Now
  <1>1. file \in Nat /\ recordedSamples \in Nat /\ received \in Nat /\ dmaBuffer \in Seq(Nat)
    BY DEF IInv, Types
  <1>2. End(file) \in Nat  BY <1>1 DEF Rounds, Closed
  <1>3. Now \in Nat /\ End(file) <= Now /\ recordedSamples = Now - End(file)
    BY <1>1, <1>2 DEF Now
  <1>4. Now <= received /\ dmaBuffer = [i \in 1..(received - Now) |-> Now + i]
    BY DEF Rounds, Current
  <1>5. Len(dmaBuffer) = received - Now
    <2>1. received - Now \in Nat  BY <1>1, <1>3, <1>4
    <2>2. DOMAIN dmaBuffer = 1..(received - Now)  BY <1>4
    <2>3. QED BY <1>1, <2>1, <2>2, LenProperties
  <1>6. dmaBuffer = <<>> => received = Now
    <2>1. dmaBuffer = <<>> => Len(dmaBuffer) = 0  OBVIOUS
    <2>2. QED BY <1>1, <1>3, <1>5, <2>1
  <1>7. QED BY <1>1, <1>2, <1>3, <1>4, <1>5, <1>6

LEMMA FillRounds ==
  ASSUME IInv, Rounds, NEW k \in 0..MaxBatch, FillBuffer(k)
  PROVE  Rounds' /\ End(file)' = End(file)
  <1> DEFINE packet == [i \in 1..k |-> received + i]
  <1>1. /\ UNCHANGED <<file, recordedSamples, currentChannel, audioBuffer, disk>>
        /\ dmaBuffer' = dmaBuffer \o packet /\ received' = received + k
        /\ pc = "fill" /\ pc' = "deal"
    BY DEF FillBuffer, recording
  <1>2. dmaBuffer = <<>> /\ received = Now /\ k \in Nat /\ received \in Nat
    BY <1>1, NowIs, DataCollectionAssumption DEF Rounds, Current
  <1>3. packet \in Seq(Nat) /\ dmaBuffer' = packet
    <2>1. packet \in Seq(Nat)  BY <1>2
    <2> HIDE DEF packet
    <2>2. QED BY <1>1, <1>2, <2>1
  <1>4. Closed' /\ End(file)' = End(file)  BY <1>1, ClosedStays DEF Rounds
  <1>5. Now' = Now  BY <1>1, <1>4 DEF Now
  <1>6. Current'
    <2>1. DealtOut(audioBuffer, End(file), Now)'
      <3>1. DealtOut(audioBuffer, End(file), Now)  BY DEF Rounds, Current
      <3>2. QED BY <1>1, <1>4, <1>5, <3>1 DEF DealtOut
    <2>2. received' - Now' = k /\ Now' <= received' /\ Now' = received  BY <1>1, <1>2, <1>5
    <2>3. dmaBuffer' = [i \in 1..(received' - Now') |-> Now' + i]  BY <1>3, <2>2
    <2>4. QED BY <1>1, <1>5, <2>1, <2>2, <2>3 DEF Rounds, Current
  <1>7. Full'  BY <1>1 DEF Full, Saving
  <1>8. QED BY <1>4, <1>6, <1>7 DEF Rounds

LEMMA DealRounds ==
  ASSUME IInv, Rounds, Deal
  PROVE  Rounds' /\ End(file)' = End(file) /\ Now' = Now + 1
  <1>1. /\ UNCHANGED <<pc, file, disk, received>>
        /\ audioBuffer' = [audioBuffer EXCEPT ![currentChannel] = Append(@, Head(dmaBuffer))]
        /\ recordedSamples' = recordedSamples + 1
        /\ currentChannel' = NextChannel(currentChannel)
        /\ dmaBuffer' = Tail(dmaBuffer) /\ dmaBuffer # <<>> /\ pc = "deal"
    BY DEF Deal
  <1>2. /\ dmaBuffer = [i \in 1..(received - Now) |-> Now + i]
        /\ currentChannel = Now % TotalChannels /\ DealtOut(audioBuffer, End(file), Now)
    BY DEF Rounds, Current
  <1>3. /\ Now \in Nat /\ End(file) \in Nat /\ End(file) <= Now /\ Now <= received
        /\ received \in Nat /\ dmaBuffer \in Seq(Nat) /\ Len(dmaBuffer) = received - Now
        /\ recordedSamples \in Nat /\ audioBuffer \in Samples
    BY NowIs DEF IInv, Types
  <1>4. received - Now >= 1  BY <1>1, <1>3
  <1>5. Head(dmaBuffer) = Now + 1  BY <1>1, <1>2, <1>3, <1>4
  <1>6. Closed' /\ End(file)' = End(file)  BY <1>1, ClosedStays DEF Rounds
  <1>7. Now' = Now + 1  BY <1>1, <1>3, <1>6 DEF Now
  <1>8. DealtOut(audioBuffer', End(file)', Now')
    BY <1>1, <1>2, <1>3, <1>5, <1>6, <1>7, DealOne
  <1>9. dmaBuffer' = [i \in 1..(received' - Now') |-> Now' + i]
    <2> DEFINE rest == [i \in 1..(received - (Now + 1)) |-> (Now + 1) + i]
    <2>1. received - (Now + 1) \in Nat  BY <1>3, <1>4
    <2>2. rest \in Seq(Nat) /\ Len(rest) = received - (Now + 1)
          /\ \A i \in 1..(received - (Now + 1)) : rest[i] = (Now + 1) + i
      BY <1>3, <2>1
    <2>3. Tail(dmaBuffer) \in Seq(Nat) /\ Len(Tail(dmaBuffer)) = received - (Now + 1)
          /\ \A i \in 1..(received - (Now + 1)) : Tail(dmaBuffer)[i] = dmaBuffer[i + 1]
      BY <1>1, <1>3
    <2>4. \A i \in 1..(received - (Now + 1)) : dmaBuffer[i + 1] = (Now + 1) + i
      <3>1. TAKE i \in 1..(received - (Now + 1))
      <3>2. i + 1 \in 1..(received - Now)  BY <1>3, <2>1
      <3>3. Now + (i + 1) = (Now + 1) + i  BY <1>3, <2>1
      <3>4. QED BY <1>2, <3>2, <3>3
    <2> HIDE DEF rest
    <2>5. Tail(dmaBuffer) = rest  BY <2>2, <2>3, <2>4, SeqEqual
    <2>6. QED BY <1>1, <1>7, <2>5 DEF rest
  <1>10. currentChannel' = Now' % TotalChannels  BY <1>1, <1>2, <1>3, <1>7, NextTurn
  <1>11. Now' <= received'  BY <1>1, <1>3, <1>4, <1>7
  <1>12. DealtOut(audioBuffer, End(file), Now)'  BY <1>8 DEF DealtOut
  <1>13. Current'  BY <1>1, <1>9, <1>10, <1>11, <1>12 DEF Current
  <1>14. Full'  BY <1>1 DEF Full, Saving
  <1>15. QED BY <1>6, <1>7, <1>13, <1>14 DEF Rounds

(* A closed file ends where the next one begins.                            *)
LEMMA RotateRounds ==
  ASSUME IInv, Rounds, Rotate
  PROVE  Rounds' /\ End(file)' = Now /\ DealtOut(disk[file + 1], End(file), Now)
  <1>1. /\ UNCHANGED <<currentChannel, disk, dmaBuffer, received>>
        /\ file' = file + 1 /\ recordedSamples' = 0 /\ audioBuffer' = Empty
        /\ pc = "rotate" /\ pc' = "open" /\ after' = "fill"
    BY DEF Rotate, StartSave, dma
  <1>2. /\ file \in Nat /\ Now \in Nat /\ End(file) \in Nat /\ End(file) <= Now
        /\ received \in Nat /\ Now <= received
    BY NowIs
  <1>3. dmaBuffer = <<>> /\ disk[file + 1] = audioBuffer
    BY <1>1 DEF Rounds, Current, Full
  <1>4. DealtOut(disk[file + 1], End(file), Now)
    BY <1>3 DEF Rounds, Current
  <1>5. Held(disk[file + 1]) = (End(file) + 1)..Now  BY <1>2, <1>4, HeldIs
  <1>6. file + 1 \in Nat /\ file \in 0..file  BY <1>2
  <1>7. Arrived(file + 1) = 1..Now
    <2>1. Arrived(file) = 1..End(file)  BY <1>6 DEF Rounds, Closed
    <2>2. 1..(file + 1) = (1..file) \cup {file + 1}  BY <1>2
    <2>3. Arrived(file + 1) = Arrived(file) \cup Held(disk[file + 1])
      BY <2>2 DEF Arrived
    <2>4. (1..End(file)) \cup ((End(file) + 1)..Now) = 1..Now  BY <1>2
    <2>5. QED BY <1>5, <2>1, <2>3, <2>4
  <1>8. End(file + 1) = Now
    <2>1. End(file + 1) = Cardinality(1..Now)  BY <1>7 DEF End, Arrived
    <2>2. Cardinality(1..Now) = Now
      <3>1. CASE Now = 0
        <4>1. 1..Now = {}  BY <3>1
        <4>2. QED BY <3>1, <4>1, FS_EmptySet
      <3>2. CASE Now # 0
        BY <1>2, <3>2, FS_Interval
      <3>3. QED BY <3>1, <3>2
    <2>3. QED BY <2>1, <2>2
  <1>9. \A f \in 0..(file + 1) : End(f)' = End(f) /\ Arrived(f)' = Arrived(f)
    BY <1>1, <1>6, EndsStay
  <1>10. End(file)' = Now
    <2>1. \A f \in 0..(file + 1) : f = file' => End(file)' = End(f)
      <3>1. TAKE f \in 0..(file + 1)
      <3>2. HAVE f = file'
      <3>3. End(file)' = End(f)'  BY <3>2 DEF End
      <3>4. QED BY <1>9, <3>3
    <2>2. file + 1 \in 0..(file + 1)  BY <1>2
    <2>3. QED BY <1>1, <1>8, <2>1, <2>2
  <1>11. Closed'
    <2>1. ASSUME NEW f \in 0..(file + 1)
          PROVE  End(f)' \in Nat /\ Arrived(f)' = 1..End(f)'
      <3>1. CASE f = file + 1  BY <1>2, <1>7, <1>8, <1>9, <3>1
      <3>2. CASE f # file + 1
        <4>1. f \in 0..file  BY <1>2, <3>2
        <4>2. End(f) \in Nat /\ Arrived(f) = 1..End(f)  BY <4>1 DEF Rounds, Closed
        <4>3. QED BY <1>9, <4>2
      <3>3. QED BY <3>1, <3>2
    <2>2. ASSUME NEW f \in 1..(file + 1)
          PROVE  End(f - 1)' <= End(f)' /\ DealtOut(disk[f], End(f - 1), End(f))'
      <3>1. End(f - 1)' = End(f - 1) /\ End(f)' = End(f)
        <4>1. f \in 0..(file + 1) /\ f - 1 \in 0..(file + 1)  BY <1>2
        <4>2. QED BY <1>9, <4>1
      <3>2. End(f - 1) <= End(f) /\ DealtOut(disk[f], End(f - 1), End(f))
        <4>1. CASE f = file + 1
          <5>1. f - 1 = file  BY <1>2, <4>1
          <5>2. QED BY <1>2, <1>4, <1>8, <4>1, <5>1
        <4>2. CASE f # file + 1
          <5>1. f \in 1..file  BY <1>2, <4>2
          <5>2. QED BY <5>1 DEF Rounds, Closed
        <4>3. QED BY <4>1, <4>2
      <3>3. QED BY <1>1, <3>1, <3>2 DEF DealtOut
    <2>3. QED BY <1>1, <2>1, <2>2 DEF Closed
  <1>12. Now' = Now  BY <1>1, <1>2, <1>10 DEF Now
  <1>13. DealtOut(audioBuffer, End(file), Now)'
    <2>1. DealtOut(Empty, Now, Now)  BY <1>2, NothingDealt
    <2>2. QED BY <1>1, <1>10, <1>12, <2>1 DEF DealtOut
  <1>14. Current'
    <2>1. dmaBuffer = [i \in 1..(received - Now) |-> Now + i] /\ currentChannel = Now % TotalChannels
      BY DEF Rounds, Current
    <2>2. dmaBuffer' = [i \in 1..(received' - Now') |-> Now' + i]  BY <1>1, <1>12, <2>1
    <2>3. QED BY <1>1, <1>2, <1>3, <1>12, <1>13, <2>1, <2>2 DEF Current
  <1>15. Full'  BY <1>1 DEF Full, Saving
  <1>16. QED BY <1>4, <1>10, <1>11, <1>14, <1>15 DEF Rounds

LEMMA NextRounds == IInv /\ Rounds /\ [Next]_vars => Rounds'
  <1> SUFFICES ASSUME IInv, Rounds, [Next]_vars PROVE Rounds'
    OBVIOUS
  <1>1. CASE UNCHANGED vars
    <2>1. UNCHANGED <<pc, after, file, recordedSamples, currentChannel, audioBuffer,
                      audioFile, disk, dmaBuffer, received>>
      BY <1>1 DEF vars, recording, dma
    <2>2. pc \in {"deal", "crashed"} \/ dmaBuffer = <<>>  BY DEF Rounds, Current
    <2>3. Closed' /\ Current'  BY <2>1, <2>2, QuietKeeps
    <2>4. Full'  BY <2>1 DEF Rounds, Full, Saving
    <2>5. QED BY <2>3, <2>4 DEF Rounds
  <1>2. CASE Moved
    BY <1>2, MovedRounds
  <1>3. CASE Saves
    BY <1>3, SavesRound
  <1>4. CASE Rotate \/ Grow \/ SendFirst \/ SendNext
    BY <1>4, RotateRounds, OnwardRounds
  <1>5. CASE \E k \in 0..MaxBatch : FillBuffer(k)
    BY <1>5, FillRounds
  <1>6. CASE Deal \/ OpenFile \/ WriteFile
    BY <1>6, DealRounds, FileRounds
  <1>7. QED
    BY <1>1, <1>2, <1>3, <1>4, <1>5, <1>6 DEF Next, Main, Moved, Saves

LEMMA SpecRounds == Spec => [](IInv /\ Rounds)
  <1>1. QED
    BY InitIInv, NextIInv, InitRounds, NextRounds, PTL DEF Spec

-------------------------------------------------------------------------------
(* What the channels hold put back in order.                                *)

LEMMA InOrderIs ==
  ASSUME NEW b, NEW n \in Nat, NEW m \in Nat, n <= m, DealtOut(b, n, m)
  PROVE  InOrder(b) = [i \in 1..(m - n) |-> n + i]
  <1> DEFINE H == Held(b)
             Rank(s) == Cardinality({r \in H : r < s})
  <1>1. H = (n + 1)..m /\ Cardinality(H) = m - n  BY HeldIs
  <1>2. ASSUME NEW s \in (n + 1)..m
        PROVE  Rank(s) = s - 1 - n
    <2>1. {r \in H : r < s} = (n + 1)..(s - 1)  BY <1>1
    <2>2. CASE s = n + 1
      <3>1. (n + 1)..(s - 1) = {}  BY <2>2
      <3>2. QED BY <2>1, <2>2, <3>1, FS_EmptySet
    <2>3. CASE s # n + 1
      <3>1. n + 1 \in Int /\ s - 1 \in Int /\ n + 1 <= s - 1  BY <2>3
      <3>2. Cardinality((n + 1)..(s - 1)) = s - 1 - n  BY <3>1, FS_Interval
      <3>3. QED BY <2>1, <3>2
    <2>4. QED BY <2>2, <2>3
  <1>3. ASSUME NEW i \in 1..(m - n)
        PROVE  (CHOOSE s \in H : Rank(s) = i - 1) = n + i
    <2>1. n + i \in H /\ Rank(n + i) = i - 1
      <3>1. n + i \in (n + 1)..m  OBVIOUS
      <3>2. QED BY <1>1, <1>2, <3>1
    <2>2. \A s \in H : Rank(s) = i - 1 => s = n + i
      <3>1. TAKE s \in H
      <3>2. s \in (n + 1)..m /\ Rank(s) = s - 1 - n  BY <1>1, <1>2
      <3>3. QED BY <3>2
    <2> HIDE DEF H, Rank
    <2>3. QED BY <2>1, <2>2
  <1>4. InOrder(b) = [i \in 1..(m - n) |-> CHOOSE s \in H : Rank(s) = i - 1]
    BY <1>1 DEF InOrder
  <1> HIDE DEF H, Rank
  <1>5. QED BY <1>3, <1>4

LEMMA OpenFileIs ==
  IInv /\ Rounds => openFile = [i \in 1..(received - End(file)) |-> End(file) + i]
  <1> SUFFICES ASSUME IInv, Rounds
               PROVE  openFile = [i \in 1..(received - End(file)) |-> End(file) + i]
    OBVIOUS
  <1> DEFINE e == End(file)
             k == Now - e
             held == [i \in 1..k |-> e + i]
             all == [i \in 1..(received - e) |-> e + i]
  <1>1. /\ e \in Nat /\ Now \in Nat /\ e <= Now /\ received \in Nat /\ Now <= received
        /\ dmaBuffer \in Seq(Nat) /\ Len(dmaBuffer) = received - Now
    BY NowIs
  <1>2. /\ dmaBuffer = [i \in 1..(received - Now) |-> Now + i]
        /\ DealtOut(audioBuffer, e, Now)
    BY DEF Rounds, Current
  <1>3. InOrder(audioBuffer) = held  BY <1>1, <1>2, InOrderIs
  <1>4. k \in Nat /\ held \in Seq(Nat) /\ Len(held) = k /\ \A i \in 1..k : held[i] = e + i
    BY <1>1
  <1>5. received - e \in Nat /\ all \in Seq(Nat) /\ Len(all) = received - e
        /\ \A i \in 1..(received - e) : all[i] = e + i
    BY <1>1
  <1> HIDE DEF e, held, all
  <1>6. held \o dmaBuffer \in Seq(Nat) /\ Len(held \o dmaBuffer) = received - e
    <2>1. held \o dmaBuffer \in Seq(Nat) /\ Len(held \o dmaBuffer) = Len(held) + Len(dmaBuffer)
      BY <1>1, <1>4, ConcatProperties
    <2>2. Len(held) + Len(dmaBuffer) = received - e  BY <1>1, <1>4
    <2>3. QED BY <2>1, <2>2
  <1>7. ASSUME NEW i \in 1..(received - e)
        PROVE  (held \o dmaBuffer)[i] = e + i
    <2>1. CASE i <= k
      <3>1. i \in 1..k  BY <1>1, <1>4, <2>1
      <3>2. (held \o dmaBuffer)[i] = held[i]  BY <1>1, <1>4, <3>1
      <3>3. QED BY <1>4, <3>1, <3>2
    <2>2. CASE i > k
      <3>1. i - k \in 1..(received - Now) /\ Now + (i - k) = e + i  BY <1>1, <1>4, <2>2
      <3>2. (held \o dmaBuffer)[i] = dmaBuffer[i - k]  BY <1>1, <1>4, <2>2, <3>1
      <3>3. QED BY <1>2, <3>1, <3>2
    <2>3. QED BY <1>1, <1>4, <2>1, <2>2
  <1>8. held \o dmaBuffer = all  BY <1>5, <1>6, <1>7, SeqEqual
  <1>9. QED BY <1>3, <1>8 DEF openFile, all, e

LEMMA ClosedFilesStay ==
  ASSUME file' = file, \A g \in 1..file : disk'[g] = disk[g]
  PROVE  closedFiles' = closedFiles
  <1>1. \A g \in 1..file : InOrder(disk'[g]) = InOrder(disk[g])  OBVIOUS
  <1>2. QED BY <1>1 DEF closedFiles

LEMMA RefinementIsEmpty == Init => ARCHIVE!ArchiveInit
  <1> SUFFICES ASSUME Init PROVE ARCHIVE!ArchiveInit
    OBVIOUS
  <1>1. IInv /\ Rounds /\ file = 0 /\ recordedSamples = 0 /\ received = 0
    BY InitIInv, InitRounds DEF Init
  <1>2. End(file) \in Nat /\ Now <= received /\ Now = End(file) + recordedSamples
    BY <1>1, NowIs DEF Now
  <1>3. received - End(file) = 0  BY <1>1, <1>2
  <1>4. openFile = <<>>
    <2>1. openFile = [i \in 1..(received - End(file)) |-> End(file) + i]  BY <1>1, OpenFileIs
    <2>2. 1..(received - End(file)) = {}  BY <1>3
    <2>3. QED BY <2>1, <2>2
  <1>5. closedFiles = <<>>
    <2>1. 1..file = {}  BY <1>1
    <2>2. QED BY <2>1 DEF closedFiles
  <1>6. QED BY <1>1, <1>4, <1>5 DEF ARCHIVE!ArchiveInit

(* A step that leaves the samples received and the closed files alone is a  *)
(* stutter of the archive.                                                  *)
LEMMA QuietStutters ==
  ASSUME IInv, Rounds, IInv', Rounds', file' = file, received' = received,
         \A g \in 1..file : disk'[g] = disk[g]
  PROVE  UNCHANGED ARCHIVE!archiveVars
  <1>1. End(file)' = End(file)  BY ClosedStays DEF Rounds
  <1>2. openFile' = [i \in 1..(received' - End(file)') |-> End(file)' + i]
    <2>1. (IInv /\ Rounds => openFile = [i \in 1..(received - End(file)) |-> End(file) + i])'
      BY OpenFileIs, PTL
    <2>2. QED BY <2>1
  <1>3. openFile = [i \in 1..(received - End(file)) |-> End(file) + i]  BY OpenFileIs
  <1>4. closedFiles' = closedFiles  BY ClosedFilesStay
  <1>5. QED BY <1>1, <1>2, <1>3, <1>4 DEF ARCHIVE!archiveVars

LEMMA FillReceives ==
  ASSUME IInv, Rounds, IInv', Rounds', NEW k \in 0..MaxBatch, FillBuffer(k)
  PROVE  [ARCHIVE!ArchiveNext]_(ARCHIVE!archiveVars)
  <1>1. UNCHANGED <<file, disk>> /\ received' = received + k
    BY DEF FillBuffer, recording
  <1>2. CASE k = 0
    <2>1. received' = received  BY <1>1, <1>2, NowIs
    <2>2. QED BY <1>1, <2>1, QuietStutters
  <1>3. CASE k # 0
    <2> DEFINE e == End(file)
               packet == [i \in 1..k |-> received + i]
    <2>1. k \in 1..MaxBatch /\ k \in Nat  BY <1>3, DataCollectionAssumption
    <2>2. /\ e \in Nat /\ received \in Nat /\ e <= received /\ End(file)' = e
      BY NowIs, FillRounds
    <2>3. openFile' = [i \in 1..(received' - e) |-> e + i]
      <3>1. (IInv /\ Rounds => openFile = [i \in 1..(received - End(file)) |-> End(file) + i])'
        BY OpenFileIs, PTL
      <3>2. QED BY <2>2, <3>1
    <2>4. openFile = [i \in 1..(received - e) |-> e + i]  BY OpenFileIs
    <2> HIDE DEF e
    <2>5. openFile' = openFile \o packet
      <3>1. /\ openFile \in Seq(Nat) /\ Len(openFile) = received - e
            /\ \A i \in 1..(received - e) : openFile[i] = e + i
        BY <2>2, <2>4
      <3>2. /\ openFile' \in Seq(Nat) /\ Len(openFile') = received + k - e
            /\ \A i \in 1..(received + k - e) : openFile'[i] = e + i
        BY <1>1, <2>1, <2>2, <2>3
      <3>3. packet \in Seq(Nat) /\ Len(packet) = k /\ \A i \in 1..k : packet[i] = received + i
        BY <2>1, <2>2
      <3> HIDE DEF packet
      <3>4. /\ openFile \o packet \in Seq(Nat)
            /\ Len(openFile \o packet) = Len(openFile) + Len(packet)
        BY <3>1, <3>3
      <3>5. Len(openFile \o packet) = received + k - e  BY <2>1, <2>2, <3>1, <3>3, <3>4
      <3>6. ASSUME NEW i \in 1..(received + k - e)
            PROVE  (openFile \o packet)[i] = e + i
        <4>1. CASE i <= received - e
          <5>1. i \in 1..Len(openFile)  BY <2>2, <3>1, <4>1
          <5>2. (openFile \o packet)[i] = openFile[i]  BY <3>1, <3>3, <5>1
          <5>3. QED BY <3>1, <5>1, <5>2
        <4>2. CASE i > received - e
          <5>1. i - (received - e) \in 1..k /\ received + (i - (received - e)) = e + i
            BY <2>1, <2>2, <4>2
          <5>2. (openFile \o packet)[i] = packet[i - (received - e)]
            BY <2>1, <2>2, <3>1, <3>3, <4>2, <5>1
          <5>3. QED BY <3>3, <5>1, <5>2
        <4>3. i <= received - e \/ i > received - e  BY <2>1, <2>2
        <4>4. QED BY <4>1, <4>2, <4>3
      <3>7. QED BY <3>2, <3>4, <3>5, <3>6, SeqEqual
    <2>6. closedFiles' = closedFiles  BY <1>1, ClosedFilesStay
    <2>7. ARCHIVE!Receive(k)  BY <1>1, <2>5, <2>6 DEF ARCHIVE!Receive
    <2>8. QED BY <2>1, <2>7 DEF ARCHIVE!ArchiveNext
  <1>4. QED BY <1>2, <1>3

(* The program closes the open file where it counts a new one.               *)
LEMMA RotateCloses ==
  ASSUME IInv, Rounds, IInv', Rounds', Rotate
  PROVE  ARCHIVE!CloseFile
  <1>1. /\ UNCHANGED <<disk, dmaBuffer, received>> /\ file' = file + 1 /\ pc = "rotate"
    BY DEF Rotate, StartSave, dma
  <1>2. /\ file \in Nat /\ End(file) \in Nat /\ Now \in Nat /\ End(file) <= Now
        /\ recordedSamples = Now - End(file)
    BY NowIs
  <1>3. received = Now /\ recordedSamples >= SamplesPerFile
    BY <1>1, NowIs DEF Rounds, Current, Full
  <1>4. openFile = [i \in 1..(Now - End(file)) |-> End(file) + i]  BY <1>3, OpenFileIs
  <1>5. Len(openFile) >= SamplesPerFile
    <2>1. Len(openFile) = Now - End(file)  BY <1>2, <1>4
    <2>2. QED BY <1>2, <1>3, <2>1
  <1>6. openFile' = <<>>
    <2>1. (IInv /\ Rounds => openFile = [i \in 1..(received - End(file)) |-> End(file) + i])'
      BY OpenFileIs, PTL
    <2>2. End(file)' = Now  BY RotateRounds
    <2>3. received' - End(file)' = 0  BY <1>1, <1>2, <1>3, <2>2
    <2>4. 1..(received' - End(file)') = {}  BY <2>3
    <2>5. openFile' = [i \in 1..(received' - End(file)') |-> End(file)' + i]  BY <2>1
    <2>6. QED BY <2>4, <2>5
  <1>7. closedFiles' = Append(closedFiles, openFile)
    <2>1. InOrder(disk[file + 1]) = openFile  BY <1>2, <1>4, RotateRounds, InOrderIs
    <2>2. closedFiles' = [f \in 1..(file + 1) |-> InOrder(disk[f])]
      BY <1>1 DEF closedFiles
    <2> DEFINE F == {InOrder(disk[f]) : f \in 1..(file + 1)}
    <2>3. closedFiles = [f \in 1..file |-> InOrder(disk[f])]  BY DEF closedFiles
    <2>4. closedFiles \in Seq(F) /\ Len(closedFiles) = file
      <3>1. \A f \in 1..file : InOrder(disk[f]) \in F
        <4>1. \A f \in 1..file : f \in 1..(file + 1)  BY <1>2
        <4>2. QED BY <4>1
      <3> HIDE DEF F
      <3>2. QED BY <1>2, <2>3, <3>1
    <2>5. openFile \in F
      <3>1. file + 1 \in 1..(file + 1)  BY <1>2
      <3>2. QED BY <2>1, <3>1
    <2>6. closedFiles' \in Seq(F) /\ Len(closedFiles') = file + 1
      <3>1. \A f \in 1..(file + 1) : InOrder(disk[f]) \in F  OBVIOUS
      <3> HIDE DEF F
      <3>2. QED BY <1>2, <2>2, <3>1
    <2> HIDE DEF F
    <2>7. /\ Append(closedFiles, openFile) \in Seq(F)
          /\ Len(Append(closedFiles, openFile)) = file + 1
          /\ Append(closedFiles, openFile)[file + 1] = openFile
          /\ \A f \in 1..file : Append(closedFiles, openFile)[f] = closedFiles[f]
      BY <2>4, <2>5
    <2>8. ASSUME NEW f \in 1..(file + 1)
          PROVE  closedFiles'[f] = Append(closedFiles, openFile)[f]
      <3>1. CASE f = file + 1  BY <2>1, <2>2, <2>7, <3>1
      <3>2. CASE f # file + 1
        <4>1. f \in 1..file  BY <1>2, <3>2
        <4>2. QED BY <2>2, <2>3, <2>7, <4>1
      <3>3. QED BY <3>1, <3>2
    <2>9. QED BY <2>6, <2>7, <2>8, SeqEqual
  <1>8. QED BY <1>1, <1>5, <1>6, <1>7 DEF ARCHIVE!CloseFile

LEMMA NextIsArchiveNext ==
  IInv /\ Rounds /\ IInv' /\ Rounds' /\ [Next]_vars
    => [ARCHIVE!ArchiveNext]_(ARCHIVE!archiveVars)
  <1> SUFFICES ASSUME IInv, Rounds, IInv', Rounds', [Next]_vars
               PROVE  [ARCHIVE!ArchiveNext]_(ARCHIVE!archiveVars)
    OBVIOUS
  <1>1. CASE Rotate
    BY <1>1, RotateCloses DEF ARCHIVE!ArchiveNext
  <1>2. CASE \E k \in 0..MaxBatch : FillBuffer(k)
    BY <1>2, FillReceives
  <1>3. CASE OpenFile \/ WriteFile
    <2>1. file' = file /\ received' = received /\ \E b : disk' = Put(file + 1, b)
      BY <1>3 DEF OpenFile, WriteFile, recording, dma
    <2>2. \A g \in 1..file : disk'[g] = disk[g]  BY <2>1, PutElsewhere DEF IInv
    <2>3. QED BY <2>1, <2>2, QuietStutters
  <1>4. CASE Moved \/ Saves \/ Grow \/ SendFirst \/ SendNext \/ Deal \/ UNCHANGED vars
    <2>1. file' = file /\ received' = received /\ disk' = disk
      BY <1>4 DEF Moved, CheckInput, LoopTest, NothingToSave, Dealt, NoFinalSave, Handler, Crash,
             Terminated, Saves, InitialiseAudioFile, SaveFullFile, SaveWip, FinalSave, StartSave,
             Grow, SendFirst, SendNext, Send, Deal, recording, dma, input, vars
    <2>2. QED BY <2>1, QuietStutters
  <1>5. QED
    BY <1>1, <1>2, <1>3, <1>4 DEF Next, Main, Moved, Saves

-------------------------------------------------------------------------------
(* The theorems.                                                            *)

(* Every variable stays in its set; a file is on disk once its first save   *)
(* has opened it (datacollection.cpp:60, 127-152).                          *)
THEOREM TypeCorrect == Spec => []TypeOK
  <1>1. IInv => TypeOK
    <2> SUFFICES ASSUME IInv PROVE TypeOK
      OBVIOUS
    <2>1. Types
      BY DEF IInv
    <2>2. Range(disk) \subseteq Samples
      BY <2>1 DEF Types, Range
    <2>3. {audioBuffer, audioFile} \cup Range(disk) \subseteq [Channels -> Seq(Nat)]
      BY <2>1, <2>2 DEF Types, Samples
    <2>4. {file, recordedSamples, capacity, received, inputIdx} \subseteq Nat
      BY <2>1 DEF Types
    <2>5. QED
      BY <2>1, <2>3, <2>4 DEF Types, TypeOK, PCs
  <1>2. QED
    BY <1>1, SpecIInv, PTL

(* After a crash at any moment the file being recorded holds the start of    *)
(* each channel, perhaps nothing (datacollection.cpp:147, 171, 185, 223).   *)
THEOREM CrashLeavesPrefix == Spec => []CurrentFileIsPrefix
  <1>1. IInv => CurrentFileIsPrefix
    <2> SUFFICES ASSUME IInv, Len(disk) = file + 1, NEW c \in Channels
                 PROVE  IsPrefix(disk[file + 1][c], audioBuffer[c])
      BY DEF CurrentFileIsPrefix
    <2>1. file \in Nat /\ disk \in Seq(Samples) /\ audioBuffer \in Samples
      BY DEF IInv, Types
    <2>2. disk[file + 1] \in Samples
      BY <2>1
    <2>3. disk[file + 1][c] \in Seq(Nat) /\ audioBuffer[c] \in Seq(Nat)
      BY <2>1, <2>2 DEF Samples
    <2>4. Heads(disk[file + 1][c], audioBuffer[c])
      BY DEF IInv, Saved
    <2>5. QED
      BY <2>3, <2>4, HeadsAre
  <1>2. QED
    BY <1>1, SpecIInv, PTL

(* Whatever the length of the input, the program takes it in pairs, every    *)
(* pair once, sends the first sample of each, and reads behind the end only *)
(* with the first transfer of an input of fewer than two samples            *)
(* (datacollection.cpp:85-112, 152-159, 213-216, AxiStreamDma.cpp:141-149). *)
THEOREM TakesPairs == Spec => []PairsSent
  <1>1. IInv => PairsSent
    <2> SUFFICES ASSUME IInv PROVE PairsSent
      OBVIOUS
    <2>1. /\ length \in Nat /\ sent \in Seq(Nat) /\ Len(sent) \in Nat
          /\ inputIdx = 2 * Len(sent)
          /\ inputIdx <= inputFileNumSamples \/ (length < 2 /\ Len(sent) = 1)
          /\ \A i \in 1..Len(sent) : sent[i] = 2 * (i - 1)
          /\ inputFileNumSamples \in Nat /\ inputFileNumSamples <= length
      BY PairsOf DEF IInv, Types, Played
    <2>2. sent = [i \in 1..Len(sent) |-> 2 * (i - 1)]
      <3> DEFINE pairs == [i \in 1..Len(sent) |-> 2 * (i - 1)]
      <3>1. pairs \in Seq(Nat) /\ Len(pairs) = Len(sent)
            /\ \A i \in 1..Len(sent) : pairs[i] = 2 * (i - 1)
        BY <2>1
      <3> HIDE DEF pairs
      <3>2. sent = pairs
        BY <2>1, <3>1, SeqEqual
      <3>3. QED
        BY <3>2 DEF pairs
    <2>3. \A i \in 1..Len(sent) : sent[i] + 1 >= length => i = 1 /\ length < 2
      <3>1. CASE inputIdx <= inputFileNumSamples
        BY <2>1, <3>1
      <3>2. CASE length < 2 /\ Len(sent) = 1
        BY <2>1, <3>2
      <3>3. QED
        BY <2>1, <3>1, <3>2
    <2>4. pc = "rejected" => sent = <<>> /\ disk = <<>>
      <3>1. pc = "rejected" => Len(sent) = 0 /\ disk = <<>>
        BY DEF IInv, Played
      <3>2. QED
        BY <2>1, <3>1
    <2>5. pc = "done" /\ ~recordingStopSignal =>
            Len(sent) = IF length < 2 THEN 1 ELSE length \div 2
      <3> SUFFICES ASSUME pc = "done", ~recordingStopSignal
                   PROVE  Len(sent) = IF length < 2 THEN 1 ELSE length \div 2
        OBVIOUS
      <3>1. inputIdx >= inputFileNumSamples /\ Len(sent) # 0
        BY DEF IInv, Played
      <3>2. CASE length < 2
        <4>1. inputFileNumSamples = 0
          BY <2>1, <3>2, PairsOf
        <4>2. QED
          BY <2>1, <3>1, <3>2, <4>1
      <3>3. CASE length >= 2
        <4>1. 2 * Len(sent) = inputFileNumSamples
          BY <2>1, <3>1, <3>3
        <4>2. Len(sent) = length \div 2
          BY <2>1, <4>1, PairsOf
        <4>3. QED
          BY <2>1, <3>3, <4>2
      <3>4. QED
        BY <2>1, <3>2, <3>3
    <2>6. QED
      BY <2>2, <2>3, <2>4, <2>5 DEF PairsSent
  <1>2. QED
    BY <1>1, SpecIInv, PTL

(* In any number of channels the samples of all files go round without a    *)
(* gap, and recordedSamples counts those of the open one                    *)
(* (datacollection.cpp:167-211).                                            *)
THEOREM GoesRound == Spec => []SamplesDealt
  <1>1. IInv /\ Rounds => SamplesDealt
    BY DEF Rounds, Closed, Current, Now, SamplesDealt
  <1>2. QED
    BY <1>1, SpecRounds, PTL

(* Put back in the order of arrival, the channels of the closed files and    *)
(* of the open one are an Archive: nothing is lost, doubled or reordered,   *)
(* and a file is closed only when it is full (datacollection.cpp:159-217).  *)
THEOREM ImplementsArchive == Spec => RefinesArchive
  <1>1. QED
    BY RefinementIsEmpty, NextIsArchiveNext, SpecRounds, PTL
       DEF Spec, RefinesArchive, ARCHIVE!ArchiveSpec
=============================================================================
