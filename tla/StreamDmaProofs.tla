--------------------------- MODULE StreamDmaProofs ---------------------------
(***************************************************************************)
(* Theorems about StreamDma, for every engine in Hardware, every Emits,     *)
(* FIFO and number of words, and any number of restarts: type correctness,  *)
(* no transfer is pending outside the wait for it and none is cut short,    *)
(* and the words stay in order, near the start of the memory window.        *)
(***************************************************************************)
EXTENDS StreamDma, DmaEngineProofs, SequenceTheorems

(* A step counter is in use in the three places that write registers.       *)
StepOK == pc \notin {"ctor", "failed", "receive", "send"} => step = 1

(* The FIFO holds the last words emitted.                                   *)
FifoIsRecent ==
  /\ Len(fifo) <= emitted
  /\ fifo = [i \in 1..Len(fifo) |-> emitted - Len(fifo) + i]

(* The transfer in progress has room in the modelled memory.                *)
Room ==
  /\ Destination <= MaxWords + 1
  /\ pc = "fillsync" \/ (pc = "receive" /\ step > 1) => Destination <= MaxWords

(* No transfer of this process is pending on a channel in reset.            *)
OwnNotReset ==
  \A c \in Channels \ inherited : chan[c].left > 0 => ~chan[c].resetting

IInv ==
  /\ TypeOK
  /\ StepOK
  /\ FifoIsRecent
  /\ Room
  /\ BusyNotIdle
  /\ PendingOnlyInSync
  /\ OwnNotReset

(* The part of the invariant that the registers matter to.                  *)
EngineOK == BusyNotIdle /\ PendingOnlyInSync /\ OwnNotReset

(* All transfers pending are those of earlier processes.                    *)
OnlyInherited == \A c \in Channels \ inherited : chan[c].left = 0

LEMMA InitIInv == Init => IInv
  <1> SUFFICES ASSUME Init PROVE IInv
    OBVIOUS
  <1> USE StreamDmaAssumption
  <1>1. ResetState \in ChannelState(1, MaxWords) /\ ResetState.left = 0
    BY DEF ResetState, ChannelState
  <1>2. TypeOK
    <2>1. chan \in [Channels -> ChannelState(1, MaxWords)]
      BY <1>1 DEF Init
    <2>2. memory \in [0..MaxWords -> 0..MaxWords]
      BY DEF Init
    <2>3. buffer \in Seq(Nat) /\ audio \in Seq(Nat) /\ fifo \in Seq(Nat)
      BY DEF Init
    <2>4. QED
      BY <2>1, <2>2, <2>3 DEF Init, TypeOK
  <1>3. StepOK /\ Room
    BY DEF Init, StepOK, Room, Destination, TransferSize
  <1>4. FifoIsRecent
    BY DEF Init, FifoIsRecent
  <1>5. BusyNotIdle /\ PendingOnlyInSync /\ OwnNotReset
    BY <1>1 DEF Init, BusyNotIdle, PendingOnlyInSync, OwnNotReset, Channels
  <1>6. QED
    BY <1>2, <1>3, <1>4, <1>5 DEF IInv

(* Outside the two waits nothing of this process is pending.                *)
LEMMA OutsideSync ==
  ASSUME IInv, pc \notin {"fillsync", "sendsync"}
  PROVE  OnlyInherited
  BY DEF IInv, TypeOK, PendingOnlyInSync, OnlyInherited, Channels, ChannelState

(* At the end of a wait the transfer is over.                               *)
LEMMA SyncedOver ==
  ASSUME IInv, NEW c \in Channels, Synced(c)
  PROVE  chan[c].left = 0
  BY DEF IInv, TypeOK, BusyNotIdle, Synced, ChannelState

(* The six writes leave everything the process started over, until the last *)
(* of them starts the next transfer.                                        *)
LEMMA StartTransferEffect ==
  ASSUME IInv, pc \notin {"fillsync", "sendsync"},
         NEW c \in Channels, NEW w \in 0..MaxWords, StartTransfer(c, w)
  PROVE  /\ chan' \in Registers(1, MaxWords)
         /\ inherited' \subseteq Channels
         /\ BusyNotIdle'
         /\ OwnNotReset'
         /\ \A d \in Channels \ inherited' : chan'[d].left > 0 => d = c /\ step = 6
         /\ \A d \in Channels \ inherited : chan[d].left = 0
  <1> USE StreamDmaAssumption
  <1>1. /\ chan \in Registers(1, MaxWords)
        /\ hw \in Hardware
        /\ inherited \subseteq Channels
        /\ OnlyInherited
        /\ BusyNotIdle
    BY OutsideSync DEF IInv, TypeOK, Registers
  <1>2. CASE step = 1
    <2>1. WriteReset(c) /\ inherited' = inherited
      BY <1>2 DEF StartTransfer
    <2>2. chan' \in Registers(1, MaxWords) /\ \A d \in Channels : NoNews(d)
      BY <1>1, <2>1, WriteResetEffect
    <2>3. QED
      BY <1>1, <2>1, <2>2
         DEF NoNews, OnlyInherited, BusyNotIdle, OwnNotReset, Registers, ChannelState
  <1>3. CASE step \in {2, 3, 4}
    <2>1. inherited' = inherited
      BY <1>3 DEF StartTransfer
    <2>2. chan' \in Registers(1, MaxWords) /\ \A d \in Channels : NoNews(d)
      <3>1. CASE step \in {2, 3}
        <4>1. step # 1 /\ step # 4 /\ step # 5 /\ step # 6
          BY <3>1
        <4>2. WriteRun(c, FALSE)
          BY <4>1, Zenon DEF StartTransfer
        <4>3. QED
          BY <1>1, <4>2, WriteRunEffect
      <3>2. CASE step = 4
        <4>1. step \notin {2, 3} /\ step # 1 /\ step # 5 /\ step # 6
          BY <3>2
        <4>2. WriteRun(c, TRUE)
          BY <4>1, Zenon DEF StartTransfer
        <4>3. QED
          BY <1>1, <4>2, WriteRunEffect
      <3>3. QED
        BY <1>3, <3>1, <3>2
    <2>3. QED
      BY <1>1, <2>1, <2>2
         DEF NoNews, OnlyInherited, BusyNotIdle, OwnNotReset, Registers, ChannelState
  <1>4. CASE step = 5
    <2>1. WriteAddress(c, w) /\ inherited' = inherited
      BY <1>4 DEF StartTransfer
    <2>2. chan' \in Registers(1, MaxWords) /\ \A d \in Channels : NoNews(d)
      BY <1>1, <2>1, WriteAddressEffect
    <2>3. QED
      BY <1>1, <2>1, <2>2
         DEF NoNews, OnlyInherited, BusyNotIdle, OwnNotReset, Registers, ChannelState
  <1>5. CASE step = 6
    <2>1. /\ WriteLength(c, 1)
          /\ inherited' = IF Arms(c) THEN inherited \ {c} ELSE inherited
      BY <1>5 DEF StartTransfer
    <2>2. /\ chan' \in Registers(1, MaxWords)
          /\ Arms(c) => chan'[c].left = 1 /\ ~chan'[c].idle
          /\ ~Arms(c) => chan' = chan
          /\ \A d \in Channels : chan'[d].resetting = chan[d].resetting
          /\ \A d \in Channels \ {c} : chan'[d] = chan[d]
      <3>1. 1 \in 0..1 /\ 1 \in Nat
        OBVIOUS
      <3>2. QED
        BY <1>1, <2>1, <3>1, WriteLengthEffect
    <2>3. CASE Arms(c)
      BY <1>1, <1>5, <2>1, <2>2, <2>3
         DEF OnlyInherited, BusyNotIdle, OwnNotReset, Registers, ChannelState, Arms
    <2>4. CASE ~Arms(c)
      BY <1>1, <1>5, <2>1, <2>2, <2>4 DEF OnlyInherited, BusyNotIdle, OwnNotReset
    <2>5. QED
      BY <2>3, <2>4
  <1>6. QED
    BY <1>2, <1>3, <1>4, <1>5 DEF IInv, TypeOK

-------------------------------------------------------------------------------
(* Each action keeps the invariant.                                         *)

(* Steps that leave the engine alone while nothing of this process is       *)
(* pending.                                                                 *)
LEMMA EngineLeftAlone ==
  ASSUME IInv, OnlyInherited, UNCHANGED <<chan, inherited>>
  PROVE  EngineOK'
  BY DEF IInv, TypeOK, EngineOK, OnlyInherited, BusyNotIdle, PendingOnlyInSync, OwnNotReset,
         Channels, ChannelState

LEMMA OpenIInv == IInv /\ Open => IInv'
  <1> SUFFICES ASSUME IInv, Open PROVE IInv'
    OBVIOUS
  <1>1. EngineOK'
    BY OutsideSync, EngineLeftAlone DEF Open, engine
  <1>2. TypeOK' /\ StepOK' /\ FifoIsRecent' /\ Room'
    BY DEF IInv, TypeOK, StepOK, FifoIsRecent, Room, Destination, Open, Goto,
           engine, program, process, stream
  <1>3. QED
    BY <1>1, <1>2 DEF IInv, EngineOK

LEMMA LoopTestIInv == IInv /\ LoopTest => IInv'
  <1> SUFFICES ASSUME IInv, LoopTest PROVE IInv'
    OBVIOUS
  <1>1. EngineOK'
    BY OutsideSync, EngineLeftAlone DEF LoopTest, engine
  <1>2. TypeOK' /\ StepOK' /\ FifoIsRecent' /\ Room'
    BY DEF IInv, TypeOK, StepOK, FifoIsRecent, Room, Destination, LoopTest, Goto,
           engine, program, process, stream
  <1>3. QED
    BY <1>1, <1>2 DEF IInv, EngineOK

LEMMA FillEnterIInv == IInv /\ FillEnter => IInv'
  <1> SUFFICES ASSUME IInv, FillEnter PROVE IInv'
    OBVIOUS
  <1>1. EngineOK'
    BY OutsideSync, EngineLeftAlone DEF FillEnter, engine
  <1>2. TypeOK' /\ StepOK' /\ FifoIsRecent' /\ Room'
    <2>1. TypeOK'
      BY StreamDmaAssumption DEF IInv, TypeOK, TransferSize, FillEnter, Goto,
         engine, process, stream
    <2>2. StepOK'
      BY StreamDmaAssumption DEF IInv, TypeOK, StepOK, TransferSize, FillEnter,
         Goto, engine, process, stream
    <2>3. FifoIsRecent'
      BY StreamDmaAssumption DEF IInv, FifoIsRecent, TransferSize, FillEnter, Goto,
         engine, process, stream
    <2>4. Room'
      BY StreamDmaAssumption DEF IInv, TypeOK, StepOK, Room, Destination,
         TransferSize, FillEnter, Goto, engine, process, stream
    <2>5. QED
      BY <2>1, <2>2, <2>3, <2>4
  <1>3. QED
    BY <1>1, <1>2 DEF IInv, EngineOK

LEMMA FillTestIInv == IInv /\ (FillTest \/ FillTest2) => IInv'
  <1> SUFFICES ASSUME IInv, FillTest \/ FillTest2 PROVE IInv'
    OBVIOUS
  <1>1. EngineOK'
    BY OutsideSync, EngineLeftAlone DEF FillTest, FillTest2, engine
  <1>2. /\ pc \in {"test", "test2"} /\ pc' \in {"test2", "copy", "receive"}
        /\ UNCHANGED <<step, hw, program, engine>>
    BY DEF FillTest, FillTest2, Goto
  <1>3. TypeOK' /\ StepOK' /\ FifoIsRecent' /\ Room'
    BY <1>2 DEF IInv, TypeOK, StepOK, FifoIsRecent, Room, Destination,
                engine, program, process, stream
  <1>4. QED
    BY <1>1, <1>3 DEF IInv, EngineOK

LEMMA FillSyncIInv == IInv /\ FillSync => IInv'
  <1> SUFFICES ASSUME IInv, FillSync PROVE IInv'
    OBVIOUS
  <1>1. OnlyInherited
    BY SyncedOver DEF FillSync, IInv, TypeOK, PendingOnlyInSync, OnlyInherited, Channels,
                      ChannelState
  <1>2. EngineOK'
    BY <1>1, EngineLeftAlone DEF FillSync, engine
  <1>3. TypeOK' /\ StepOK' /\ FifoIsRecent' /\ Room'
    <2>1. TypeOK'
      <3>1. bytes' \in Nat /\ pc' = "test" /\ step' = step
        BY DEF FillSync, Goto, TransferSize, IInv, TypeOK
      <3>2. UNCHANGED <<hw, client, restarts, buffer, audio, stop, chan, inherited, memory, fifo,
                        emitted, missed>>
        BY DEF FillSync, process, engine, stream
      <3>3. QED
        BY <3>1, <3>2 DEF IInv, TypeOK
    <2>2. StepOK'
      BY StreamDmaAssumption DEF IInv, TypeOK, StepOK, TransferSize, FillSync,
         Goto, engine, process, stream
    <2>3. FifoIsRecent'
      BY StreamDmaAssumption DEF IInv, FifoIsRecent, TransferSize, FillSync, Goto,
         engine, process, stream
    <2>4. Room'
      BY StreamDmaAssumption DEF IInv, TypeOK, StepOK, Room, Destination,
         TransferSize, FillSync, Goto, engine, process, stream
    <2>5. QED
      BY <2>1, <2>2, <2>3, <2>4
  <1>4. QED
    BY <1>2, <1>3 DEF IInv, EngineOK

(* fillBuffer copies as many words as it counted.                           *)
LEMMA CopiedWords == ASSUME IInv PROVE Copied \in Seq(Nat)
  <1>1. \A i \in 1..(bytes \div TransferSize) : memory[i - 1] \in Nat
    <2>1. /\ memory \in [0..MaxWords -> 0..MaxWords]
          /\ bytes \div TransferSize \in Nat
          /\ bytes \div TransferSize <= MaxWords + 1
      BY DEF IInv, TypeOK, Room, Destination, TransferSize
    <2>2. QED
      BY <2>1, StreamDmaAssumption
  <1>2. bytes \div TransferSize \in Nat
    BY DEF IInv, TypeOK, TransferSize
  <1>3. QED
    BY <1>1, <1>2 DEF Copied

LEMMA FillCopyIInv == IInv /\ FillCopy => IInv'
  <1> SUFFICES ASSUME IInv, FillCopy PROVE IInv'
    OBVIOUS
  <1>1. EngineOK'
    BY OutsideSync, EngineLeftAlone DEF FillCopy, engine
  <1>2. buffer' \in Seq(Nat)
    BY CopiedWords DEF FillCopy, IInv, TypeOK
  <1>3. TypeOK' /\ StepOK' /\ FifoIsRecent' /\ Room'
    BY <1>2 DEF IInv, TypeOK, StepOK, FifoIsRecent, Room, Destination, FillCopy, Goto,
                engine, process, stream
  <1>4. QED
    BY <1>1, <1>3 DEF IInv, EngineOK

LEMMA CollectIInv == IInv /\ Collect => IInv'
  <1> SUFFICES ASSUME IInv, Collect PROVE IInv'
    OBVIOUS
  <1>1. EngineOK'
    BY OutsideSync, EngineLeftAlone DEF Collect, engine
  <1>2. audio' \in Seq(Nat) /\ buffer' \in Seq(Nat)
    <2>1. audio \in Seq(Nat) /\ buffer \in Seq(Nat)
      BY DEF IInv, TypeOK
    <2>2. audio \o buffer \in Seq(Nat) /\ <<>> \in Seq(Nat)
      BY <2>1
    <2>3. QED
      BY <2>1, <2>2 DEF Collect
  <1>3. TypeOK' /\ StepOK' /\ FifoIsRecent' /\ Room'
    <2>1. TypeOK'
      <3>1. bytes' = 0 /\ pc' = "send" /\ step' = step
        BY DEF Collect, Goto
      <3>2. UNCHANGED <<hw, client, restarts, stop, chan, inherited, memory, fifo, emitted, missed>>
        BY DEF Collect, process, engine, stream
      <3>3. QED
        BY <1>2, <3>1, <3>2 DEF IInv, TypeOK
    <2>2. StepOK'
      BY <1>2, StreamDmaAssumption DEF IInv, TypeOK, StepOK, TransferSize, Collect,
         Goto, engine, process, stream
    <2>3. FifoIsRecent'
      BY <1>2, StreamDmaAssumption DEF IInv, FifoIsRecent, TransferSize, Collect,
         Goto, engine, process, stream
    <2>4. Room'
      BY <1>2, StreamDmaAssumption DEF IInv, TypeOK, StepOK, Room, Destination,
         TransferSize, Collect, Goto, engine, process, stream
    <2>5. QED
      BY <2>1, <2>2, <2>3, <2>4
  <1>4. QED
    BY <1>1, <1>3 DEF IInv, EngineOK

LEMMA SendSyncIInv == IInv /\ SendSync => IInv'
  <1> SUFFICES ASSUME IInv, SendSync PROVE IInv'
    OBVIOUS
  <1>1. OnlyInherited
    BY SyncedOver DEF SendSync, IInv, TypeOK, PendingOnlyInSync, OnlyInherited, Channels,
                      ChannelState
  <1>2. EngineOK'
    BY <1>1, EngineLeftAlone DEF SendSync, engine
  <1>3. TypeOK' /\ StepOK' /\ FifoIsRecent' /\ Room'
    BY DEF IInv, TypeOK, StepOK, FifoIsRecent, Room, Destination, SendSync, Goto,
           engine, program, process, stream
  <1>4. QED
    BY <1>2, <1>3 DEF IInv, EngineOK

LEMMA ConstructIInv == IInv /\ Construct => IInv'
  <1> SUFFICES ASSUME IInv, Construct PROVE IInv'
    OBVIOUS
  <1> USE StreamDmaAssumption
  <1>1. /\ chan' \in Registers(1, MaxWords)
        /\ \A d \in Channels : NoNews(d) /\ chan'[d].left = chan[d].left
        /\ \A d \in Channels : chan'[d].resetting = chan[d].resetting
    <2>1. chan \in Registers(1, MaxWords)
      BY DEF IInv, TypeOK, Registers
    <2>2. PICK c \in Channels : WriteRun(c, TRUE)
      BY DEF Construct, Channels
    <2>3. QED
      BY <2>1, <2>2, WriteRunEffect
  <1>2. EngineOK'
    BY <1>1, OutsideSync
       DEF Construct, IInv, TypeOK, EngineOK, OnlyInherited, NoNews, BusyNotIdle,
           PendingOnlyInSync, OwnNotReset, Channels, Registers, ChannelState
  <1>3. TypeOK' /\ StepOK' /\ FifoIsRecent' /\ Room'
    <2>1. TypeOK'
      BY <1>1 DEF IInv, TypeOK, Construct, Registers, program, process, stream
    <2>2. StepOK'
      BY <1>1 DEF IInv, TypeOK, StepOK, Construct, Registers, program, process,
         stream
    <2>3. FifoIsRecent'
      BY <1>1 DEF IInv, FifoIsRecent, Construct, Registers, program, process, stream
    <2>4. Room'
      BY <1>1 DEF IInv, TypeOK, StepOK, Room, Destination, Construct, Registers,
         program, process, stream
    <2>5. QED
      BY <2>1, <2>2, <2>3, <2>4
  <1>4. QED
    BY <1>2, <1>3 DEF IInv, EngineOK

LEMMA FillWriteIInv == IInv /\ FillWrite => IInv'
  <1> SUFFICES ASSUME IInv, FillWrite PROVE IInv'
    OBVIOUS
  <1> USE StreamDmaAssumption
  <1>1. /\ Destination \in 0..MaxWords
        /\ StartTransfer("s2mm", Destination) /\ "s2mm" \in Channels
    BY DEF FillWrite, IInv, TypeOK, Destination, TransferSize, Channels
  <1>2. /\ chan' \in Registers(1, MaxWords)
        /\ inherited' \subseteq Channels
        /\ BusyNotIdle' /\ OwnNotReset'
        /\ \A d \in Channels \ inherited' : chan'[d].left > 0 => d = "s2mm" /\ step = 6
    BY <1>1, StartTransferEffect DEF FillWrite
  <1>3. PendingOnlyInSync'
    BY <1>2 DEF FillWrite, NextWrite, PendingOnlyInSync, Channels, IInv, TypeOK
  <1>4. TypeOK' /\ StepOK' /\ FifoIsRecent' /\ Room'
    <2>1. TypeOK'
      <3>1. pc' \in {"receive", "fillsync"} /\ step' \in 1..6
        <4>1. step \in 1..6
          BY DEF IInv, TypeOK
        <4>2. QED
          BY <4>1 DEF FillWrite, NextWrite
      <3>2. UNCHANGED <<hw, client, restarts, bytes, buffer, audio, stop, memory, fifo, emitted,
                        missed>>
        BY DEF FillWrite, program, process, stream
      <3>3. QED
        BY <1>2, <3>1, <3>2 DEF IInv, TypeOK, Registers
    <2>2. StepOK'
      BY <1>1, <1>2 DEF IInv, TypeOK, StepOK, FillWrite, NextWrite, Registers,
         program, process, stream
    <2>3. FifoIsRecent'
      BY <1>1, <1>2 DEF IInv, FifoIsRecent, FillWrite, NextWrite, Registers,
         program, process, stream
    <2>4. Room'
      BY <1>1, <1>2 DEF IInv, TypeOK, StepOK, Room, Destination, FillWrite,
         NextWrite, Registers, program, process, stream
    <2>5. QED
      BY <2>1, <2>2, <2>3, <2>4
  <1>5. QED
    BY <1>2, <1>3, <1>4 DEF IInv

LEMMA SendWriteIInv == IInv /\ (SpoofWrite \/ SendWrite) => IInv'
  <1> SUFFICES ASSUME IInv, SpoofWrite \/ SendWrite PROVE IInv'
    OBVIOUS
  <1> USE StreamDmaAssumption
  <1>1. /\ pc = "send"
        /\ StartTransfer("mm2s", 0) /\ NextWrite("send", "sendsync")
        /\ UNCHANGED <<hw, program, stream>>
    BY DEF SpoofWrite, SendWrite
  <1>2. /\ chan' \in Registers(1, MaxWords)
        /\ inherited' \subseteq Channels
        /\ BusyNotIdle' /\ OwnNotReset'
        /\ \A d \in Channels \ inherited' : chan'[d].left > 0 => d = "mm2s" /\ step = 6
    <2>1. "mm2s" \in Channels /\ 0 \in 0..MaxWords
      BY DEF Channels
    <2>2. QED
      BY <1>1, <2>1, StartTransferEffect
  <1>3. PendingOnlyInSync'
    BY <1>1, <1>2 DEF NextWrite, PendingOnlyInSync, Channels, IInv, TypeOK
  <1>4. TypeOK' /\ StepOK' /\ FifoIsRecent' /\ Room'
    <2>1. TypeOK'
      <3>1. pc' \in {"send", "sendsync"} /\ step' \in 1..6
        <4>1. step \in 1..6
          BY DEF IInv, TypeOK
        <4>2. QED
          BY <1>1, <4>1 DEF NextWrite
      <3>2. UNCHANGED <<hw, client, restarts, bytes, buffer, audio, stop, memory, fifo, emitted,
                        missed>>
        BY <1>1 DEF program, process, stream
      <3>3. QED
        BY <1>2, <3>1, <3>2 DEF IInv, TypeOK, Registers
    <2>2. StepOK'
      BY <1>1, <1>2 DEF IInv, TypeOK, StepOK, NextWrite, Registers, program,
         process, stream
    <2>3. FifoIsRecent'
      BY <1>1, <1>2 DEF IInv, FifoIsRecent, NextWrite, Registers, program, process,
         stream
    <2>4. Room'
      BY <1>1, <1>2 DEF IInv, TypeOK, StepOK, Room, Destination, NextWrite,
         Registers, program, process, stream
    <2>5. QED
      BY <2>1, <2>2, <2>3, <2>4
  <1>5. QED
    BY <1>2, <1>3, <1>4 DEF IInv

(* A step of the engine that starts no transfer keeps what is said about    *)
(* the registers.                                                           *)
LEMMA EngineKept ==
  ASSUME IInv, chan' \in Registers(1, MaxWords), UNCHANGED <<pc, inherited>>,
         \A d \in Channels :
           /\ chan'[d].left > 0 => chan[d].left > 0
           /\ chan'[d].left > 0 /\ chan'[d].idle => chan[d].idle
           /\ chan'[d].resetting => chan[d].resetting
  PROVE  EngineOK'
  BY DEF IInv, TypeOK, EngineOK, BusyNotIdle, PendingOnlyInSync, OwnNotReset, Registers,
         ChannelState, Channels

LEMMA SwitchesIInv ==
  IInv /\ Switches /\ UNCHANGED <<stream, hw, pc, step, inherited, program>> => IInv'
  <1> SUFFICES ASSUME IInv, Switches, UNCHANGED <<stream, hw, pc, step, inherited, program>>
               PROVE  IInv'
    OBVIOUS
  <1>1. chan \in Registers(1, MaxWords)
    BY DEF IInv, TypeOK, Registers
  <1>2. /\ chan' \in Registers(1, MaxWords)
        /\ \A d \in Channels : NoNews(d)
        /\ \A d \in Channels : chan'[d].resetting => chan[d].resetting
    BY <1>1, SwitchesEffect, StreamDmaAssumption
  <1>3. EngineOK'
    BY <1>1, <1>2, EngineKept DEF NoNews, Registers, ChannelState
  <1>4. TypeOK' /\ StepOK' /\ FifoIsRecent' /\ Room'
    BY <1>2 DEF IInv, TypeOK, StepOK, FifoIsRecent, Room, Destination, Registers,
                program, process, stream
  <1>5. QED
    BY <1>3, <1>4 DEF IInv, EngineOK

LEMMA DropsIInv == IInv /\ Drops => IInv'
  <1> SUFFICES ASSUME IInv, Drops PROVE IInv'
    OBVIOUS
  <1>1. chan \in Registers(1, MaxWords)
    BY DEF IInv, TypeOK, Registers
  <1>2. /\ chan' \in Registers(1, MaxWords)
        /\ \A d \in Channels : NoNews(d)
        /\ \A d \in Channels : chan'[d].resetting = chan[d].resetting
    BY <1>1, IdleEndsEffect, StreamDmaAssumption DEF Drops
  <1>3. EngineOK'
    BY <1>1, <1>2, EngineKept DEF NoNews, Registers, ChannelState, Drops
  <1>4. TypeOK' /\ StepOK' /\ FifoIsRecent' /\ Room'
    BY <1>2 DEF IInv, TypeOK, StepOK, FifoIsRecent, Room, Destination, Registers, Drops,
                program, process, stream
  <1>5. QED
    BY <1>3, <1>4 DEF IInv, EngineOK

(* A word moved ends its transfer, whose channel is idle then.              *)
LEMMA MovesKeeps ==
  ASSUME IInv, NEW c \in Channels, Moves(c), UNCHANGED <<pc, inherited>>
  PROVE  /\ chan' \in Registers(1, MaxWords) /\ EngineOK'
         /\ chan[c].left = 1 /\ chan'[c].left = 0 /\ chan'[c].ioc
  <1>1. chan \in Registers(1, MaxWords)
    BY DEF IInv, TypeOK, Registers
  <1>2. /\ chan' \in Registers(1, MaxWords)
        /\ chan[c].left > 0
        /\ chan'[c].left = chan[c].left - 1
        /\ chan'[c].left = 0 => chan'[c].idle /\ chan'[c].ioc
        /\ chan'[c].resetting = chan[c].resetting
        /\ \A d \in Channels \ {c} : chan'[d] = chan[d]
    BY <1>1, MovesEffect, StreamDmaAssumption
  <1>3. chan[c].left = 1 /\ chan'[c].left = 0
    BY <1>1, <1>2 DEF Registers, ChannelState
  <1>4. EngineOK'
    BY <1>2, <1>3, EngineKept
  <1>5. QED
    BY <1>2, <1>3, <1>4

(* A sequence is given by its length and its elements.                      *)
LEMMA RecentByElements ==
  ASSUME NEW f \in Seq(Nat), NEW e \in Nat,
         \A i \in 1..Len(f) : f[i] = e - Len(f) + i
  PROVE  f = [i \in 1..Len(f) |-> e - Len(f) + i]
  <1>1. f = [i \in 1..Len(f) |-> f[i]]
    OBVIOUS
  <1>2. QED
    BY <1>1

LEMMA SentIInv ==
  ASSUME IInv, NEW n \in Emits, Sent(n), UNCHANGED <<hw, pc, step, inherited, program>>
  PROVE  IInv'
  <1> USE StreamDmaAssumption
  <1>1. chan' \in Registers(1, MaxWords) /\ EngineOK'
    BY MovesKeeps DEF Sent, Channels
  <1>2. n \in Nat /\ emitted \in Nat /\ Len(fifo) \in Nat /\ fifo \in Seq(Nat)
    BY DEF IInv, TypeOK
  <1> DEFINE words == [i \in 1..n |-> emitted + i]
  <1>3. words \in Seq(Nat) /\ Len(words) = n
    BY <1>2
  <1>4. /\ fifo' = fifo \o words /\ emitted' = emitted + n
        /\ emitted' \in 0..MaxWords
    BY <1>2 DEF Sent
  <1>5. FifoIsRecent'
    <2>1. /\ fifo' \in Seq(Nat)
          /\ Len(fifo') = Len(fifo) + n
          /\ \A i \in 1..(Len(fifo) + n) :
               fifo'[i] = IF i <= Len(fifo) THEN fifo[i] ELSE words[i - Len(fifo)]
      BY <1>2, <1>3, <1>4
    <2>2. \A i \in 1..Len(fifo) : fifo[i] = emitted - Len(fifo) + i
      BY DEF IInv, FifoIsRecent
    <2>3. Len(fifo) <= emitted
      BY DEF IInv, FifoIsRecent
    <2>4. \A i \in 1..Len(fifo') : fifo'[i] = emitted' - Len(fifo') + i
      BY <1>2, <1>4, <2>1, <2>2, <2>3
    <2>5. QED
      <3>1. fifo' = [i \in 1..Len(fifo') |-> emitted' - Len(fifo') + i]
        <4>1. emitted' \in Nat
          BY <1>4
        <4>2. QED
          BY <2>1, <2>4, <4>1, RecentByElements
      <3>2. Len(fifo') <= emitted'
        <4>1. Len(fifo') = Len(fifo) + n /\ emitted' = emitted + n
          BY <1>4, <2>1
        <4>2. QED
          BY <1>2, <2>3, <4>1
      <3>3. QED
        BY <3>1, <3>2 DEF FifoIsRecent
  <1>6. TypeOK'
    <2>1. fifo' \in Seq(Nat)
      BY <1>2, <1>3, <1>4
    <2>2. UNCHANGED <<hw, pc, step, inherited, client, restarts, bytes, buffer, audio, stop,
                      memory, missed>>
      BY DEF Sent, program, process
    <2>3. QED
      BY <1>1, <1>4, <2>1, <2>2 DEF IInv, TypeOK, Registers
  <1>7. StepOK' /\ Room'
    BY DEF IInv, StepOK, Room, Destination, program
  <1>8. QED
    BY <1>1, <1>5, <1>6, <1>7 DEF IInv, EngineOK

(* The word received is the oldest of those in the FIFO.                    *)
LEMMA ReceivedWord ==
  ASSUME IInv, Received
  PROVE  /\ fifo \in Seq(Nat) /\ Len(fifo) \in Nat \ {0}
         /\ Head(fifo) = emitted - Len(fifo) + 1
         /\ fifo' \in Seq(Nat) /\ Len(fifo') = Len(fifo) - 1
         /\ emitted' = emitted /\ emitted \in Nat /\ Len(fifo) <= emitted
         /\ \A i \in 1..Len(fifo') : fifo'[i] = emitted - Len(fifo') + i
  <1>1. /\ fifo \in Seq(Nat) /\ fifo # <<>> /\ emitted \in Nat
        /\ fifo' = Tail(fifo) /\ emitted' = emitted
    BY DEF IInv, TypeOK, Received
  <1>2. /\ Len(fifo) <= emitted
        /\ \A i \in 1..Len(fifo) : fifo[i] = emitted - Len(fifo) + i
    BY DEF IInv, FifoIsRecent
  <1>3. /\ Len(fifo) \in Nat \ {0} /\ Head(fifo) = fifo[1]
        /\ fifo' \in Seq(Nat) /\ Len(fifo') = Len(fifo) - 1
        /\ \A i \in 1..Len(fifo') : fifo'[i] = fifo[i + 1]
    BY <1>1
  <1>4. QED
    BY <1>1, <1>2, <1>3

LEMMA ReceivedIInv ==
  ASSUME IInv, Received, UNCHANGED <<hw, pc, step, inherited, program>>
  PROVE  IInv'
  <1> USE StreamDmaAssumption
  <1>1. chan' \in Registers(1, MaxWords) /\ EngineOK'
    BY MovesKeeps DEF Received, Channels
  <1>2. FifoIsRecent'
    <2>1. fifo' = [i \in 1..Len(fifo') |-> emitted' - Len(fifo') + i]
      BY ReceivedWord, RecentByElements
    <2>2. QED
      BY <2>1, ReceivedWord DEF FifoIsRecent
  <1>3. TypeOK'
    <2>1. Head(fifo) \in 0..MaxWords
      <3>1. emitted \in 0..MaxWords
        BY DEF IInv, TypeOK
      <3>2. QED
        BY <3>1, ReceivedWord
    <2>2. chan["s2mm"].addr \in 0..MaxWords
      BY DEF IInv, TypeOK, ChannelState, Channels
    <2>3. memory' \in [0..MaxWords -> 0..MaxWords]
      BY <2>1, <2>2 DEF IInv, TypeOK, Received
    <2>4. missed' \in Nat
      BY DEF IInv, TypeOK, Received
    <2>5. UNCHANGED <<hw, pc, step, inherited, client, restarts, bytes, buffer, audio, stop,
                      emitted>>
      BY DEF Received, program, process
    <2>6. QED
      BY <1>1, <2>3, <2>4, <2>5, ReceivedWord DEF IInv, TypeOK, Registers
  <1>4. StepOK' /\ Room'
    BY DEF IInv, StepOK, Room, Destination, program
  <1>5. QED
    BY <1>1, <1>2, <1>3, <1>4 DEF IInv, EngineOK

LEMMA HandlerIInv == IInv /\ Handler => IInv'
  <1> SUFFICES ASSUME IInv, Handler PROVE IInv'
    OBVIOUS
  <1>1. EngineOK'
    BY EngineKept DEF Handler, engine, IInv, TypeOK, Registers
  <1>2. TypeOK' /\ StepOK' /\ FifoIsRecent' /\ Room'
    BY DEF IInv, TypeOK, StepOK, FifoIsRecent, Room, Destination, Handler,
           process, engine, stream
  <1>3. QED
    BY <1>1, <1>2 DEF IInv, EngineOK

(* The transfers a process leaves pending are inherited by the next one.    *)
LEMMA RestartIInv == IInv /\ Restart => IInv'
  <1> SUFFICES ASSUME IInv, Restart PROVE IInv'
    OBVIOUS
  <1> USE StreamDmaAssumption
  <1>1. EngineOK'
    BY DEF IInv, TypeOK, EngineOK, BusyNotIdle, PendingOnlyInSync, OwnNotReset, Restart,
           Channels, ChannelState
  <1>2. FifoIsRecent' /\ StepOK' /\ Room'
    BY DEF IInv, FifoIsRecent, StepOK, Room, Destination, TransferSize, Restart
  <1>3. TypeOK'
    <2>1. missed' \in Nat
      BY DEF IInv, TypeOK, FifoIsRecent, Restart
    <2>2. audio' \in Seq(Nat) /\ buffer' \in Seq(Nat)
      BY DEF Restart
    <2>3. /\ pc' = "ctor" /\ step' = 1 /\ bytes' = 0 /\ stop' = FALSE
          /\ inherited' \subseteq Channels /\ restarts' = restarts + 1
          /\ UNCHANGED <<hw, chan, client, memory, fifo, emitted>>
      BY DEF Restart
    <2>4. {bytes', restarts', missed'} \subseteq Nat
      BY <2>1, <2>3 DEF IInv, TypeOK
    <2>5. /\ hw' \in Hardware /\ chan' \in [Channels -> ChannelState(1, MaxWords)]
          /\ client' \in {"record", "datacollection"}
          /\ memory' \in [0..MaxWords -> 0..MaxWords]
          /\ emitted' \in 0..MaxWords /\ fifo' \in Seq(Nat)
      BY <2>3 DEF IInv, TypeOK
    <2>6. step' \in 1..6 /\ stop' \in BOOLEAN /\ inherited' \subseteq Channels
      <3>1. step' = 1
        BY <2>3
      <3>2. step' \in 1..6
        BY <3>1
      <3>3. stop' \in BOOLEAN /\ inherited' \subseteq Channels
        BY <2>3, Zenon
      <3>4. QED
        BY <3>2, <3>3
    <2>7. pc' \in {"ctor", "failed", "loop", "fill", "test", "test2", "receive", "fillsync",
                   "copy", "collect", "send", "sendsync", "done"}
      BY <2>3
    <2>8. QED
      BY <2>2, <2>4, <2>5, <2>6, <2>7 DEF TypeOK
  <1>4. QED
    BY <1>1, <1>2, <1>3 DEF IInv, EngineOK

-------------------------------------------------------------------------------
(* The theorems.                                                            *)

LEMMA StutterIInv == IInv /\ UNCHANGED vars => IInv'
  BY DEF IInv, TypeOK, StepOK, FifoIsRecent, Room, Destination, BusyNotIdle,
         PendingOnlyInSync, OwnNotReset, vars, process

LEMMA NextIInv == IInv /\ [Next]_vars => IInv'
  <1> SUFFICES ASSUME IInv, [Next]_vars PROVE IInv'
    OBVIOUS
  <1>1. CASE Program
    BY <1>1, OpenIInv, ConstructIInv, LoopTestIInv, FillEnterIInv, FillTestIInv,
       FillWriteIInv, FillSyncIInv, FillCopyIInv, CollectIInv, SendWriteIInv, SendSyncIInv
       DEF Program
  <1>2. CASE Progress
    BY <1>2, SwitchesIInv, SentIInv, ReceivedIInv DEF Progress
  <1>3. CASE Drops \/ Handler \/ Restart
    BY <1>3, DropsIInv, HandlerIInv, RestartIInv
  <1>4. CASE UNCHANGED vars
    BY <1>4, StutterIInv
  <1>5. QED
    BY <1>1, <1>2, <1>3, <1>4 DEF Next

LEMMA SpecIInv == Spec => []IInv
  BY InitIInv, NextIInv, PTL DEF Spec

(* Every variable stays in its set, for every engine, every FPGA and any    *)
(* number of processes.                                                     *)
THEOREM TypeCorrect == Spec => []TypeOK
  <1>1. IInv => TypeOK
    BY DEF IInv
  <1>2. QED
    BY <1>1, SpecIInv, PTL

(* The program never writes the registers of a channel, and never computes, *)
(* while a transfer it started is pending: sendData, spoofData and          *)
(* fillBuffer return only when theirs is over (AxiStreamDma.cpp:118-155).   *)
THEOREM NothingPendingElsewhere == Spec => []PendingOnlyInSync
  <1>1. IInv => PendingOnlyInSync
    BY DEF IInv
  <1>2. QED
    BY <1>1, SpecIInv, PTL

(* What a step may not do to the transfers of this process.                 *)
Goes == \A c \in Channels \ inherited : chan[c].left > 0 => chan'[c].left > 0 \/ chan'[c].ioc

LEMMA NextGoes == IInv /\ [Next]_vars => Goes
  <1> SUFFICES ASSUME IInv, [Next]_vars PROVE Goes
    OBVIOUS
  <1>1. CASE UNCHANGED chan
    BY <1>1 DEF Goes
  <1>2. CASE pc \notin {"fillsync", "sendsync"}
    <2>1. \A c \in Channels \ inherited : chan[c].left = 0
      BY <1>2, OutsideSync DEF OnlyInherited
    <2>2. QED
      BY <2>1 DEF Goes
  <1>3. CASE Progress
    <2>1. chan \in Registers(1, MaxWords) /\ UNCHANGED <<pc, inherited>>
      BY <1>3 DEF IInv, TypeOK, Registers, Progress
    <2>2. CASE Switches
      <3>1. PICK d \in Channels : ResetEnds(d) \/ Starts(d) \/ Halts(d)
        BY <2>2 DEF Switches
      <3>2. \A c \in Channels \ {d} : chan'[c] = chan[c]
        BY <2>1, <3>1 DEF Registers, ResetEnds, Starts, Halts
      <3>3. CASE ResetEnds(d)
        BY <3>2, <3>3 DEF Goes, IInv, OwnNotReset, ResetEnds
      <3>4. CASE Starts(d) \/ Halts(d)
        <4>1. chan'[d].left = chan[d].left
          BY <2>1, <3>4 DEF Registers, Starts, Halts, ChannelState
        <4>2. QED
          BY <3>2, <4>1 DEF Goes
      <3>5. QED
        BY <3>1, <3>3, <3>4
    <2>3. CASE \E c \in Channels : Moves(c)
      <3>1. PICK d \in Channels : Moves(d)
        BY <2>3
      <3>2. chan'[d].ioc
        BY <2>1, <3>1, MovesKeeps
      <3>3. \A c \in Channels \ {d} : chan'[c] = chan[c]
        BY <2>1, <3>1, MovesEffect, StreamDmaAssumption
      <3>4. QED
        BY <3>2, <3>3 DEF Goes
    <2>4. QED
      BY <1>3, <2>2, <2>3 DEF Progress, Sent, Received, Channels
  <1>4. CASE Drops
    <2>1. chan \in Registers(1, MaxWords)
      BY DEF IInv, TypeOK, Registers
    <2>2. PICK d \in Channels : IdleEnds(d)
      BY <1>4 DEF Drops
    <2>3. \A c \in Channels : chan'[c].left = chan[c].left
      BY <2>1, <2>2 DEF Registers, IdleEnds, ChannelState
    <2>4. QED
      BY <2>3 DEF Goes
  <1>5. CASE (Program /\ pc \in {"fillsync", "sendsync"}) \/ Handler \/ Restart
    <2>1. UNCHANGED chan
      BY <1>5 DEF Program, Open, Construct, LoopTest, FillEnter, FillTest, FillTest2, FillWrite,
         FillSync, FillCopy, Collect, SpoofWrite, SendWrite, SendSync, Handler, Restart, engine
    <2>2. QED
      BY <1>1, <2>1
  <1>6. QED
    BY <1>1, <1>2, <1>3, <1>4, <1>5 DEF Next, vars

(* Whatever the engine and the FPGA do and however often the program is run *)
(* again, a transfer a process started goes on until it raises IOC          *)
(* (AxiStreamDma.cpp:126-132, 144-150, 162-168).                            *)
THEOREM NoneAborted == Spec => NoTransferAborted
  <1>1. IInv /\ [Next]_vars => [Goes]_vars
    BY NextGoes
  <1>2. [][Goes]_vars => NoTransferAborted
    BY PTL DEF Goes, NoTransferAborted
  <1>3. QED
    BY <1>1, <1>2, SpecIInv, PTL DEF Spec

-------------------------------------------------------------------------------
(* Nothing the FPGA emits is lost, repeated or reordered, and no word is    *)
(* stored behind the others, as long as a reset of the engine is over at    *)
(* the next access: for every FIFO, every FPGA and any number of restarts.  *)


(* The words of the running fillBuffer that are in memory.                  *)
Places == {"test", "test2", "receive", "fillsync", "copy"}
Counted == IF pc \in Places THEN Destination ELSE 0
Stored  == IF pc = "fillsync" /\ chan["s2mm"].ioc THEN 1 ELSE 0
Count   == Counted + Stored

(* While fillBuffer prepares a transfer s2mm is quiet and takes what it     *)
(* writes; while it waits the flag tells whether the word is in memory.     *)
Prepared ==
  pc = "receive" =>
    /\ step > 1 => chan["s2mm"].left = 0 /\ ~chan["s2mm"].ioc
    /\ step > 4 => chan["s2mm"].run
    /\ step > 5 => chan["s2mm"].addr = Destination

Waited ==
  pc = "fillsync" =>
    /\ chan["s2mm"].addr = Destination
    /\ chan["s2mm"].ioc <=> chan["s2mm"].left = 0

(* A transfer of an earlier process can be pending on s2mm until the first  *)
(* transfer of this one, when it has received nothing yet.                  *)
Beginning ==
  "s2mm" \in inherited => audio = <<>> /\ buffer = <<>> /\ bytes = 0 /\ pc # "fillsync"

NoneResetting == \A c \in Channels : ~chan[c].resetting

Regs == NoneResetting /\ Prepared /\ Waited /\ Beginning

(* What main() has, what the driver has, what is in memory and what is in   *)
(* the FIFO follow one another.                                             *)
InOrder ==
  /\ missed + Len(audio) + Len(buffer) + Count + Len(fifo) = emitted
  /\ \A i \in 1..Len(audio) : audio[i] = missed + i
  /\ \A i \in 1..Len(buffer) : buffer[i] = missed + Len(audio) + i
  /\ \A i \in 1..Count : memory[i - 1] = missed + Len(audio) + Len(buffer) + i

(* The FPGA is sent nothing while fillBuffer runs.                          *)
Bounded ==
  /\ Len(fifo) <= FifoSize
  /\ "mm2s" \notin inherited /\ pc \in Places => Count + Len(fifo) <= FifoSize

Ordered == Regs /\ InOrder /\ Bounded

JInv == IInv /\ (hw.instantReset => Ordered)

-------------------------------------------------------------------------------
(* Consecutive words followed by those that come next are consecutive.      *)
LEMMA Consecutive ==
  ASSUME NEW s \in Seq(Nat), NEW t \in Seq(Nat), NEW m \in Nat,
         \A i \in 1..Len(s) : s[i] = m + i,
         \A i \in 1..Len(t) : t[i] = m + Len(s) + i
  PROVE  /\ s \o t \in Seq(Nat)
         /\ Len(s \o t) = Len(s) + Len(t)
         /\ \A i \in 1..(Len(s) + Len(t)) : (s \o t)[i] = m + i
  <1>1. /\ s \o t \in Seq(Nat)
        /\ Len(s \o t) = Len(s) + Len(t)
        /\ \A i \in 1..(Len(s) + Len(t)) :
             (s \o t)[i] = IF i <= Len(s) THEN s[i] ELSE t[i - Len(s)]
    BY ConcatProperties
  <1>2. ASSUME NEW i \in 1..(Len(s) + Len(t))
        PROVE  (s \o t)[i] = m + i
    <2>1. Len(s) \in Nat /\ Len(t) \in Nat
      OBVIOUS
    <2>2. CASE i <= Len(s)
      BY <1>1, <2>1, <2>2
    <2>3. CASE i > Len(s)
      <3>1. i - Len(s) \in 1..Len(t)
        BY <2>1, <2>3
      <3>2. (s \o t)[i] = t[i - Len(s)]
        BY <1>1, <2>1, <2>3
      <3>3. t[i - Len(s)] = m + Len(s) + (i - Len(s))
        BY <3>1
      <3>4. QED
        BY <2>1, <3>2, <3>3
    <2>4. QED
      BY <2>1, <2>2, <2>3
  <1>3. QED
    BY <1>1, <1>2

LEMMA Types ==
  ASSUME IInv
  PROVE  /\ bytes \in Nat /\ missed \in Nat /\ emitted \in 0..MaxWords /\ step \in 1..6
         /\ audio \in Seq(Nat) /\ buffer \in Seq(Nat) /\ fifo \in Seq(Nat)
         /\ Len(audio) \in Nat /\ Len(buffer) \in Nat /\ Len(fifo) \in Nat
         /\ memory \in [0..MaxWords -> 0..MaxWords]
         /\ Destination \in 0..(MaxWords + 1) /\ Count \in Nat
         /\ chan \in Registers(1, MaxWords) /\ hw \in Hardware
         /\ MaxWords \in Nat /\ FifoSize \in Nat
  <1>1. /\ bytes \in Nat /\ missed \in Nat /\ emitted \in 0..MaxWords /\ step \in 1..6
        /\ audio \in Seq(Nat) /\ buffer \in Seq(Nat) /\ fifo \in Seq(Nat)
        /\ memory \in [0..MaxWords -> 0..MaxWords]
        /\ chan \in Registers(1, MaxWords) /\ hw \in Hardware
        /\ MaxWords \in Nat /\ FifoSize \in Nat
    BY StreamDmaAssumption DEF IInv, TypeOK, Registers
  <1>2. Len(audio) \in Nat /\ Len(buffer) \in Nat /\ Len(fifo) \in Nat
    BY <1>1
  <1>3. Destination \in 0..(MaxWords + 1)
    BY <1>1 DEF IInv, Room, Destination, TransferSize
  <1>4. Count \in Nat
    BY <1>1, <1>3 DEF Count, Counted, Stored
  <1>5. QED
    BY <1>1, <1>2, <1>3, <1>4

LEMMA InitOrdered == Init => Ordered
  <1> SUFFICES ASSUME Init PROVE Ordered
    OBVIOUS
  <1>1. Regs
    BY DEF Init, Regs, NoneResetting, Prepared, Waited, Beginning, ResetState
  <1>2. Count = 0
    BY DEF Init, Count, Counted, Stored, Places
  <1>3. InOrder /\ Bounded
    BY <1>2, StreamDmaAssumption DEF Init, InOrder, Bounded, Places
  <1>4. QED
    BY <1>1, <1>3 DEF Ordered

(* A step of the program that touches no register and moves no word.        *)
LEMMA QuietStep ==
  ASSUME IInv, Ordered,
         UNCHANGED <<chan, inherited, audio, buffer, memory, fifo, emitted, missed>>,
         Count' = Count, bytes' \in {0, bytes},
         pc' \notin {"receive", "fillsync"} \/ (pc' = "receive" /\ step' = 1),
         pc' \in Places => Count + Len(fifo) <= FifoSize \/ "mm2s" \in inherited
  PROVE  Ordered'
  <1>1. Regs'
    BY DEF Ordered, Regs, NoneResetting, Prepared, Waited, Beginning
  <1>2. InOrder' /\ Bounded'
    BY DEF Ordered, InOrder, Bounded
  <1>3. QED
    BY <1>1, <1>2 DEF Ordered

LEMMA ElsewhereOrdered ==
  ASSUME IInv, Ordered, Open \/ LoopTest \/ SendSync \/ FillTest \/ FillTest2
  PROVE  Ordered'
  <1>1. /\ UNCHANGED <<chan, inherited, audio, buffer, memory, fifo, emitted, missed, bytes>>
        /\ pc # "fillsync" /\ pc' # "fillsync"
        /\ pc' \in Places <=> pc \in Places
        /\ pc' = "receive" => pc = "test2" /\ step' = step
    BY DEF Open, LoopTest, SendSync, FillTest, FillTest2, Goto, engine, program, stream, Places
  <1>2. Count' = Count
    BY <1>1 DEF Count, Counted, Stored, Destination
  <1>3. pc' = "receive" => step' = 1
    BY <1>1 DEF IInv, StepOK
  <1>4. QED
    BY <1>1, <1>2, <1>3, QuietStep DEF Ordered, Bounded

LEMMA FillEnterOrdered == ASSUME IInv, Ordered, FillEnter PROVE Ordered'
  <1>1. /\ UNCHANGED <<chan, inherited, audio, buffer, memory, fifo, emitted, missed>>
        /\ pc = "fill" /\ pc' = "test" /\ bytes' = 0
    BY DEF FillEnter, Goto, engine, stream
  <1>2. Count = 0 /\ Count' = 0
    BY <1>1 DEF Count, Counted, Stored, Destination, Places, TransferSize
  <1>3. QED
    BY <1>1, <1>2, QuietStep, Types DEF Ordered, Bounded

LEMMA HandlerOrdered == ASSUME IInv, Ordered, Handler PROVE Ordered'
  BY DEF Ordered, Regs, NoneResetting, Prepared, Waited, Beginning, InOrder, Bounded, Count,
         Counted, Stored, Destination, Places, Handler, engine, stream

LEMMA FillSyncOrdered == ASSUME IInv, Ordered, FillSync PROVE Ordered'
  <1>1. /\ UNCHANGED <<chan, inherited, audio, buffer, memory, fifo, emitted, missed>>
        /\ pc = "fillsync" /\ pc' = "test" /\ bytes' = bytes + 4 /\ chan["s2mm"].ioc
    BY DEF FillSync, Goto, engine, stream, Synced, TransferSize
  <1>2. Count' = Count
    BY <1>1, Types DEF Count, Counted, Stored, Destination, Places, TransferSize
  <1>3. Regs'
    BY <1>1 DEF Ordered, Regs, NoneResetting, Prepared, Waited, Beginning
  <1>4. InOrder' /\ Bounded'
    BY <1>1, <1>2 DEF Ordered, InOrder, Bounded, Places
  <1>5. QED
    BY <1>3, <1>4 DEF Ordered

(* The copy takes the words from memory to the buffer, main() from there.   *)
LEMMA FillCopyOrdered == ASSUME IInv, Ordered, FillCopy PROVE Ordered'
  <1>1. /\ UNCHANGED <<chan, inherited, audio, bytes, memory, fifo, emitted, missed>>
        /\ pc = "copy" /\ pc' = "collect"
        /\ buffer' = IF bytes > 0 THEN buffer \o Copied ELSE buffer
    BY DEF FillCopy, Goto, engine, stream
  <1>2. Count = Destination /\ Count' = 0
    BY <1>1, Types DEF Count, Counted, Stored, Places
  <1>3. /\ Copied \in Seq(Nat) /\ Len(Copied) = Destination
        /\ \A i \in 1..Destination : Copied[i] = memory[i - 1]
    BY CopiedWords, Types DEF Copied, Destination
  <1>4. Regs'
    BY <1>1 DEF Ordered, Regs, NoneResetting, Prepared, Waited, Beginning
  <1>5. /\ Len(buffer') = Len(buffer) + Destination
        /\ \A i \in 1..(Len(buffer) + Destination) : buffer'[i] = missed + Len(audio) + i
    <2>1. CASE bytes > 0
      <3>1. buffer' = buffer \o Copied
        BY <1>1, <2>1
      <3>2. /\ \A i \in 1..Len(buffer) : buffer[i] = (missed + Len(audio)) + i
            /\ \A i \in 1..Len(Copied) : Copied[i] = (missed + Len(audio)) + Len(buffer) + i
        BY <1>2, <1>3 DEF Ordered, InOrder
      <3>3. missed + Len(audio) \in Nat /\ buffer \in Seq(Nat)
        BY Types
      <3>4. QED
        BY <1>3, <3>1, <3>2, <3>3, Consecutive
    <2>2. CASE bytes = 0
      <3>1. Destination = 0 /\ buffer' = buffer
        BY <1>1, <2>2 DEF Destination, TransferSize
      <3>2. QED
        BY <3>1, Types DEF Ordered, InOrder
    <2>3. QED
      BY <2>1, <2>2, Types
  <1>6. InOrder'
    <2>1. missed + Len(audio) + Len(buffer) + Destination + Len(fifo) = emitted
          /\ \A i \in 1..Len(audio) : audio[i] = missed + i
      BY <1>2 DEF Ordered, InOrder
    <2>2. /\ Len(audio) \in Nat /\ Len(buffer) \in Nat /\ Len(fifo) \in Nat
          /\ missed \in Nat /\ emitted \in Nat /\ Destination \in Nat
      BY Types
    <2>3. missed' + Len(audio') + Len(buffer') + Count' + Len(fifo') = emitted'
      <3>1. UNCHANGED <<missed, audio, fifo, emitted>> /\ Count' = 0
        BY <1>1, <1>2
      <3>2. Len(buffer') = Len(buffer) + Destination
        BY <1>5
      <3>3. Len(audio') = Len(audio) /\ Len(fifo') = Len(fifo)
        BY <3>1
      <3> DEFINE a == Len(audio)
                 b == Len(buffer)
                 d == Destination
                 f == Len(fifo)
      <3>4. /\ a \in Nat /\ b \in Nat /\ d \in Nat /\ f \in Nat
            /\ missed + a + b + d + f = emitted
        BY <2>1, <2>2
      <3> HIDE DEF a, b, d, f
      <3>5. missed + a + (b + d) + 0 + f = emitted
        BY <2>2, <3>4
      <3>6. QED
        BY <3>1, <3>2, <3>3, <3>5 DEF a, b, d, f
    <2>4. \A i \in 1..Len(audio') : audio'[i] = missed' + i
      BY <1>1, <2>1
    <2>5. \A i \in 1..Len(buffer') : buffer'[i] = missed' + Len(audio') + i
      BY <1>1, <1>5
    <2>6. \A i \in 1..Count' : memory'[i - 1] = missed' + Len(audio') + Len(buffer') + i
      BY <1>2
    <2>7. QED
      BY <2>3, <2>4, <2>5, <2>6 DEF InOrder
  <1>7. Bounded'
    BY <1>1 DEF Ordered, Bounded, Places
  <1>8. QED
    BY <1>4, <1>6, <1>7 DEF Ordered

LEMMA CollectOrdered == ASSUME IInv, Ordered, Collect PROVE Ordered'
  <1>1. /\ UNCHANGED <<chan, inherited, memory, fifo, emitted, missed>>
        /\ pc = "collect" /\ pc' = "send" /\ bytes' = 0
        /\ \/ audio' = audio \o buffer /\ buffer' = <<>> /\ bytes > 0
           \/ UNCHANGED <<audio, buffer>>
    BY DEF Collect, Goto, engine, stream
  <1>2. Count = 0 /\ Count' = 0
    BY <1>1 DEF Count, Counted, Stored, Places
  <1>3. Regs'
    BY <1>1, Types DEF Ordered, Regs, NoneResetting, Prepared, Waited, Beginning
  <1>4. InOrder'
    <2>1. CASE UNCHANGED <<audio, buffer>>
      BY <1>1, <1>2, <2>1, Types DEF Ordered, InOrder
    <2>2. CASE audio' = audio \o buffer /\ buffer' = <<>>
      <3>1. /\ \A i \in 1..Len(audio) : audio[i] = missed + i
            /\ \A i \in 1..Len(buffer) : buffer[i] = missed + Len(audio) + i
        BY DEF Ordered, InOrder
      <3>2. /\ Len(audio') = Len(audio) + Len(buffer) /\ Len(buffer') = 0
            /\ \A i \in 1..(Len(audio) + Len(buffer)) : audio'[i] = missed + i
        <4>1. audio \in Seq(Nat) /\ buffer \in Seq(Nat) /\ missed \in Nat
          BY Types
        <4>2. /\ Len(audio \o buffer) = Len(audio) + Len(buffer)
              /\ \A i \in 1..(Len(audio) + Len(buffer)) : (audio \o buffer)[i] = missed + i
          BY <3>1, <4>1, Consecutive
        <4>3. QED
          BY <2>2, <4>2
      <3>3. QED
        BY <1>1, <1>2, <3>2, Types DEF Ordered, InOrder
    <2>3. QED
      BY <1>1, <2>1, <2>2
  <1>5. Bounded'
    BY <1>1 DEF Ordered, Bounded, Places
  <1>6. QED
    BY <1>3, <1>4, <1>5 DEF Ordered

-------------------------------------------------------------------------------
(* Steps that write registers.                                              *)

LEMMA ConstructOrdered == ASSUME IInv, Ordered, Construct PROVE Ordered'
  <1>1. /\ UNCHANGED <<inherited, audio, buffer, bytes, memory, fifo, emitted, missed>>
        /\ pc = "ctor" /\ pc' \in {"ctor", "loop", "send"}
    BY DEF Construct, program, stream
  <1>2. \A d \in Channels : chan'[d].resetting = chan[d].resetting
    <2>1. PICK c \in Channels : WriteRun(c, TRUE)
      BY DEF Construct, Channels
    <2>2. QED
      BY <2>1, Types, WriteRunEffect
  <1>3. Count = 0 /\ Count' = 0
    BY <1>1 DEF Count, Counted, Stored, Places
  <1>4. Regs'
    BY <1>1, <1>2 DEF Ordered, Regs, NoneResetting, Prepared, Waited, Beginning
  <1>5. InOrder' /\ Bounded'
    BY <1>1, <1>3 DEF Ordered, InOrder, Bounded, Places
  <1>6. QED
    BY <1>4, <1>5 DEF Ordered

(* With a reset that is over at once each of the six writes does what it is *)
(* meant to.                                                                *)
LEMMA StartTransferWorks ==
  ASSUME IInv, NoneResetting, hw.instantReset,
         NEW c \in Channels, NEW w \in 0..MaxWords, StartTransfer(c, w)
  PROVE  /\ NoneResetting'
         /\ inherited' \subseteq inherited
         /\ step = 1 => chan'[c].left = 0 /\ ~chan'[c].ioc
         /\ step \in 2..5 => /\ chan[c].left = 0 => chan'[c].left = 0
                             /\ ~chan[c].ioc => ~chan'[c].ioc
         /\ step = 4 => chan'[c].run
         /\ step = 5 => chan'[c].run = chan[c].run /\ chan'[c].addr = w
         /\ step = 6 /\ chan[c].run =>
              /\ c \notin inherited'
              /\ chan'[c].left = 1 /\ chan'[c].ioc = chan[c].ioc
              /\ chan'[c].addr = chan[c].addr
  <1>1. chan \in Registers(1, MaxWords) /\ hw \in Hardware /\ MaxWords \in Nat /\ 1 \in Nat
    BY Types
  <1>2. CASE step = 1
    <2>1. WriteReset(c) /\ inherited' = inherited
      BY <1>2 DEF StartTransfer
    <2>2. /\ chan'[c] = ResetState
          /\ \A d \in Channels : chan'[d] \in {chan[d], ResetState}
      BY <1>1, <2>1, WriteResetEffect
    <2>3. ResetState.left = 0 /\ ~ResetState.ioc /\ ~ResetState.resetting
      BY DEF ResetState
    <2>4. QED
      BY <1>2, <2>1, <2>2, <2>3 DEF NoneResetting
  <1>3. CASE step \in {2, 3}
    <2>1. step # 1 /\ step # 4 /\ step # 5 /\ step # 6
      BY <1>3
    <2>2. WriteRun(c, FALSE) /\ inherited' = inherited
      BY <2>1, Zenon DEF StartTransfer
    <2>3. /\ \A d \in Channels : NoNews(d) /\ chan'[d].left = chan[d].left
          /\ \A d \in Channels : chan'[d].resetting = chan[d].resetting
      BY <1>1, <2>2, WriteRunEffect
    <2>4. QED
      BY <2>1, <2>2, <2>3 DEF NoneResetting, NoNews
  <1>4. CASE step = 4
    <2>1. step \notin {2, 3} /\ step # 1 /\ step # 5 /\ step # 6
      BY <1>4
    <2>2. WriteRun(c, TRUE) /\ inherited' = inherited
      BY <2>1, Zenon DEF StartTransfer
    <2>3. /\ \A d \in Channels : NoNews(d) /\ chan'[d].left = chan[d].left
          /\ \A d \in Channels : chan'[d].resetting = chan[d].resetting
          /\ ~chan[c].resetting => chan'[c].run = TRUE
      BY <1>1, <2>2, WriteRunEffect
    <2>4. QED
      BY <1>4, <2>2, <2>3 DEF NoneResetting, NoNews
  <1>5. CASE step = 5
    <2>1. WriteAddress(c, w) /\ inherited' = inherited
      BY <1>5 DEF StartTransfer
    <2>2. /\ \A d \in Channels : NoNews(d) /\ chan'[d].left = chan[d].left
          /\ \A d \in Channels : /\ chan'[d].resetting = chan[d].resetting
                                 /\ chan'[d].run = chan[d].run
          /\ ~chan[c].resetting => chan'[c].addr = w
      BY <1>1, <2>1, WriteAddressEffect
    <2>3. QED
      BY <1>5, <2>1, <2>2 DEF NoneResetting, NoNews
  <1>6. CASE step = 6
    <2>1. /\ WriteLength(c, 1)
          /\ inherited' = IF Arms(c) THEN inherited \ {c} ELSE inherited
      BY <1>6 DEF StartTransfer
    <2>2. /\ \A d \in Channels : /\ chan'[d].resetting = chan[d].resetting
                                 /\ chan'[d].addr = chan[d].addr
                                 /\ chan'[d].ioc = chan[d].ioc
          /\ Arms(c) => chan'[c].left = 1
      <3>1. 1 \in 0..1
        OBVIOUS
      <3>2. QED
        BY <1>1, <2>1, <3>1, WriteLengthEffect
    <2>3. chan[c].run => Arms(c)
      BY DEF Arms, NoneResetting
    <2>4. QED
      BY <1>6, <2>1, <2>2, <2>3 DEF NoneResetting
  <1>7. step \in 1..6
    BY Types
  <1>8. step = 1 \/ step \in {2, 3} \/ step = 4 \/ step = 5 \/ step = 6
    BY <1>7
  <1>9. QED
    BY <1>2, <1>3, <1>4, <1>5, <1>6, <1>8

LEMMA SendWriteOrdered ==
  ASSUME IInv, Ordered, hw.instantReset, SpoofWrite \/ SendWrite
  PROVE  Ordered'
  <1>1. /\ UNCHANGED <<audio, buffer, bytes, memory, fifo, emitted, missed>>
        /\ pc = "send" /\ pc' \in {"send", "sendsync"}
        /\ StartTransfer("mm2s", 0)
    BY DEF SpoofWrite, SendWrite, NextWrite, program, stream
  <1>2. NoneResetting' /\ inherited' \subseteq inherited
    <2>1. "mm2s" \in Channels /\ 0 \in 0..MaxWords
      BY Types DEF Channels
    <2>2. QED
      BY <1>1, <2>1, StartTransferWorks DEF Ordered, Regs
  <1>3. Count = 0 /\ Count' = 0
    BY <1>1 DEF Count, Counted, Stored, Places
  <1>4. Regs'
    BY <1>1, <1>2 DEF Ordered, Regs, Prepared, Waited, Beginning
  <1>5. InOrder' /\ Bounded'
    BY <1>1, <1>3 DEF Ordered, InOrder, Bounded, Places
  <1>6. QED
    BY <1>4, <1>5 DEF Ordered

LEMMA FillWriteOrdered ==
  ASSUME IInv, Ordered, hw.instantReset, FillWrite
  PROVE  Ordered'
  <1>1. /\ UNCHANGED <<audio, buffer, bytes, memory, fifo, emitted, missed>>
        /\ pc = "receive"
        /\ StartTransfer("s2mm", Destination)
        /\ step < 6 => pc' = "receive" /\ step' = step + 1
        /\ ~(step < 6) => pc' = "fillsync" /\ step' = 1
    BY DEF FillWrite, NextWrite, program, stream
  <1>2. "s2mm" \in Channels /\ Destination \in 0..MaxWords /\ Destination' = Destination
    BY <1>1, Types DEF Channels, FillWrite, Destination
  <1>3. step \in {1, 2, 3, 4, 5, 6}
    BY Types
  <1>4. Prepared /\ NoneResetting
    BY DEF Ordered, Regs
  <1>5. /\ NoneResetting'
        /\ inherited' \subseteq inherited
        /\ step = 1 => chan'["s2mm"].left = 0 /\ ~chan'["s2mm"].ioc
        /\ step \in 2..5 => /\ chan["s2mm"].left = 0 => chan'["s2mm"].left = 0
                            /\ ~chan["s2mm"].ioc => ~chan'["s2mm"].ioc
        /\ step = 4 => chan'["s2mm"].run
        /\ step = 5 => chan'["s2mm"].run = chan["s2mm"].run /\ chan'["s2mm"].addr = Destination
        /\ step = 6 /\ chan["s2mm"].run =>
             /\ "s2mm" \notin inherited'
             /\ chan'["s2mm"].left = 1 /\ chan'["s2mm"].ioc = chan["s2mm"].ioc
             /\ chan'["s2mm"].addr = chan["s2mm"].addr
    BY <1>1, <1>2, <1>4, StartTransferWorks
  <1>6. Regs' /\ Count' = Count
    <2>1. CASE step < 6
      <3>1. Prepared'
        BY <1>1, <1>2, <1>3, <1>4, <1>5, <2>1 DEF Prepared
      <3>2. Waited' /\ Beginning'
        BY <1>1, <1>5, <2>1 DEF Ordered, Regs, Waited, Beginning
      <3>3. Count' = Count
        BY <1>1, <1>2, <2>1 DEF Count, Counted, Stored, Places
      <3>4. QED
        BY <1>5, <3>1, <3>2, <3>3 DEF Regs
    <2>2. CASE step = 6
      <3>1. /\ chan["s2mm"].run /\ chan["s2mm"].addr = Destination
            /\ ~chan["s2mm"].ioc
        BY <1>1, <1>4, <2>2 DEF Prepared
      <3>2. /\ "s2mm" \notin inherited'
            /\ chan'["s2mm"].left = 1 /\ ~chan'["s2mm"].ioc
            /\ chan'["s2mm"].addr = Destination
            /\ pc' = "fillsync"
        BY <1>1, <1>5, <2>2, <3>1
      <3>3. Prepared' /\ Waited' /\ Beginning'
        BY <1>2, <3>2 DEF Prepared, Waited, Beginning
      <3>4. Count' = Count
        BY <1>1, <1>2, <3>2 DEF Count, Counted, Stored, Places
      <3>5. QED
        BY <1>5, <3>3, <3>4 DEF Regs
    <2>3. QED
      BY <1>3, <2>1, <2>2
  <1>7. InOrder'
    BY <1>1, <1>6 DEF Ordered, InOrder
  <1>8. Bounded'
    <2>1. "mm2s" \in inherited => "mm2s" \in inherited'
      BY DEF FillWrite, StartTransfer
    <2>2. pc \in Places
      BY <1>1 DEF Places
    <2>3. QED
      BY <1>1, <1>6, <2>1, <2>2 DEF Ordered, Bounded
  <1>9. QED
    BY <1>6, <1>7, <1>8 DEF Ordered

-------------------------------------------------------------------------------
(* Steps of the engine.                                                     *)

(* What only makes a channel halt, go on or cease to be idle.               *)
LEMMA FlagsOrdered ==
  ASSUME IInv, Ordered,
         UNCHANGED <<pc, step, inherited, bytes, audio, buffer, memory, fifo, emitted, missed>>,
         \A d \in Channels : /\ ~chan'[d].resetting
                             /\ chan'[d].left = chan[d].left
                             /\ chan'[d].run = chan[d].run
                             /\ chan'[d].addr = chan[d].addr
                             /\ chan'[d].ioc = chan[d].ioc
  PROVE  Ordered'
  <1>1. "s2mm" \in Channels
    BY DEF Channels
  <1>2. Count' = Count
    BY <1>1 DEF Count, Counted, Stored, Destination
  <1>3. Regs'
    BY <1>1 DEF Ordered, Regs, NoneResetting, Prepared, Waited, Beginning, Destination
  <1>4. InOrder' /\ Bounded'
    BY <1>2 DEF Ordered, InOrder, Bounded
  <1>5. QED
    BY <1>3, <1>4 DEF Ordered

LEMMA SwitchesOrdered ==
  ASSUME IInv, Ordered, Switches, UNCHANGED <<stream, hw, pc, step, inherited, program>>
  PROVE  Ordered'
  <1>1. \A d \in Channels : ~chan[d].resetting
    BY DEF Ordered, Regs, NoneResetting
  <1>2. QED
    BY <1>1, Types, SwitchesEffect, FlagsOrdered DEF stream, program

LEMMA DropsOrdered == ASSUME IInv, Ordered, Drops PROVE Ordered'
  <1>1. PICK c \in Channels : IdleEnds(c)
    BY DEF Drops
  <1>2. \A d \in Channels : ~chan[d].resetting
    BY DEF Ordered, Regs, NoneResetting
  <1>3. QED
    BY <1>1, <1>2, Types, IdleEndsEffect, FlagsOrdered DEF Drops, stream, program

(* What the FPGA emits goes to the end of the FIFO.                         *)
LEMMA SentOrdered ==
  ASSUME IInv, Ordered, NEW n \in Emits, Sent(n), UNCHANGED <<hw, pc, step, inherited, program>>
  PROVE  Ordered'
  <1>1. /\ UNCHANGED <<pc, step, inherited, bytes, audio, buffer, memory, missed>>
        /\ Moves("mm2s") /\ "mm2s" \in Channels /\ "s2mm" \in Channels
        /\ emitted' = emitted + n /\ Len(fifo) + n <= FifoSize /\ n \in Nat
    BY StreamDmaAssumption DEF Sent, program, Channels
  <1>2. Len(fifo') = Len(fifo) + n
    <2>1. fifo \in Seq(Nat) /\ [i \in 1..n |-> emitted + i] \in Seq(Nat)
      BY <1>1, Types
    <2>2. fifo' = fifo \o [i \in 1..n |-> emitted + i]
      BY DEF Sent
    <2>3. QED
      BY <1>1, <2>1, <2>2
  <1>3. /\ chan["mm2s"].left > 0
        /\ chan'["mm2s"].resetting = chan["mm2s"].resetting
        /\ chan'["s2mm"] = chan["s2mm"]
    BY <1>1, Types, MovesEffect
  <1>4. Count' = Count
    BY <1>1, <1>3 DEF Count, Counted, Stored, Destination
  <1>5. Regs'
    BY <1>1, <1>3 DEF Ordered, Regs, NoneResetting, Prepared, Waited, Beginning, Destination,
                      Channels
  <1>6. InOrder'
    BY <1>1, <1>2, <1>4, Types DEF Ordered, InOrder
  <1>7. Bounded'
    BY <1>1, <1>2, <1>3 DEF IInv, PendingOnlyInSync, Bounded, Places
  <1>8. QED
    BY <1>5, <1>6, <1>7 DEF Ordered

(* What s2mm receives follows what is in memory, or was the word of an      *)
(* earlier process.                                                         *)
LEMMA ReceivedOrdered ==
  ASSUME IInv, Ordered, Received, UNCHANGED <<hw, pc, step, inherited, program>>
  PROVE  Ordered'
  <1>1. /\ UNCHANGED <<pc, step, inherited, bytes, audio, buffer, emitted>>
        /\ Moves("s2mm") /\ "mm2s" \in Channels /\ "s2mm" \in Channels
        /\ memory' = [memory EXCEPT ![chan["s2mm"].addr] = Head(fifo)]
        /\ missed' = IF "s2mm" \in inherited THEN missed + 1 ELSE missed
        /\ Destination' = Destination
    BY DEF Received, program, Channels, Destination
  <1>2. /\ chan["s2mm"].left = 1 /\ chan'["s2mm"].left = 0 /\ chan'["s2mm"].ioc
    BY <1>1, MovesKeeps
  <1>3. /\ chan'["s2mm"].resetting = chan["s2mm"].resetting
        /\ chan'["s2mm"].run = chan["s2mm"].run
        /\ chan'["s2mm"].addr = chan["s2mm"].addr
        /\ chan'["mm2s"] = chan["mm2s"]
    BY <1>1, Types, MovesEffect
  <1>4. /\ Len(fifo) \in Nat \ {0} /\ Len(fifo') = Len(fifo) - 1
        /\ Head(fifo) = emitted - Len(fifo) + 1 /\ emitted \in Nat
    BY ReceivedWord
  <1>5. Regs'
    BY <1>1, <1>2, <1>3
       DEF Ordered, Regs, NoneResetting, Prepared, Waited, Beginning, Channels
  <1>6. CASE "s2mm" \in inherited
    <2>1. audio = <<>> /\ buffer = <<>> /\ bytes = 0 /\ pc # "fillsync"
      BY <1>6 DEF Ordered, Regs, Beginning
    <2>2. Count = 0 /\ Count' = 0
      BY <1>1, <2>1 DEF Count, Counted, Stored, Destination, TransferSize
    <2>3. InOrder'
      BY <1>1, <1>4, <1>6, <2>1, <2>2, Types DEF Ordered, InOrder
    <2>4. Bounded'
      BY <1>1, <1>4, <2>2, Types DEF Ordered, Bounded
    <2>5. QED
      BY <1>5, <2>3, <2>4 DEF Ordered
  <1>7. CASE "s2mm" \notin inherited
    <2>1. pc = "fillsync" /\ chan["s2mm"].addr = Destination /\ ~chan["s2mm"].ioc
      BY <1>2, <1>7 DEF IInv, PendingOnlyInSync, Ordered, Regs, Waited
    <2>2. Count = Destination /\ Count' = Destination + 1 /\ Destination \in 0..MaxWords
      BY <1>1, <1>2, <2>1, Types DEF Count, Counted, Stored, Places, IInv, Room
    <2>3. InOrder'
      <3>1. missed + Len(audio) + Len(buffer) + Destination + Len(fifo) = emitted
        BY <2>2 DEF Ordered, InOrder
      <3>2. missed' + Len(audio') + Len(buffer') + Count' + Len(fifo') = emitted'
        BY <1>1, <1>4, <1>7, <2>2, <3>1, Types
      <3>3. Head(fifo) = missed + Len(audio) + Len(buffer) + (Destination + 1)
        <4>1. /\ missed \in Nat /\ Len(audio) \in Nat /\ Len(buffer) \in Nat
              /\ Destination \in Nat /\ Len(fifo) \in Nat
          BY <2>2, Types
        <4>2. QED
          BY <1>4, <3>1, <4>1
      <3>4. \A i \in 1..(Destination + 1) :
              memory'[i - 1] = missed + Len(audio) + Len(buffer) + i
        <4>1. TAKE i \in 1..(Destination + 1)
        <4>2. CASE i = Destination + 1
          BY <1>1, <2>1, <2>2, <3>3, <4>2, Types
        <4>3. CASE i \in 1..Destination
          <5>1. memory'[i - 1] = memory[i - 1]
            BY <1>1, <2>1, <2>2, <4>3, Types
          <5>2. QED
            BY <2>2, <4>3, <5>1 DEF Ordered, InOrder
        <4>4. QED
          BY <2>2, <4>2, <4>3
      <3>5. QED
        BY <1>1, <1>7, <2>2, <3>2, <3>4 DEF Ordered, InOrder
    <2>4. Bounded'
      BY <1>1, <1>4, <2>2, Types DEF Ordered, Bounded
    <2>5. QED
      BY <1>5, <2>3, <2>4 DEF Ordered
  <1>8. QED
    BY <1>6, <1>7

(* A new process begins with nothing, after the last word received.         *)
LEMMA RestartOrdered == ASSUME IInv, Ordered, Restart PROVE Ordered'
  <1>1. /\ pc' = "ctor" /\ bytes' = 0 /\ audio' = <<>> /\ buffer' = <<>>
        /\ UNCHANGED <<chan, memory, fifo, emitted>> /\ missed' = emitted - Len(fifo)
    BY DEF Restart
  <1>2. Count' = 0
    BY <1>1 DEF Count, Counted, Stored, Places
  <1>3. Regs'
    BY <1>1 DEF Ordered, Regs, NoneResetting, Prepared, Waited, Beginning
  <1>4. InOrder'
    BY <1>1, <1>2, Types DEF InOrder, IInv, FifoIsRecent
  <1>5. Bounded'
    BY <1>1 DEF Ordered, Bounded, Places
  <1>6. QED
    BY <1>3, <1>4, <1>5 DEF Ordered

-------------------------------------------------------------------------------
(* The theorems.                                                            *)

LEMMA StutterOrdered == ASSUME IInv, Ordered, UNCHANGED vars PROVE Ordered'
  BY DEF Ordered, Regs, NoneResetting, Prepared, Waited, Beginning, InOrder, Bounded, Count,
         Counted, Stored, Destination, vars

LEMMA NextJInv == JInv /\ [Next]_vars => JInv'
  <1> SUFFICES ASSUME JInv, [Next]_vars PROVE JInv'
    OBVIOUS
  <1>1. IInv /\ IInv'
    BY NextIInv DEF JInv
  <1>2. hw' = hw
    BY DEF Next, Program, Open, Construct, LoopTest, FillEnter, FillTest, FillTest2, FillWrite,
           FillSync, FillCopy, Collect, SpoofWrite, SendWrite, SendSync, Progress, Drops,
           Handler, Restart, vars
  <1>3. ASSUME hw.instantReset PROVE Ordered'
    <2>1. Ordered
      BY <1>3 DEF JInv
    <2>2. CASE Program
      BY <1>1, <1>3, <2>1, <2>2, ElsewhereOrdered, ConstructOrdered, FillEnterOrdered,
         FillWriteOrdered, FillSyncOrdered, FillCopyOrdered, CollectOrdered, SendWriteOrdered
         DEF Program
    <2>3. CASE Progress
      BY <1>1, <2>1, <2>3, SwitchesOrdered, SentOrdered, ReceivedOrdered DEF Progress
    <2>4. CASE Drops \/ Handler \/ Restart
      BY <1>1, <2>1, <2>4, DropsOrdered, HandlerOrdered, RestartOrdered
    <2>5. CASE UNCHANGED vars
      BY <1>1, <2>1, <2>5, StutterOrdered
    <2>6. QED
      BY <2>2, <2>3, <2>4, <2>5 DEF Next
  <1>4. QED
    BY <1>1, <1>2, <1>3 DEF JInv

LEMMA SpecJInv == Spec => []JInv
  <1>1. Init => JInv
    BY InitIInv, InitOrdered DEF JInv
  <1>2. QED
    BY <1>1, NextJInv, PTL DEF Spec

(* The words of memory Landed speaks of are those that were counted.        *)
LEMMA LandedWords ==
  ASSUME IInv
  PROVE  Landed = [i \in 1..Count |-> memory[i - 1]]
  BY DEF Landed, Count, Counted, Stored, Places, Destination

LEMMA OrderedInOrder ==
  ASSUME IInv, Ordered
  PROVE  audio \o buffer \o Landed \o fifo
           = [i \in 1..(emitted - missed) |-> missed + i]
  <1> DEFINE got == audio \o buffer
             taken == got \o Landed
             all == taken \o fifo
  <1>1. /\ audio \in Seq(Nat) /\ buffer \in Seq(Nat) /\ fifo \in Seq(Nat)
        /\ missed \in Nat /\ emitted \in Nat /\ Count \in Nat
        /\ Len(audio) \in Nat /\ Len(buffer) \in Nat /\ Len(fifo) \in Nat
    BY Types
  <1>2. /\ missed + Len(audio) + Len(buffer) + Count + Len(fifo) = emitted
        /\ \A i \in 1..Len(audio) : audio[i] = missed + i
        /\ \A i \in 1..Len(buffer) : buffer[i] = missed + Len(audio) + i
        /\ \A i \in 1..Count : memory[i - 1] = missed + Len(audio) + Len(buffer) + i
    BY DEF Ordered, InOrder
  <1>3. /\ got \in Seq(Nat) /\ Len(got) = Len(audio) + Len(buffer)
        /\ \A i \in 1..Len(got) : got[i] = missed + i
    BY <1>1, <1>2, Consecutive
  <1> HIDE DEF got
  <1>4. /\ Landed \in Seq(Nat) /\ Len(Landed) = Count
        /\ \A i \in 1..Len(Landed) : Landed[i] = missed + Len(got) + i
    <2>1. Landed = [i \in 1..Count |-> missed + Len(got) + i]
      <3>1. \A i \in 1..Count : memory[i - 1] = missed + Len(got) + i
        BY <1>1, <1>2, <1>3
      <3>2. QED
        BY <3>1, LandedWords
    <2>2. QED
      BY <1>1, <1>3, <2>1
  <1>5. /\ taken \in Seq(Nat) /\ Len(taken) = Len(got) + Count
        /\ \A i \in 1..Len(taken) : taken[i] = missed + i
    <2>1. /\ got \o Landed \in Seq(Nat)
          /\ Len(got \o Landed) = Len(got) + Len(Landed)
          /\ \A i \in 1..(Len(got) + Len(Landed)) : (got \o Landed)[i] = missed + i
      BY <1>1, <1>3, <1>4, Consecutive
    <2>2. QED
      BY <1>4, <2>1
  <1> HIDE DEF taken
  <1>6. \A i \in 1..Len(fifo) : fifo[i] = missed + Len(taken) + i
    <2>1. \A i \in 1..Len(fifo) : fifo[i] = emitted - Len(fifo) + i
      BY DEF IInv, FifoIsRecent
    <2>2. emitted - Len(fifo) = missed + Len(taken)
      BY <1>1, <1>2, <1>3, <1>5
    <2>3. QED
      BY <2>1, <2>2
  <1>7. /\ all \in Seq(Nat) /\ Len(all) = Len(taken) + Len(fifo)
        /\ \A i \in 1..Len(all) : all[i] = missed + i
    <2>1. /\ taken \o fifo \in Seq(Nat)
          /\ Len(taken \o fifo) = Len(taken) + Len(fifo)
          /\ \A i \in 1..(Len(taken) + Len(fifo)) : (taken \o fifo)[i] = missed + i
      BY <1>1, <1>5, <1>6, Consecutive
    <2>2. QED
      BY <2>1
  <1> HIDE DEF all
  <1>8. Len(all) = emitted - missed
    BY <1>1, <1>2, <1>3, <1>5, <1>7
  <1>9. all = [i \in 1..(emitted - missed) |-> missed + i]
    BY <1>7, <1>8
  <1>10. QED
    BY <1>9 DEF all, taken, got

(* Nothing the FPGA emits is lost, repeated or reordered on its way to      *)
(* main(), for every FIFO, every FPGA, every number of words and any number *)
(* of restarts (AxiStreamDma.cpp:100-116, 157-182, main.cpp:162-176).       *)
THEOREM NothingLost == Spec => []WordsInOrder
  <1>1. JInv => WordsInOrder
    BY OrderedInOrder DEF JInv, WordsInOrder
  <1>2. QED
    BY <1>1, SpecJInv, PTL

(* The transfer fillBuffer waits for stores its word among the first        *)
(* FifoSize + 1 of its memory (AxiStreamDma.cpp:166).                       *)
THEOREM StaysNearBase == Spec => []WritesNearBase
  <1>1. JInv => WritesNearBase
    <2>1. SUFFICES ASSUME IInv, Ordered, inherited = {}, chan["s2mm"].left > 0
                   PROVE  chan["s2mm"].addr <= FifoSize
      BY DEF JInv, WritesNearBase
    <2>2. pc = "fillsync"
      BY <2>1 DEF IInv, PendingOnlyInSync
    <2>3. chan["s2mm"].addr = Destination /\ ~chan["s2mm"].ioc
      BY <2>1, <2>2 DEF Ordered, Regs, Waited
    <2>4. Count = Destination /\ Count + Len(fifo) <= FifoSize
      BY <2>1, <2>2, <2>3, Types DEF Count, Counted, Stored, Places, Ordered, Bounded
    <2>5. QED
      BY <2>1, <2>3, <2>4, Types
  <1>2. QED
    BY <1>1, SpecJInv, PTL
=============================================================================
