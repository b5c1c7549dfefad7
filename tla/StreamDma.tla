------------------------------ MODULE StreamDma ------------------------------
(***************************************************************************)
(* AxiStreamDma (optrode/AxiStreamDma.cpp) and the loops of main.cpp and    *)
(* datacollection.cpp that drive it, one register access per step, against *)
(* the DMA engine and the FPGA behind it.  A process that ends or is killed *)
(* may be followed by another one, which finds the engine as it was left.  *)
(*                                                                          *)
(* mm2s carries the words the program sends to the FPGA, s2mm the words it  *)
(* receives; a received word is its number in the order the FPGA emits it.  *)
(***************************************************************************)
EXTENDS DmaEngine, Sequences

CONSTANTS
  Emits,         \* how many words the FPGA may emit for one it is sent
  FifoSize,      \* words the FPGA can hold for s2mm
  MaxWords,      \* bound: words emitted in one behaviour
  MaxRestarts    \* bound: processes after the first

ASSUME StreamDmaAssumption ==
  /\ Emits \subseteq Nat
  /\ FifoSize \in Nat
  /\ MaxWords \in Nat
  /\ MaxRestarts \in Nat

VARIABLES
  client,     \* the program: "record" (main.cpp) or "datacollection"
  pc,         \* where it is
  step,       \* the next of the steps of the constructor or of a transfer's start
  bytes,      \* bytesTransferred of fillBuffer or spoofData
  buffer,     \* AxiStreamDma::buffer
  audio,      \* audioBuffer of main()
  stop,       \* recordingStopSignal
  memory,     \* words from s2mm_baddr on
  fifo,       \* words emitted and not yet received
  emitted,    \* number of words emitted
  restarts,   \* number of processes before this one
  inherited,  \* channels that may still run a transfer of an earlier process
  missed      \* number of words received before this process or by such a transfer

vars     == <<hw, chan, client, pc, step, bytes, buffer, audio, stop, memory, fifo, emitted,
              restarts, inherited, missed>>
process  == <<client, restarts>>
program  == <<bytes, buffer, audio, stop, process>>
stream   == <<memory, fifo, emitted, missed>>
engine   == <<chan, inherited, stream>>

TransferSize == 4    \* transfer_size_bytes

-------------------------------------------------------------------------------
(* The engine and the FPGA.                                                 *)

(* mm2s hands its word to the FPGA, which emits n words for it.             *)
Sent(n) ==
  /\ Len(fifo) + n <= FifoSize
  /\ emitted + n <= MaxWords
  /\ Moves("mm2s")
  /\ fifo' = fifo \o [i \in 1..n |-> emitted + i]
  /\ emitted' = emitted + n
  /\ UNCHANGED <<memory, missed>>

(* s2mm stores the next word.                                               *)
Received ==
  /\ fifo # <<>>
  /\ Moves("s2mm")
  /\ memory' = [memory EXCEPT ![chan["s2mm"].addr] = Head(fifo)]
  /\ fifo' = Tail(fifo)
  /\ missed' = IF "s2mm" \in inherited THEN missed + 1 ELSE missed
  /\ UNCHANGED emitted

Progress ==
  /\ \/ Switches /\ UNCHANGED stream
     \/ \E n \in Emits : Sent(n)
     \/ Received
  /\ UNCHANGED <<hw, pc, step, inherited, program>>

Drops ==
  /\ \E c \in Channels : IdleEnds(c)
  /\ UNCHANGED <<hw, pc, step, inherited, program, stream>>

-------------------------------------------------------------------------------
(* The driver.                                                              *)

Init ==
  /\ hw \in Hardware
  /\ chan = [c \in Channels |-> ResetState]
  /\ client \in {"record", "datacollection"}
  /\ pc = "ctor"
  /\ step = 1
  /\ bytes = 0
  /\ buffer = <<>>
  /\ audio = <<>>
  /\ stop = FALSE
  /\ memory = [w \in 0..MaxWords |-> 0]
  /\ fifo = <<>>
  /\ emitted = 0
  /\ restarts = 0
  /\ inherited = {}
  /\ missed = 0

Goto(l) == pc' = l /\ UNCHANGED step

(* The constructor opens /dev/mem and maps three windows, each of which may *)
(* fail, and throws if one does; nobody catches it.                         *)
Open ==
  /\ pc = "ctor" /\ step <= 4
  /\ \/ step' = step + 1 /\ UNCHANGED pc
     \/ Goto("failed")
  /\ UNCHANGED <<hw, program, engine>>

(* Then it writes RUN_DMA to both channels.  main.cpp begins with its loop, *)
(* datacollection.cpp sends a word first.                                   *)
Construct ==
  /\ pc = "ctor" /\ step >= 5
  /\ WriteRun(IF step = 5 THEN "mm2s" ELSE "s2mm", TRUE)
  /\ IF step = 5 THEN step' = 6 /\ UNCHANGED pc
     ELSE step' = 1 /\ pc' = IF client = "record" THEN "loop" ELSE "send"
  /\ UNCHANGED <<hw, program, inherited, stream>>

(* The writes that start a transfer of channel c: RESET_DMA, HALT_DMA,      *)
(* ENABLE_ALL_IRQ (which leaves the run bit 0), RUN_DMA, the address, the   *)
(* length.                                                                  *)
StartTransfer_NoReset(c, w) ==     \* mutant: RESET_DMA is left out
  /\ \/ step = 1 /\ UNCHANGED chan
     \/ step \in {2, 3} /\ WriteRun(c, FALSE)
     \/ step = 4 /\ WriteRun(c, TRUE)
     \/ step = 5 /\ WriteAddress(c, w)
     \/ step = 6 /\ WriteLength(c, 1)
  /\ inherited' = IF step = 6 /\ Arms(c) THEN inherited \ {c} ELSE inherited

StartTransfer(c, w) ==
  /\ \/ step = 1 /\ WriteReset(c)
     \/ step \in {2, 3} /\ WriteRun(c, FALSE)
     \/ step = 4 /\ WriteRun(c, TRUE)
     \/ step = 5 /\ WriteAddress(c, w)
     \/ step = 6 /\ WriteLength(c, 1)
  /\ inherited' = IF step = 6 /\ Arms(c) THEN inherited \ {c} ELSE inherited

NextWrite_Late(here, sync) ==      \* mutant: one write too many
  IF step <= 6 THEN pc' = here /\ step' = step + 1
               ELSE pc' = sync /\ step' = 1

NextWrite(here, sync) ==
  IF step < 6 THEN pc' = here /\ step' = step + 1
              ELSE pc' = sync /\ step' = 1

(* sync() returns when it reads both flags at once.                         *)
Synced_Always(c) == TRUE           \* mutant: no sync()
Synced(c) == chan[c].ioc /\ chan[c].idle

(* fillBuffer                                                               *)
FillEnter ==
  /\ pc = "fill"
  /\ bytes' = 0
  /\ Goto("test")
  /\ UNCHANGED <<hw, buffer, audio, stop, process, engine>>

(* The condition of its loop reads the status register once or twice.       *)
FillTest ==
  /\ pc = "test"
  /\ Goto(IF Status("s2mm") = {} THEN "copy" ELSE "test2")
  /\ UNCHANGED <<hw, program, engine>>

FillTest2 ==
  /\ pc = "test2"
  /\ Goto(IF Status("s2mm") = {"ioc"} THEN "copy" ELSE "receive")
  /\ UNCHANGED <<hw, program, engine>>

Destination_Words == bytes         \* mutant: the offset is taken for words
Destination == bytes \div TransferSize

FillWrite ==
  /\ pc = "receive"
  /\ Destination <= MaxWords                    \* bound of the modelled memory
  /\ StartTransfer("s2mm", Destination)
  /\ NextWrite("receive", "fillsync")
  /\ UNCHANGED <<hw, program, stream>>

FillSync ==
  /\ pc = "fillsync"
  /\ Synced("s2mm")
  /\ bytes' = bytes + TransferSize
  /\ Goto("test")
  /\ UNCHANGED <<hw, buffer, audio, stop, process, engine>>

Copied == [i \in 1..(bytes \div TransferSize) |-> memory[i-1]]

FillCopy ==
  /\ pc = "copy"
  /\ buffer' = IF bytes > 0 THEN buffer \o Copied ELSE buffer
  /\ Goto("collect")
  /\ UNCHANGED <<hw, bytes, audio, stop, process, engine>>

(* main() moves the buffer to audioBuffer[0].                               *)
Collect ==
  /\ pc = "collect"
  /\ IF bytes > 0 THEN audio' = audio \o buffer /\ buffer' = <<>>
                  ELSE UNCHANGED <<audio, buffer>>
  /\ bytes' = 0
  /\ Goto("send")
  /\ UNCHANGED <<hw, stop, process, engine>>

(* spoofData(transfer_size_bytes) of main.cpp and sendData of                *)
(* datacollection.cpp put two words in the memory of mm2s and transfer one.  *)
SpoofWrite ==
  /\ pc = "send" /\ client = "record"
  /\ StartTransfer("mm2s", 0)
  /\ NextWrite("send", "sendsync")
  /\ UNCHANGED <<hw, program, stream>>

SendWrite ==
  /\ pc = "send" /\ client = "datacollection"
  /\ StartTransfer("mm2s", 0)
  /\ NextWrite("send", "sendsync")
  /\ UNCHANGED <<hw, program, stream>>

SendSync ==
  /\ pc = "sendsync"
  /\ Synced("mm2s")
  /\ Goto("loop")
  /\ UNCHANGED <<hw, program, engine>>

(* The loop ends with SIGINT, that of datacollection.cpp with the input too. *)
LoopTest ==
  /\ pc = "loop"
  /\ \/ ~stop /\ Goto("fill")
     \/ (stop \/ client = "datacollection") /\ Goto("done")
  /\ UNCHANGED <<hw, program, engine>>

Handler ==
  /\ pc \notin {"ctor", "failed", "done"} /\ ~stop
  /\ stop' = TRUE
  /\ UNCHANGED <<hw, pc, step, bytes, buffer, audio, process, engine>>

(* The process has ended or is killed, and the program is run again; the     *)
(* constructor does not reset the engine.                                   *)
Restart ==
  /\ restarts < MaxRestarts
  /\ restarts' = restarts + 1
  /\ pc' = "ctor" /\ step' = 1
  /\ bytes' = 0 /\ buffer' = <<>> /\ audio' = <<>> /\ stop' = FALSE
  /\ inherited' = {c \in Channels : chan[c].left > 0}
  /\ missed' = emitted - Len(fifo)
  /\ UNCHANGED <<hw, chan, client, memory, fifo, emitted>>

Program ==
  \/ Open \/ Construct \/ LoopTest
  \/ FillEnter \/ FillTest \/ FillTest2 \/ FillWrite \/ FillSync \/ FillCopy
  \/ Collect
  \/ SpoofWrite \/ SendWrite \/ SendSync

Next == Program \/ Progress \/ Drops \/ Handler \/ Restart

Spec == Init /\ [][Next]_vars

(* The program runs, the engine makes the progress it can.                  *)
FairSpec == Spec /\ WF_vars(Program) /\ WF_vars(Progress)

-------------------------------------------------------------------------------
(* Properties.                                                              *)

(* Every variable stays in its set; the next register write is one of the   *)
(* six that start a transfer (AxiStreamDma.cpp:162-167).                    *)
TypeOK ==
  /\ hw \in Hardware
  /\ chan \in [Channels -> ChannelState(1, MaxWords)]
  /\ client \in {"record", "datacollection"}
  /\ pc \in {"ctor", "failed", "loop", "fill", "test", "test2", "receive", "fillsync",
             "copy", "collect", "send", "sendsync", "done"}
  /\ step \in 1..6
  /\ {bytes, restarts, missed} \subseteq Nat
  /\ buffer \in Seq(Nat) /\ audio \in Seq(Nat) /\ fifo \in Seq(Nat)
  /\ stop \in BOOLEAN
  /\ memory \in [0..MaxWords -> 0..MaxWords]
  /\ emitted \in 0..MaxWords
  /\ inherited \subseteq Channels

(* The words of the running fillBuffer that are in memory: those it counted *)
(* and the one the engine has just stored.                                  *)
Landed ==
  LET counted == IF pc \in {"test", "test2", "receive", "fillsync", "copy"}
                 THEN bytes \div TransferSize ELSE 0
      stored  == IF pc = "fillsync" /\ chan["s2mm"].ioc THEN 1 ELSE 0
  IN [i \in 1..(counted + stored) |-> memory[i-1]]

(* Nothing the FPGA emits is lost, repeated or reordered on its way through *)
(* the memory window, the copy of fillBuffer and main(), but for what an    *)
(* earlier process received and the word of a transfer it left pending, if  *)
(* a reset is over at once: the driver does not wait for its end            *)
(* (AxiStreamDma.cpp:112-113, 157-182, main.cpp:162-176).                   *)
WordsInOrder ==
  hw.instantReset =>
    audio \o buffer \o Landed \o fifo = [i \in 1..(emitted - missed) |-> missed + i]

(* A transfer this process started is never cut short by a register write:  *)
(* its channel goes on until it raises IOC (AxiStreamDma.cpp:126-132,       *)
(* 144-150, 162-168).                                                       *)
NoTransferAborted ==
  [][\A c \in Channels \ inherited :
       chan[c].left > 0 => chan'[c].left > 0 \/ chan'[c].ioc]_vars

(* A pass of the loop sends one word and waits for it: while the program is *)
(* anywhere else mm2s has no transfer of its own pending, and s2mm none     *)
(* outside fillBuffer (AxiStreamDma.cpp:118-155, 157-172).                  *)
PendingOnlyInSync ==
  /\ chan["mm2s"].left > 0 => pc = "sendsync" \/ "mm2s" \in inherited
  /\ chan["s2mm"].left > 0 => pc = "fillsync" \/ "s2mm" \in inherited

(* "Stopping data feed safely..." (main.cpp:66): once SIGINT was taken the  *)
(* program leaves its loop, with the most accommodating engine and as long  *)
(* as the bound lets the FPGA answer.                                       *)
StopsWhenSignalled ==
  hw.stickyIdle /\ hw.instantReset /\ stop ~> pc = "done" \/ emitted = MaxWords

(* fillBuffer does not test the destination against the size of the memory  *)
(* it mapped (AxiStreamDma.cpp:166).  It stays within FifoSize words and    *)
(* the one it waits for, because the FPGA is sent nothing meanwhile, once no *)
(* transfer of an earlier process can be pending; a slow reset, which makes *)
(* sync() count transfers that were not, breaks that.                       *)
WritesNearBase ==
  hw.instantReset /\ inherited = {} /\ chan["s2mm"].left > 0 =>
    chan["s2mm"].addr <= FifoSize
=============================================================================
