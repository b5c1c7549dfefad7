-------------------------------- MODULE AxiDma --------------------------------
(***************************************************************************)
(* The AXI DMA driver (optrode/external/AxiDMA.cpp).  A thread constructs    *)
(* an AxiDMA object, which runs run(), and may destroy it; several threads  *)
(* call Send, Send_repeat, Recv and Transf on it, if the engine was built   *)
(* for scatter-gather mode, or else DirectSend, DirectRecv and              *)
(* DirectManualRecv.  Both channels have one descriptor chain and one data  *)
(* buffer at a fixed physical address, shared by all calls; tx_mute and     *)
(* rx_mute are meant to protect them.                                       *)
(*                                                                          *)
(* A call runs the stages of its Script one after another, each stage being *)
(* a group of register or memory accesses; when a stage fails the rest of   *)
(* the script is replaced by the clean-up of the code.  A transfer is the   *)
(* number of the call that started it, data sent is the number of the call  *)
(* that wrote it, data received is the number of the packet.  A transfer is *)
(* one descriptor long.  The engine may have been left in any state by an   *)
(* earlier program.                                                         *)
(* The engine is outside the repository: it is modelled from the registers, *)
(* status bits and descriptor words the driver uses.                        *)
(***************************************************************************)
EXTENDS Naturals, Sequences

CONSTANTS
  Threads,
  Cases,        \* what may happen, see Case
  MaxCalls,     \* bound: number of calls
  MaxPackets    \* bound: number of packets received

(* alloc: mmap fails.  halt: a channel leaves Halted later than checkHalt   *)
(* polls.  late: a transfer takes longer than waitComplete polls.  error:   *)
(* the engine reports an error.  slowreset: a reset takes longer than it is *)
(* polled.                                                                  *)
AllFaults == {"alloc", "halt", "late", "error", "slowreset"}

SgOps     == {"Send", "Send_repeat", "Recv", "Transf"}
DirectOps == {"DirectSend", "DirectRecv", "DirectManualRecv"}

(* The calls made; what may go wrong; does the reset of one channel reset   *)
(* the other one too?  depth bounds the number of calls and of packets.     *)
Case == [ops : SUBSET (SgOps \cup DirectOps), faults : SUBSET AllFaults,
         sharedReset : BOOLEAN, depth : 0..MaxCalls]

Channels == {"tx", "rx"}

Free == "free"
None == 0             \* no transfer, no packet, no data
Old  == MaxCalls + 1  \* a transfer of an earlier program, and its data

ASSUME AxiDmaAssumption ==
  /\ Cases \subseteq Case
  /\ MaxCalls \in Nat /\ MaxPackets \in Nat
  /\ Free \notin Threads
  /\ Channels \cap Threads = {}

(* Where data is: the two buffers, and the memory at the address a thread   *)
(* passes to DirectManualRecv.                                              *)
Places == Channels \cup Threads

VARIABLES
  case,     \* the case this is, which never changes
  isSg,     \* was the engine built for scatter-gather mode?
  up,       \* is there an AxiDMA object?
  op,       \* the call each thread is in, or "none"
  call,     \* its number
  script,   \* the stages it still has to run
  seen,     \* the interrupt bits its last wait read
  calls,    \* number of calls made
  owner,    \* the thread that holds tx_mute ("tx") and rx_mute ("rx")
  chan,     \* the registers of each channel, and the transfer it was given
  chain,    \* the descriptor chain in memory: whose it is, is it complete
  mem,      \* the data at each place
  wire,     \* what was sent: the transfer and the data
  arrived,  \* number of packets received
  reported, \* the calls that returned a positive length of sent data
  got,      \* the packets handed to callers
  abandoned \* the channels on which a call gave up a transfer without a reset

threads == <<case, isSg, up, op, call, script, seen, calls, owner>>
engine  == <<chan, chain, mem, wire, arrived>>
history == <<reported, got, abandoned>>
vars    == <<threads, engine, history>>

-------------------------------------------------------------------------------
(* The scripts.                                                             *)

(* setTxDefault, setRxDefault: reset the channel and wait for its end.      *)
SetDefault(w) == << <<"reset", w>>, <<"poll", w>> >>

(* resetChannels.                                                           *)
ResetChannels == SetDefault("tx") \o SetDefault("rx")

(* From startTx or startRx to the acknowledged interrupt.                   *)
Launch(w) == << <<"start", w>>, <<"check", w>>, <<"tail", w>>,
                <<"wait", w>>, <<"ack", w>> >>

SendRepeat_NoLock ==                \* mutant: tx_mute is not locked
  << <<"chain", "tx">>, <<"alloc", "tx">>, <<"fill", "tx">> >>
  \o Launch("tx") \o << <<"process", "tx">> >>

SendRepeat == << <<"lock", "tx">>, <<"chain", "tx">>, <<"alloc", "tx">>,
                 <<"fill", "tx">> >> \o Launch("tx") \o << <<"process", "tx">> >>

RecvBody == << <<"alloc", "rx">>, <<"fill", "rx">>, <<"chain", "rx">> >>
              \o Launch("rx") \o << <<"process", "rx">>, <<"copyout", "rx">> >>
              \o SetDefault("rx")

RecvScript_NoLock == RecvBody       \* mutant: rx_mute is not locked
RecvScript == << <<"lock", "rx">> >> \o RecvBody

TransfBody ==
  << <<"alloc", "tx">>, <<"alloc", "rx">>, <<"fill", "tx">>, <<"fill", "rx">>,
     <<"chain", "tx">>, <<"chain", "rx">>,
     <<"start", "tx">>, <<"start", "rx">>, <<"check", "tx">>, <<"check", "rx">>,
     <<"tail", "rx">>, <<"tail", "tx">>,
     <<"wait", "tx">>, <<"ack", "tx">>, <<"wait", "rx">>, <<"ack", "rx">>,
     <<"process", "tx">>, <<"process", "rx">> >>
  \o ResetChannels \o << <<"copyout", "rx">> >>

TransfScript == << <<"lock", "tx">> >> \o TransfBody

(* From the address and length registers to the acknowledged interrupt.     *)
DirectLaunch(w) == << <<"length", w>>, <<"idle", w>>, <<"wait", w>>, <<"ack", w>> >>

DirectSendScript == << <<"lock", "tx">>, <<"alloc", "tx">>, <<"start", "tx">>,
                       <<"check", "tx">>, <<"fill", "tx">> >>
                    \o DirectLaunch("tx") \o << <<"sent", "tx">> >>

DirectManualRecvScript_NoLock ==    \* mutant: rx_mute is not locked
  << <<"pending", "rx">>, <<"start", "rx">>, <<"check", "rx">> >>
  \o DirectLaunch("rx") \o << <<"copyout", "rx">> >>

DirectManualRecvScript ==
  << <<"lock", "rx">>, <<"pending", "rx">>, <<"start", "rx">>, <<"check", "rx">> >>
  \o DirectLaunch("rx") \o << <<"copyout", "rx">> >>

(* Its buffer is mapped before the mutex is locked.                         *)
DirectRecvScript == << <<"alloc", "rx">> >> \o DirectManualRecvScript

RunScript == ResetChannels \o << <<"up", "rx">> >>

(* A call for the other mode returns at once.                               *)
Script(o) ==
  IF o \in (IF isSg THEN DirectOps ELSE SgOps) THEN <<>>
  ELSE CASE o = "run"              -> RunScript
         [] o = "end"              -> ResetChannels
         [] o = "Send"             -> SendRepeat \o SetDefault("tx")
         [] o = "Send_repeat"      -> SendRepeat
         [] o = "Recv"             -> RecvScript
         [] o = "Transf"           -> TransfScript
         [] o = "DirectSend"       -> DirectSendScript
         [] o = "DirectRecv"       -> DirectRecvScript
         [] o = "DirectManualRecv" -> DirectManualRecvScript

CleanUp_None(o, stage) == <<>>      \* mutant: no reset after a failed transfer

(* What a call still does when a stage fails.  "process" fails on the       *)
(* receive chain if no byte was received: CopyFrom throws in Recv; Transf    *)
(* resets the channels and returns 0, so that the bytes it copies all the   *)
(* same count as nothing received.                                          *)
CleanUp(o, stage) ==
  CASE stage = "ack" /\ o = "Send_repeat"           -> SetDefault("tx")
    [] stage \in {"ack", "process"} /\ o = "Transf" -> ResetChannels
    [] OTHER                                        -> <<>>

(* What is left of script s when a reset does not end: only Transf goes on. *)
Unreset(s) ==
  IF s[Len(s)] = <<"copyout", "rx">> THEN << <<"copyout", "rx">> >> ELSE <<>>

-------------------------------------------------------------------------------
(* The engine.                                                              *)

ResetState == [run |-> FALSE, halted |-> TRUE, failed |-> FALSE,
               resetting |-> FALSE, irq |-> {}, job |-> None, dst |-> "rx"]

(* What an earlier program may have left: a channel that was reset, one     *)
(* that runs, with or without a transfer, one that failed.                  *)
Leftover ==
  {ResetState, [ResetState EXCEPT !.failed = TRUE, !.irq = {"err"}]} \cup
  [run : {TRUE}, halted : {FALSE}, failed : {FALSE}, resetting : {FALSE},
   irq : {{}, {"ioc"}}, job : {None, Old}, dst : {"rx"}]

(* hasSg tells the mode; hasTx and hasRx find both channels.  A constructor  *)
(* that cannot open or map /dev/mem throws before it touches a register,    *)
(* which changes nothing here.                                              *)
Init ==
  /\ case \in Cases
  /\ isSg \in BOOLEAN
  /\ up = FALSE
  /\ op = [t \in Threads |-> "none"]
  /\ call = [t \in Threads |-> 0]
  /\ script = [t \in Threads |-> <<>>]
  /\ seen = [t \in Threads |-> {}]
  /\ calls = 0
  /\ owner = [w \in Channels |-> Free]
  /\ chan \in [Channels -> Leftover]
  /\ chain = [w \in Channels |-> [call |-> Old, done |-> FALSE]]
  /\ mem = [p \in Places |-> IF p = "tx" THEN Old ELSE None]
  /\ wire = {}
  /\ arrived = 0
  /\ reported = {}
  /\ got = {}
  /\ abandoned = {}

Starts(w) ==
  /\ chan[w].run /\ chan[w].halted /\ ~chan[w].failed /\ ~chan[w].resetting
  /\ chan' = [chan EXCEPT ![w].halted = FALSE]
  /\ UNCHANGED <<chain, mem, wire, arrived>>

Busy(w) == chan[w].job # None /\ ~chan[w].halted /\ ~chan[w].resetting

(* The transfer ends: its descriptor is marked complete, in the chain that  *)
(* is in memory now.                                                        *)
Finish(w) ==
  /\ chan' = [chan EXCEPT ![w].job = None, ![w].irq = @ \cup {"ioc"}]
  /\ chain' = [chain EXCEPT ![w].done = TRUE]

Transmit ==
  /\ Busy("tx")
  /\ Finish("tx")
  /\ wire' = wire \cup {[call |-> chan["tx"].job, data |-> mem["tx"]]}
  /\ UNCHANGED <<mem, arrived>>

(* A packet that arrives for a transfer of an earlier program is nobody's.  *)
Arrive ==
  /\ Busy("rx")
  /\ Finish("rx")
  /\ \/ /\ chan["rx"].job = Old
        /\ UNCHANGED <<mem, arrived>>
     \/ /\ chan["rx"].job # Old /\ arrived < MaxPackets /\ arrived < case.depth
        /\ mem' = [mem EXCEPT ![chan["rx"].dst] = arrived + 1]
        /\ arrived' = arrived + 1
  /\ UNCHANGED wire

EngineError(w) ==
  /\ "error" \in case.faults
  /\ Busy(w)
  /\ chan' = [chan EXCEPT ![w].run = FALSE, ![w].halted = TRUE, ![w].failed = TRUE,
                          ![w].irq = @ \cup {"err"}, ![w].job = None]
  /\ UNCHANGED <<chain, mem, wire, arrived>>

ResetEnds(w) ==
  /\ chan[w].resetting
  /\ chan' = [chan EXCEPT ![w] = ResetState]
  /\ UNCHANGED <<chain, mem, wire, arrived>>

Progress ==
  /\ \/ \E w \in Channels : Starts(w) \/ ResetEnds(w)
     \/ Transmit
     \/ Arrive
  /\ UNCHANGED <<threads, history>>

Engine ==
  \/ Progress
  \/ (\E w \in Channels : EngineError(w)) /\ UNCHANGED <<threads, history>>

-------------------------------------------------------------------------------
(* The stages.                                                              *)

At(t, stage, w) == script[t] # <<>> /\ Head(script[t]) = <<stage, w>>

(* Thread t goes on to its next stage, or to the clean-up.                  *)
Advance(t)     == script' = [script EXCEPT ![t] = Tail(@)]
Fail(t, stage) == script' = [script EXCEPT ![t] = CleanUp(op[t], stage)]

(* The constructor, and the destructor, which no other thread runs into; the *)
(* bound leaves them out when no call is left to make.                      *)
Own(t, o) ==
  /\ \A u \in Threads : op[u] = "none"
  /\ calls < case.depth
  /\ up = (o = "end") /\ up' = FALSE
  /\ op' = [op EXCEPT ![t] = o]
  /\ script' = [script EXCEPT ![t] = Script(o)]
  /\ UNCHANGED <<case, isSg, call, seen, calls, owner, engine, history>>

(* DirectManualRecv does not look at the mode; it is only called in direct  *)
(* mode here, with memory that holds no packet.                             *)
Call(t, o) ==
  /\ up /\ op[t] = "none"
  /\ calls < case.depth
  /\ o = "DirectManualRecv" => ~isSg
  /\ calls' = calls + 1
  /\ op' = [op EXCEPT ![t] = o]
  /\ call' = [call EXCEPT ![t] = calls + 1]
  /\ script' = [script EXCEPT ![t] = Script(o)]
  /\ mem' = IF o = "DirectManualRecv" THEN [mem EXCEPT ![t] = None] ELSE mem
  /\ UNCHANGED <<case, isSg, up, seen, owner, chan, chain, wire, arrived, history>>

(* The lock_guard.                                                          *)
Lock(t, w) ==
  /\ At(t, "lock", w)
  /\ owner[w] = Free
  /\ owner' = [owner EXCEPT ![w] = t]
  /\ Advance(t)
  /\ UNCHANGED <<case, isSg, up, op, call, seen, calls, engine, history>>

(* InitDescriptors: the chain in memory is rewritten, nothing complete.  It *)
(* may fail to map the chain; Send and Recv do not look at its result, and  *)
(* that failure of theirs is left out.                                      *)
InitDescriptors(t, w) ==
  /\ At(t, "chain", w)
  /\ \/ /\ chain' = [chain EXCEPT ![w] = [call |-> call[t], done |-> FALSE]]
        /\ Advance(t)
     \/ /\ "alloc" \in case.faults /\ op[t] \in {"Send_repeat", "Transf"}
        /\ Fail(t, "chain")
        /\ UNCHANGED chain
  /\ UNCHANGED <<case, isSg, up, op, call, seen, calls, owner, chan, mem, wire, arrived, history>>

AllocBufferMem(t, w) ==
  /\ At(t, "alloc", w)
  /\ Advance(t) \/ ("alloc" \in case.faults /\ Fail(t, "alloc"))
  /\ UNCHANGED <<case, isSg, up, op, call, seen, calls, owner, engine, history>>

(* CopyInto of the data to send; memset of the buffer to receive in.        *)
FillBuffer(t, w) ==
  /\ At(t, "fill", w)
  /\ mem' = [mem EXCEPT ![w] = IF w = "tx" THEN call[t] ELSE 0]
  /\ Advance(t)
  /\ UNCHANGED <<case, isSg, up, op, call, seen, calls, owner, chan, chain, wire, arrived, history>>

(* setCurDesc and start: the run bit is set if the channel is halted.  When *)
(* the run bit is set Send_repeat skips this; it would change nothing.      *)
Start(t, w) ==
  /\ At(t, "start", w)
  /\ chan' = IF chan[w].halted /\ ~chan[w].resetting
             THEN [chan EXCEPT ![w].run = TRUE] ELSE chan
  /\ Advance(t)
  /\ UNCHANGED <<case, isSg, up, op, call, seen, calls, owner, chain, mem, wire, arrived, history>>

(* checkTxHalt, checkRxHalt.                                                *)
CheckHalt(t, w) ==
  /\ At(t, "check", w)
  /\ \/ ~chan[w].halted /\ Advance(t)
     \/ chan[w].halted /\ case.faults \cap {"halt", "error"} # {} /\ Fail(t, "check")
  /\ UNCHANGED <<case, isSg, up, op, call, seen, calls, owner, engine, history>>

(* setTailDesc starts the transfer; a channel that is not running ignores   *)
(* the write.  If an earlier transfer is still pending the engine only      *)
(* moves its tail: every chain starts at the same address.                  *)
SetTailDesc(t, w) ==
  /\ At(t, "tail", w)
  /\ chan' = IF chan[w].halted \/ chan[w].resetting THEN chan
             ELSE [chan EXCEPT ![w].job = call[t]]
  /\ Advance(t)
  /\ UNCHANGED <<case, isSg, up, op, call, seen, calls, owner, chain, mem, wire, arrived, history>>

(* In direct mode the length starts the transfer.                           *)
SetLength(t, w) ==
  /\ At(t, "length", w)
  /\ chan' = IF chan[w].halted \/ chan[w].resetting THEN chan
             ELSE [chan EXCEPT ![w].job = call[t],
                     ![w].dst = IF op[t] = "DirectManualRecv" THEN t ELSE "rx"]
  /\ Advance(t)
  /\ UNCHANGED <<case, isSg, up, op, call, seen, calls, owner, chain, mem, wire, arrived, history>>

(* getRxIRQ before the start: what an earlier call did not wait for is      *)
(* acknowledged and returned, unless it is an error.                        *)
Pending(t, w) ==
  /\ At(t, "pending", w)
  /\ chan' = [chan EXCEPT ![w].irq = {}]
  /\ IF chan[w].irq = {"ioc"}
     THEN script' = [script EXCEPT ![t] = << <<"copyout", w>> >>] ELSE Advance(t)
  /\ UNCHANGED <<case, isSg, up, op, call, seen, calls, owner, chain, mem, wire, arrived, history>>

(* The transfer w was given may still end after the last poll; Send, Recv   *)
(* and the calls of direct mode return without a reset.                     *)
Abandon(t, w) ==
  abandoned' = IF chan[w].job # None /\ op[t] \in {"Send", "Recv"} \cup DirectOps
               THEN abandoned \cup {w} ELSE abandoned

(* waitTxDirectComplete, waitRxDirectComplete: the channel is idle, or the  *)
(* time is up, which the receiving calls ignore.                            *)
WaitDirectComplete(t, w) ==
  /\ At(t, "idle", w)
  /\ \/ chan[w].job = None /\ Advance(t) /\ UNCHANGED abandoned
     \/ /\ IF chan[w].job # None THEN "late" \in case.faults ELSE chan[w].failed
        /\ IF w = "rx" THEN Advance(t) /\ UNCHANGED abandoned
           ELSE Fail(t, "ack") /\ Abandon(t, w)
  /\ UNCHANGED <<case, isSg, up, op, call, seen, calls, owner, engine, reported, got>>

WaitComplete_Forever(t, w) ==       \* mutant: the time is never up
  /\ At(t, "wait", w)
  /\ chan[w].irq # {}
  /\ seen' = [seen EXCEPT ![t] = chan[w].irq]
  /\ Advance(t)
  /\ UNCHANGED <<case, isSg, up, op, call, calls, owner, engine, history>>

(* waitTxComplete, waitRxComplete: an interrupt is read, or the time is up  *)
(* and the last read found none.                                            *)
WaitComplete(t, w) ==
  /\ At(t, "wait", w)
  /\ \/ /\ chan[w].irq # {}
        /\ seen' = [seen EXCEPT ![t] = chan[w].irq]
        /\ Advance(t)
        /\ UNCHANGED abandoned
     \/ /\ chan[w].irq = {}
        /\ "late" \in case.faults \/ chan[w].job = None
        /\ seen' = [seen EXCEPT ![t] = {}]
        /\ Fail(t, "ack")
        /\ Abandon(t, w)
  /\ UNCHANGED <<case, isSg, up, op, call, calls, owner, engine, reported, got>>

(* ackTxIRQ, ackRxIRQ: the bits that were read are cleared.                 *)
AckIRQ(t, w) ==
  /\ At(t, "ack", w)
  /\ chan' = [chan EXCEPT ![w].irq = @ \ seen[t]]
  /\ IF "err" \in seen[t] THEN Fail(t, "ack") ELSE Advance(t)
  /\ UNCHANGED <<case, isSg, up, op, call, seen, calls, owner, chain, mem, wire, arrived, history>>

(* ProcessDescriptors counts the complete descriptors and frees them.  Send *)
(* and Send_repeat return the length.                                       *)
ProcessDescriptors(t, w) ==
  /\ At(t, "process", w)
  /\ chain' = [chain EXCEPT ![w].done = FALSE]
  /\ reported' = IF op[t] \in {"Send", "Send_repeat"} /\ chain[w].done
                 THEN reported \cup {call[t]} ELSE reported
  /\ IF w = "rx" /\ ~chain[w].done
     THEN Fail(t, "process") ELSE Advance(t)
  /\ UNCHANGED <<case, isSg, up, op, call, seen, calls, owner, chan, mem, wire, arrived, got, abandoned>>

(* DirectSend returns the length it wrote.                                  *)
ReturnTxLength(t, w) ==
  /\ At(t, "sent", w)
  /\ reported' = reported \cup {call[t]}
  /\ Advance(t)
  /\ UNCHANGED <<case, isSg, up, op, call, seen, calls, owner, engine, got, abandoned>>

(* resetTx, resetRx.                                                        *)
Reset(t, w) ==
  /\ At(t, "reset", w)
  /\ chan' = [v \in Channels |-> IF v = w \/ case.sharedReset
                THEN [chan[v] EXCEPT !.resetting = TRUE] ELSE chan[v]]
  /\ Advance(t)
  /\ UNCHANGED <<case, isSg, up, op, call, seen, calls, owner, chain, mem, wire, arrived, history>>

(* The loop on isTxReset, isRxReset; when it gives up, resetChannels does   *)
(* not go on to the other channel, and the constructor throws.              *)
PollReset(t, w) ==
  /\ At(t, "poll", w)
  /\ \/ ~chan[w].resetting /\ Advance(t)
     \/ /\ chan[w].resetting /\ "slowreset" \in case.faults
        /\ script' = [script EXCEPT ![t] = Unreset(@)]
  /\ UNCHANGED <<case, isSg, up, op, call, seen, calls, owner, engine, history>>

(* The end of run(): the interrupts are enabled and the object is there.    *)
SetUp(t, w) ==
  /\ At(t, "up", w)
  /\ up' = TRUE
  /\ Advance(t)
  /\ UNCHANGED <<case, isSg, op, call, seen, calls, owner, engine, history>>

(* CopyFrom: Recv copies the data received, Transf after the reset, in      *)
(* direct mode DirectRecv; the caller of DirectManualRecv has the data in   *)
(* its own memory.                                                          *)
CopyOut(t, w) ==
  /\ At(t, "copyout", w)
  /\ got' = got \cup {[call |-> call[t],
               packet |-> mem[IF op[t] = "DirectManualRecv" THEN t ELSE "rx"]]}
  /\ Advance(t)
  /\ UNCHANGED <<case, isSg, up, op, call, seen, calls, owner, engine, reported, abandoned>>

Return_KeepLock(t) ==               \* mutant: the mutex stays locked
  /\ op[t] # "none" /\ script[t] = <<>>
  /\ op' = [op EXCEPT ![t] = "none"]
  /\ UNCHANGED <<case, isSg, up, call, script, seen, calls, owner, engine, history>>

(* The call returns or throws; its lock_guard unlocks.                      *)
Return(t) ==
  /\ op[t] # "none" /\ script[t] = <<>>
  /\ op' = [op EXCEPT ![t] = "none"]
  /\ owner' = [w \in Channels |-> IF owner[w] = t THEN Free ELSE owner[w]]
  /\ UNCHANGED <<case, isSg, up, call, script, seen, calls, engine, history>>

Stage(t) ==
  \/ \E w \in Channels :
       \/ Lock(t, w) \/ InitDescriptors(t, w) \/ AllocBufferMem(t, w)
       \/ FillBuffer(t, w) \/ Start(t, w) \/ CheckHalt(t, w) \/ SetTailDesc(t, w)
       \/ WaitComplete(t, w) \/ AckIRQ(t, w) \/ ProcessDescriptors(t, w)
       \/ SetLength(t, w) \/ Pending(t, w) \/ WaitDirectComplete(t, w)
       \/ ReturnTxLength(t, w) \/ SetUp(t, w)
       \/ Reset(t, w) \/ PollReset(t, w) \/ CopyOut(t, w)
  \/ Return(t)

Next ==
  \/ \E t \in Threads : \/ Stage(t) \/ Own(t, "run") \/ Own(t, "end")
                        \/ \E o \in case.ops : Call(t, o)
  \/ Engine

Spec == Init /\ [][Next]_vars

(* Every thread is scheduled, and the engine makes the progress it can.     *)
FairSpec ==
  Spec /\ (\A t \in Threads : WF_vars(Stage(t))) /\ WF_vars(Progress)

-------------------------------------------------------------------------------
(* Properties.                                                              *)

Stages == {"lock", "chain", "alloc", "fill", "start", "check", "tail", "wait", "ack",
           "process", "reset", "poll", "copyout", "length", "idle", "pending", "sent",
           "up"}

(* The state has its types, and a mutex that is held is held by a thread in *)
(* a call (AxiDMA.cpp:63, 133, 205, 277).                                   *)
TypeOK ==
  /\ case \in Cases /\ isSg \in BOOLEAN /\ up \in BOOLEAN
  /\ op \in [Threads -> case.ops \cup {"none", "run", "end"}]
  /\ calls \in 0..MaxCalls
  /\ call \in [Threads -> 0..calls]
  /\ script \in [Threads -> Seq(Stages \X Channels)]
  /\ seen \in [Threads -> SUBSET {"ioc", "err"}]
  /\ owner \in [Channels -> Threads \cup {Free}]
  /\ chan \in [Channels -> [run : BOOLEAN, halted : BOOLEAN, failed : BOOLEAN,
                            resetting : BOOLEAN, irq : SUBSET {"ioc", "err"},
                            job : (0..calls) \cup {Old}, dst : Places \ {"tx"}]]
  /\ chain \in [Channels -> [call : (0..calls) \cup {Old}, done : BOOLEAN]]
  /\ arrived \in 0..MaxPackets
  /\ mem["tx"] \in (0..calls) \cup {Old}
  /\ \A p \in Places \ {"tx"} : mem[p] \in 0..arrived
  /\ wire \subseteq [call : (1..calls) \cup {Old}, data : (0..calls) \cup {Old}]
  /\ reported \subseteq 1..calls
  /\ got \subseteq [call : 1..calls, packet : 0..arrived]
  /\ abandoned \subseteq Channels
  /\ \A w \in Channels : owner[w] # Free => op[owner[w]] # "none"

(* What goes out for a call is the data of that call, although all calls    *)
(* write their data to the same buffer (AxiDMA.cpp:69-76, 141-148, 589),    *)
(* until a call has given up a transfer without resetting the channel.      *)
SentIsOwn == "tx" \in abandoned \/ \A s \in wire : s.data = s.call

(* A call that returns a positive length has had its transfer done          *)
(* (AxiDMA.cpp:98, 178, 606), not the one an earlier call or program left   *)
(* behind, again until a transfer was given up without a reset.             *)
SuccessIsReal ==
  "tx" \in abandoned \/ \A c \in reported : \E s \in wire : s.call = c

(* The chain and the buffer the engine works on belong to the transfer it   *)
(* was given: no call rewrites them under it, as long as no transfer takes  *)
(* longer than it is waited for and none fails (AxiDMA.cpp:133-163,         *)
(* 205-221, 575-593).                                                       *)
Punctual == case.faults \subseteq {"alloc", "halt"}
ChainInUse == Punctual =>
  \A w \in Channels : chan[w].job # None /\ ~chan[w].resetting =>
    /\ isSg => chain[w] = [call |-> chan[w].job, done |-> FALSE]
    /\ w = "tx" => mem["tx"] = chan["tx"].job
    /\ isSg /\ w = "rx" => mem["rx"] = None

(* A packet is handed to one call, and a call that returns a length has a   *)
(* packet, at the address it asked for (AxiDMA.cpp:234-235, 382, 668-674,   *)
(* 727-728), until a receive was given up without a reset.                  *)
ReceivedOnce ==
  \/ "rx" \in abandoned
  \/ \A g \in got : g.packet # None /\ \A h \in got : g.packet = h.packet => g = h

(* When nothing goes wrong a packet the engine stored is kept until a call  *)
(* hands it over (AxiDMA.cpp:224-239, 650-674).                             *)
NoPacketLost == Punctual =>
  \A p \in 1..arrived :
    (\E l \in Places \ {"tx"} : mem[l] = p) \/ \E g \in got : g.packet = p

(* Every call returns: the polling loops are bounded and the mutexes are    *)
(* released on every path (AxiDMA.cpp:56-115, 128-183, 197-252, 270-395,    *)
(* 567-738).                                                                *)
CallReturns == \A t \in Threads : op[t] # "none" ~> op[t] = "none"
=============================================================================
