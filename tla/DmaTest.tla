------------------------------- MODULE DmaTest -------------------------------
(***************************************************************************)
(* The loop-back test of the DMA (dmatest/dmatest.c): it streams the words  *)
(* of a source block out through mm2s and back through s2mm into a          *)
(* destination block, by way of a FIFO in the FPGA.  The engine may be in   *)
(* the state another program left it in, with words in the FIFO.            *)
(*                                                                          *)
(* A word of the source is its number, from 1; what was in the FIFO before  *)
(* is numbered from -1 downwards.                                           *)
(***************************************************************************)
EXTENDS DmaEngine, Integers, Sequences

CONSTANTS
  N,            \* nbytes / 4
  Capacities,   \* words the FIFO may hold
  MaxOld        \* bound: words in the FIFO at the start

ASSUME DmaTestAssumption ==
  /\ N \in Nat \ {0}
  /\ Capacities \subseteq Nat
  /\ MaxOld \in Nat

VARIABLES
  at,           \* the next access of main()
  dst,          \* the destination block
  fifo, capacity,
  old,          \* the words other programs put in the FIFO
  eaten         \* how many of them a transfer of another program took

vars    == <<hw, chan, at, dst, fifo, capacity, old, eaten>>
outside == <<fifo, capacity, old, eaten>>

-------------------------------------------------------------------------------
(* main() is a list of accesses to the registers of one channel.            *)

Access(c, op) == [chan |-> c, op |-> op]

(* RESET_DMA, HALT_DMA, ENABLE_ALL_IRQ (its run bit is 0), RUN_DMA.          *)
Initialise(c) ==
  <<Access(c, "reset"), Access(c, "halt"), Access(c, "halt"), Access(c, "run")>>

Transfer_StillRunning(c) ==     \* mutant: RUN_DMA is left out
  <<Access(c, "address"), Access(c, "length"), Access(c, "sync")>>

Transfer(c) ==
  <<Access(c, "run"), Access(c, "address"), Access(c, "length"), Access(c, "sync")>>

Script ==
  Initialise("mm2s") \o Initialise("s2mm") \o Transfer("mm2s") \o Transfer("s2mm")

Done == Len(Script) + 1

-------------------------------------------------------------------------------
(* The engine: any transfer that was started before may be pending.  One of  *)
(* s2mm may have main()'s destination, which main() overwrites anyway.      *)

Old(n) == [i \in 1..n |-> -i]

Init ==
  /\ hw \in Hardware
  /\ chan \in [Channels -> {c \in ChannelState(1, 0) :
                 ~c.resetting /\ (c.left > 0 => c.run /\ ~c.idle)}]
  /\ at = 1
  /\ dst = [i \in 1..N |-> 0]
  /\ capacity \in Capacities
  /\ \E n \in 0..MaxOld : n <= capacity /\ old = Old(n)
  /\ fifo = old
  /\ eaten = 0

(* Has main() started its transfer of channel c, waited for it?              *)
Started(c) == \E i \in 1..(at - 1) : Script[i] = Access(c, "length")
Waited(c)  == \E i \in 1..(at - 1) : Script[i] = Access(c, "sync")

(* The place in its block of the word that channel c moves next.            *)
Position(c) == N - chan[c].left + 1

Sent ==
  /\ Len(fifo) < capacity
  /\ Moves("mm2s")
  /\ LET word == IF Started("mm2s") THEN Position("mm2s") ELSE -(Len(old) + 1)
     IN /\ fifo' = Append(fifo, word)
        /\ old' = IF Started("mm2s") THEN old ELSE Append(old, word)
  /\ UNCHANGED <<dst, capacity, eaten>>

Received ==
  /\ fifo # <<>>
  /\ Moves("s2mm")
  /\ IF Started("s2mm")
     THEN dst' = [dst EXCEPT ![Position("s2mm")] = Head(fifo)] /\ UNCHANGED eaten
     ELSE eaten' = eaten + 1 /\ UNCHANGED dst
  /\ fifo' = Tail(fifo)
  /\ UNCHANGED <<capacity, old>>

Progress ==
  /\ \/ Switches /\ UNCHANGED <<dst, outside>>
     \/ Sent
     \/ Received
  /\ UNCHANGED <<hw, at>>

Drops ==
  /\ \E c \in Channels : IdleEnds(c)
  /\ UNCHANGED <<hw, at, dst, outside>>

-------------------------------------------------------------------------------
(* main()                                                                   *)

(* dma_mm2s_sync and dma_s2mm_sync                                          *)
Synced_Always(c) == TRUE        \* mutant: no waiting
Synced(c) == chan[c].ioc /\ chan[c].idle

Length_Short == N - 1           \* mutant: the last word is forgotten
Length == N

Main ==
  /\ at < Done
  /\ LET c  == Script[at].chan
         op == Script[at].op
     IN \/ op = "reset" /\ WriteReset(c)
        \/ op = "halt" /\ WriteRun(c, FALSE)
        \/ op = "run" /\ WriteRun(c, TRUE)
        \/ op = "address" /\ WriteAddress(c, 0)
        \/ op = "length" /\ WriteLength(c, Length)
        \/ op = "sync" /\ Synced(c) /\ UNCHANGED chan
  /\ at' = at + 1
  /\ UNCHANGED <<hw, dst, outside>>

Next == Main \/ Progress \/ Drops

Spec == Init /\ [][Next]_vars

FairSpec == Spec /\ WF_vars(Main) /\ WF_vars(Progress)

-------------------------------------------------------------------------------
(* Properties.                                                              *)

(* Every variable stays in its set (dmatest.c:187-252).                     *)
TypeOK ==
  /\ hw \in Hardware
  /\ chan \in [Channels -> ChannelState(IF N > 1 THEN N ELSE 1, 0)]
  /\ at \in 1..Done
  /\ dst \in [1..N -> Int]
  /\ fifo \in Seq(Int) /\ old \in Seq(Int)
  /\ capacity \in Capacities
  /\ eaten \in Nat

(* The test compares the blocks by eye; what it shows is this: when it ends  *)
(* the words have come back in order and none was lost, and only words that *)
(* were in the FIFO before are ahead of them (dmatest.c:233-257).           *)
LoopBack ==
  at = Done /\ hw.instantReset =>
    dst \o fifo = SubSeq(old \o [i \in 1..N |-> i], eaten + 1, Len(old) + N)

(* main() waits for mm2s before it starts s2mm, so the FIFO has to hold the  *)
(* whole transfer: a smaller one would hang it (dmatest.c:238-252).         *)
FifoHoldsTransfer ==
  Waited("mm2s") /\ hw.instantReset => Len(old) - eaten + N <= capacity

(* With a FIFO large enough and an engine that keeps its flags the test ends, *)
(* whatever state the engine was left in (dmatest.c:115-147, 207-252).       *)
Finishes ==
  at > 1 /\ hw.instantReset /\ hw.stickyIdle /\ Len(old) + N <= capacity ~> at = Done
=============================================================================
