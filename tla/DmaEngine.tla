------------------------------ MODULE DmaEngine ------------------------------
(***************************************************************************)
(* The AXI DMA engine in its simple mode, as the programs that write its    *)
(* registers see it: mm2s reads words from memory and streams them out,     *)
(* s2mm stores the words streamed in.  It is outside the repository and is  *)
(* modelled from the registers and the status values the programs use;     *)
(* where these leave it open the choice is part of Hardware.                *)
(***************************************************************************)
EXTENDS Naturals

Channels == {"mm2s", "s2mm"}

(* How the engine was built: does the reset of one channel reset the other  *)
(* one too, does a channel stay idle until its next transfer, has a reset   *)
(* taken effect at the next access?                                         *)
Hardware == [sharedReset : BOOLEAN, stickyIdle : BOOLEAN, instantReset : BOOLEAN]

VARIABLES
  hw,         \* the hardware, which never changes
  chan        \* the registers of each channel

(* left: the words that are left of the transfer in progress.               *)
ChannelState(MaxLeft, MaxAddr) ==
  [resetting : BOOLEAN, run : BOOLEAN, halted : BOOLEAN, idle : BOOLEAN,
   ioc : BOOLEAN, left : 0..MaxLeft, addr : 0..MaxAddr]

ResetState == [resetting |-> FALSE, run |-> FALSE, halted |-> TRUE, idle |-> FALSE,
               ioc |-> FALSE, left |-> 0, addr |-> 0]

-------------------------------------------------------------------------------
(* Accesses of the program.                                                 *)

(* The status register: STATUS_HALTED, STATUS_IDLE, STATUS_IOC_IRQ.  The     *)
(* transfers of simple mode here meet no error, so its error bits stay 0.   *)
Status(c) ==
  {f \in {"halted", "idle", "ioc"} :
     \/ f = "halted" /\ chan[c].halted
     \/ f = "idle" /\ chan[c].idle
     \/ f = "ioc" /\ chan[c].ioc}

ResetBy(c, d) == d = c \/ hw.sharedReset

WriteReset(c) ==
  chan' = [d \in Channels |->
             IF ~ResetBy(c, d) THEN chan[d]
             ELSE IF hw.instantReset THEN ResetState
             ELSE [chan[d] EXCEPT !.resetting = TRUE]]

(* A channel in reset ignores what else is written to it.                   *)
Accepted(c, r) ==
  chan' = IF chan[c].resetting THEN chan ELSE [chan EXCEPT ![c] = r]

WriteRun(c, on)    == Accepted(c, [chan[c] EXCEPT !.run = on])
WriteAddress(c, w) == Accepted(c, [chan[c] EXCEPT !.addr = w])

(* The length starts the transfer, if the channel was told to run.          *)
Arms(c) == chan[c].run /\ ~chan[c].resetting
WriteLength(c, n) ==
  Accepted(c, IF chan[c].run THEN [chan[c] EXCEPT !.left = n, !.idle = FALSE]
              ELSE chan[c])

-------------------------------------------------------------------------------
(* Steps of the engine.                                                     *)

ResetEnds(c) ==
  /\ chan[c].resetting
  /\ chan' = [chan EXCEPT ![c] = ResetState]

Starts(c) ==
  /\ chan[c].run /\ chan[c].halted /\ ~chan[c].resetting
  /\ chan' = [chan EXCEPT ![c].halted = FALSE]

Halts(c) ==
  /\ ~chan[c].run /\ ~chan[c].halted /\ chan[c].left = 0 /\ ~chan[c].resetting
  /\ chan' = [chan EXCEPT ![c].halted = TRUE]

IdleEnds(c) ==
  /\ ~hw.stickyIdle
  /\ chan[c].idle /\ ~chan[c].resetting
  /\ chan' = [chan EXCEPT ![c].idle = FALSE]

CanMove(c) == chan[c].left > 0 /\ ~chan[c].halted /\ ~chan[c].resetting

(* The channel moves a word; with the last one it is idle and raises IOC.   *)
Moves(c) ==
  /\ CanMove(c)
  /\ chan' = [chan EXCEPT ![c] =
       IF chan[c].left = 1 THEN [chan[c] EXCEPT !.left = 0, !.idle = TRUE, !.ioc = TRUE]
       ELSE [chan[c] EXCEPT !.left = chan[c].left - 1]]

Switches == \E c \in Channels : ResetEnds(c) \/ Starts(c) \/ Halts(c)
=============================================================================
