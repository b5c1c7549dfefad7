--------------------------- MODULE DmaEngineProofs ---------------------------
(***************************************************************************)
(* What an access of the program, or a step of the engine, does to the      *)
(* registers of the two channels: the lemmas the proofs about StreamDma and *)
(* DmaTest rest on.  L bounds the length of a transfer, A the addresses.    *)
(***************************************************************************)
EXTENDS DmaEngine, TLAPS

Registers(L, A) == [Channels -> ChannelState(L, A)]

(* A channel that has a transfer pending is not idle.                       *)
BusyNotIdle == \A c \in Channels : chan[c].left > 0 => ~chan[c].idle

(* Nothing but the length register starts a transfer, and nothing but the   *)
(* end of one raises a flag.                                                *)
NoNews(d) ==
  /\ chan'[d].left \in {0, chan[d].left}
  /\ chan'[d].idle => chan[d].idle
  /\ chan'[d].ioc => chan[d].ioc

(* The reset of a channel leaves each channel alone, or clears it, or has   *)
(* it begin a reset that takes its time.                                    *)
LEMMA WriteResetEffect ==
  ASSUME NEW L \in Nat, NEW A \in Nat, chan \in Registers(L, A), hw \in Hardware,
         NEW c \in Channels, WriteReset(c)
  PROVE  /\ chan' \in Registers(L, A)
         /\ \A d \in Channels : NoNews(d)
         /\ hw.instantReset => /\ chan'[c] = ResetState
                               /\ \A d \in Channels : chan'[d] \in {chan[d], ResetState}
         /\ \A d \in Channels : chan'[d] \in {chan[d], ResetState}
                                \/ chan'[d] = [chan[d] EXCEPT !.resetting = TRUE]
  <1> DEFINE slow(d) == [chan[d] EXCEPT !.resetting = TRUE]
  <1>1. \A d \in Channels : chan[d] \in ChannelState(L, A)
    BY DEF Registers
  <1>2. ResetState \in ChannelState(L, A)
    BY DEF ResetState, ChannelState
  <1>3. \A d \in Channels : slow(d) \in ChannelState(L, A)
    BY <1>1 DEF ChannelState
  <1>4. /\ hw.instantReset => /\ chan'[c] = ResetState
                              /\ \A d \in Channels : chan'[d] \in {chan[d], ResetState}
        /\ \A d \in Channels : chan'[d] \in {chan[d], ResetState, slow(d)}
    BY DEF WriteReset, ResetBy
  <1>5. chan' \in Registers(L, A)
    BY <1>1, <1>2, <1>3, <1>4 DEF WriteReset, Registers
  <1>6. ASSUME NEW d \in Channels
        PROVE  NoNews(d)
    <2>1. CASE chan'[d] = chan[d]
      BY <2>1 DEF NoNews
    <2>2. CASE chan'[d] = ResetState
      BY <2>2 DEF NoNews, ResetState
    <2>3. CASE chan'[d] = slow(d)
      BY <1>1, <2>3 DEF NoNews, ChannelState
    <2>4. QED
      BY <1>4, <2>1, <2>2, <2>3
  <1>7. QED
    BY <1>4, <1>5, <1>6

(* The run bit and the address change their register only, if anything.     *)
LEMMA WriteRunEffect ==
  ASSUME NEW L \in Nat, NEW A \in Nat, chan \in Registers(L, A),
         NEW c \in Channels, NEW on \in BOOLEAN, WriteRun(c, on)
  PROVE  /\ chan' \in Registers(L, A)
         /\ \A d \in Channels : NoNews(d) /\ chan'[d].left = chan[d].left
         /\ \A d \in Channels : /\ chan'[d].resetting = chan[d].resetting
                                /\ chan'[d].addr = chan[d].addr
         /\ ~chan[c].resetting => chan'[c].run = on
         /\ \A d \in Channels \ {c} : chan'[d] = chan[d]
  BY DEF Registers, ChannelState, WriteRun, Accepted, NoNews

LEMMA WriteAddressEffect ==
  ASSUME NEW L \in Nat, NEW A \in Nat, chan \in Registers(L, A),
         NEW c \in Channels, NEW w \in 0..A, WriteAddress(c, w)
  PROVE  /\ chan' \in Registers(L, A)
         /\ \A d \in Channels : NoNews(d) /\ chan'[d].left = chan[d].left
         /\ \A d \in Channels : /\ chan'[d].resetting = chan[d].resetting
                                /\ chan'[d].run = chan[d].run
         /\ ~chan[c].resetting => chan'[c].addr = w
         /\ \A d \in Channels \ {c} : chan'[d] = chan[d]
  BY DEF Registers, ChannelState, WriteAddress, Accepted, NoNews

(* The length starts the transfer, or does nothing.                         *)
LEMMA WriteLengthEffect ==
  ASSUME NEW L \in Nat, NEW A \in Nat, chan \in Registers(L, A),
         NEW c \in Channels, NEW n \in 0..L, WriteLength(c, n)
  PROVE  /\ chan' \in Registers(L, A)
         /\ \A d \in Channels : /\ chan'[d].resetting = chan[d].resetting
                                /\ chan'[d].addr = chan[d].addr
                                /\ chan'[d].ioc = chan[d].ioc
         /\ Arms(c) => chan'[c].left = n /\ ~chan'[c].idle
         /\ ~Arms(c) => chan' = chan
         /\ \A d \in Channels \ {c} : chan'[d] = chan[d]
  BY DEF Registers, ChannelState, WriteLength, Accepted, Arms

(* The end of a reset, and the channels' going on and off.                  *)
LEMMA SwitchesEffect ==
  ASSUME NEW L \in Nat, NEW A \in Nat, chan \in Registers(L, A), Switches
  PROVE  /\ chan' \in Registers(L, A)
         /\ \A d \in Channels : NoNews(d)
         /\ \A d \in Channels : ~chan[d].resetting =>
              /\ ~chan'[d].resetting
              /\ chan'[d].left = chan[d].left
              /\ chan'[d].run = chan[d].run
              /\ chan'[d].addr = chan[d].addr
              /\ chan'[d].ioc = chan[d].ioc
         /\ \A d \in Channels : chan'[d].resetting => chan[d].resetting
  <1>1. PICK c \in Channels : ResetEnds(c) \/ Starts(c) \/ Halts(c)
    BY DEF Switches
  <1>2. CASE ResetEnds(c)
    <2>1. ResetState \in ChannelState(L, A)
      BY DEF ResetState, ChannelState
    <2>2. /\ chan' \in Registers(L, A)
          /\ chan[c].resetting /\ chan'[c] = ResetState
          /\ \A d \in Channels \ {c} : chan'[d] = chan[d]
      BY <1>2, <2>1 DEF Registers, ResetEnds
    <2>3. QED
      BY <2>2 DEF NoNews, ResetState
  <1>3. CASE Starts(c)
    BY <1>3 DEF Registers, ChannelState, Starts, NoNews
  <1>4. CASE Halts(c)
    BY <1>4 DEF Registers, ChannelState, Halts, NoNews
  <1>5. QED
    BY <1>1, <1>2, <1>3, <1>4

LEMMA IdleEndsEffect ==
  ASSUME NEW L \in Nat, NEW A \in Nat, chan \in Registers(L, A),
         NEW c \in Channels, IdleEnds(c)
  PROVE  /\ chan' \in Registers(L, A)
         /\ \A d \in Channels : NoNews(d)
         /\ \A d \in Channels : /\ chan'[d].resetting = chan[d].resetting
                                /\ chan'[d].left = chan[d].left
                                /\ chan'[d].run = chan[d].run
                                /\ chan'[d].addr = chan[d].addr
                                /\ chan'[d].ioc = chan[d].ioc
  BY DEF Registers, ChannelState, IdleEnds, NoNews

(* The registers of a channel once its last word is moved.                  *)
LastWord(r) == [r EXCEPT !.left = 0, !.idle = TRUE, !.ioc = TRUE]

LEMMA LastWordRecord ==
  ASSUME NEW L \in Nat, NEW A \in Nat, NEW r \in ChannelState(L, A)
  PROVE  /\ LastWord(r) \in ChannelState(L, A)
         /\ LastWord(r).left = 0 /\ LastWord(r).idle /\ LastWord(r).ioc
         /\ LastWord(r).resetting = r.resetting
         /\ LastWord(r).run = r.run
         /\ LastWord(r).addr = r.addr
  <1> DEFINE a == [r EXCEPT !.left = 0]
             b == [a EXCEPT !.idle = TRUE]
             last == [b EXCEPT !.ioc = TRUE]
  <1>1. /\ a \in ChannelState(L, A)
        /\ a.left = 0
        /\ a.resetting = r.resetting /\ a.run = r.run /\ a.addr = r.addr
    BY DEF ChannelState
  <1> HIDE DEF a
  <1>2. /\ b \in ChannelState(L, A)
        /\ b.left = 0 /\ b.idle
        /\ b.resetting = r.resetting /\ b.run = r.run /\ b.addr = r.addr
    BY <1>1 DEF ChannelState
  <1> HIDE DEF b
  <1>3. /\ last \in ChannelState(L, A)
        /\ last.left = 0 /\ last.idle /\ last.ioc
        /\ last.resetting = r.resetting /\ last.run = r.run /\ last.addr = r.addr
    BY <1>2 DEF ChannelState
  <1>4. QED
    BY <1>3 DEF a, b, LastWord

(* A word moved is one less that is left, and with the last one the channel *)
(* is idle and raises IOC.                                                  *)
LEMMA MovesEffect ==
  ASSUME NEW L \in Nat, NEW A \in Nat, chan \in Registers(L, A),
         NEW c \in Channels, Moves(c)
  PROVE  /\ chan' \in Registers(L, A)
         /\ chan[c].left > 0 /\ ~chan[c].resetting
         /\ chan'[c].left = chan[c].left - 1
         /\ chan'[c].left = 0 => chan'[c].idle /\ chan'[c].ioc
         /\ chan'[c].left > 0 => /\ chan'[c].idle = chan[c].idle
                                 /\ chan'[c].ioc = chan[c].ioc
         /\ /\ chan'[c].resetting = chan[c].resetting
            /\ chan'[c].run = chan[c].run
            /\ chan'[c].addr = chan[c].addr
         /\ \A d \in Channels \ {c} : chan'[d] = chan[d]
  <1> DEFINE more == [chan[c] EXCEPT !.left = chan[c].left - 1]
  <1>1. /\ chan \in [Channels -> ChannelState(L, A)]
        /\ chan[c] \in ChannelState(L, A)
        /\ chan[c].left > 0 /\ ~chan[c].resetting
    BY DEF Registers, Moves, CanMove
  <1>2. CASE chan[c].left = 1
    <2>1. chan' = [chan EXCEPT ![c] = LastWord(chan[c])]
      BY <1>2 DEF Moves, LastWord
    <2>2. /\ chan' \in Registers(L, A)
          /\ chan'[c] = LastWord(chan[c])
          /\ \A d \in Channels \ {c} : chan'[d] = chan[d]
      BY <1>1, <2>1, LastWordRecord DEF Registers
    <2>3. QED
      BY <1>1, <1>2, <2>2, LastWordRecord
  <1>3. CASE chan[c].left # 1
    <2>1. chan' = [chan EXCEPT ![c] = more]
      BY <1>3 DEF Moves
    <2>2. more \in ChannelState(L, A)
      BY <1>1 DEF ChannelState
    <2>3. chan' \in Registers(L, A) /\ chan'[c] = more /\ \A d \in Channels \ {c} : chan'[d] = chan[d]
      BY <1>1, <2>1, <2>2 DEF Registers
    <2>4. QED
      BY <1>1, <1>3, <2>3 DEF ChannelState
  <1>4. QED
    BY <1>2, <1>3
=============================================================================
