---------------------------- MODULE DmaTestProofs ----------------------------
(***************************************************************************)
(* Theorems about the loop-back test, for every length of the transfer,     *)
(* every capacity of the FIFO and every state the engine was left in.       *)
(***************************************************************************)
EXTENDS DmaTest, DmaEngineProofs, SequenceTheorems

-------------------------------------------------------------------------------
(* The script, access by access.                                            *)

Accesses == [chan : Channels, op : {"reset", "halt", "run", "address", "length", "sync"}]

(* A list of accesses followed by another one.                              *)
Joined(s, t) == s \o t

LEMMA Followed ==
  ASSUME NEW s \in Seq(Accesses), NEW t \in Seq(Accesses)
  PROVE  /\ Joined(s, t) \in Seq(Accesses)
         /\ Len(Joined(s, t)) = Len(s) + Len(t)
         /\ \A i \in 1..Len(s) : Joined(s, t)[i] = s[i]
         /\ \A i \in (Len(s) + 1)..(Len(s) + Len(t)) : Joined(s, t)[i] = t[i - Len(s)]
  <1>1. /\ s \o t \in Seq(Accesses)
        /\ Len(s \o t) = Len(s) + Len(t)
        /\ \A i \in 1..(Len(s) + Len(t)) : (s \o t)[i] = IF i <= Len(s) THEN s[i] ELSE t[i - Len(s)]
    BY ConcatProperties
  <1>2. Len(s) \in Nat /\ Len(t) \in Nat
    OBVIOUS
  <1>3. QED
    BY <1>1, <1>2 DEF Joined

LEMMA ScriptIs ==
  /\ Len(Script) = 16
  /\ Script[1] = Access("mm2s", "reset")
  /\ Script[2] = Access("mm2s", "halt")
  /\ Script[3] = Access("mm2s", "halt")
  /\ Script[4] = Access("mm2s", "run")
  /\ Script[5] = Access("s2mm", "reset")
  /\ Script[6] = Access("s2mm", "halt")
  /\ Script[7] = Access("s2mm", "halt")
  /\ Script[8] = Access("s2mm", "run")
  /\ Script[9] = Access("mm2s", "run")
  /\ Script[10] = Access("mm2s", "address")
  /\ Script[11] = Access("mm2s", "length")
  /\ Script[12] = Access("mm2s", "sync")
  /\ Script[13] = Access("s2mm", "run")
  /\ Script[14] = Access("s2mm", "address")
  /\ Script[15] = Access("s2mm", "length")
  /\ Script[16] = Access("s2mm", "sync")
  <1> DEFINE I == Initialise("mm2s")
             J == Initialise("s2mm")
             S == Transfer("mm2s")
             R == Transfer("s2mm")
             B == Joined(I, J)
             C == Joined(B, S)
             E == Joined(C, R)
  <1>1. \A c \in Channels : /\ Access(c, "reset") \in Accesses /\ Access(c, "halt") \in Accesses
                            /\ Access(c, "run") \in Accesses /\ Access(c, "address") \in Accesses
                            /\ Access(c, "length") \in Accesses /\ Access(c, "sync") \in Accesses
    BY DEF Access, Accesses
  <1>2. "mm2s" \in Channels /\ "s2mm" \in Channels
    BY DEF Channels
  <1>3. /\ I \in Seq(Accesses) /\ Len(I) = 4
        /\ I[1] = Access("mm2s", "reset") /\ I[2] = Access("mm2s", "halt")
        /\ I[3] = Access("mm2s", "halt") /\ I[4] = Access("mm2s", "run")
    BY <1>1, <1>2 DEF Initialise
  <1>4. /\ J \in Seq(Accesses) /\ Len(J) = 4
        /\ J[1] = Access("s2mm", "reset") /\ J[2] = Access("s2mm", "halt")
        /\ J[3] = Access("s2mm", "halt") /\ J[4] = Access("s2mm", "run")
    BY <1>1, <1>2 DEF Initialise
  <1>5. /\ S \in Seq(Accesses) /\ Len(S) = 4
        /\ S[1] = Access("mm2s", "run") /\ S[2] = Access("mm2s", "address")
        /\ S[3] = Access("mm2s", "length") /\ S[4] = Access("mm2s", "sync")
    BY <1>1, <1>2 DEF Transfer
  <1>6. /\ R \in Seq(Accesses) /\ Len(R) = 4
        /\ R[1] = Access("s2mm", "run") /\ R[2] = Access("s2mm", "address")
        /\ R[3] = Access("s2mm", "length") /\ R[4] = Access("s2mm", "sync")
    BY <1>1, <1>2 DEF Transfer
  <1> HIDE DEF I, J, S, R
  <1>7. /\ B \in Seq(Accesses) /\ Len(B) = 4 + 4
        /\ \A i \in 1..4 : B[i] = I[i]
        /\ \A i \in (4 + 1)..(4 + 4) : B[i] = J[i - 4]
    <2>1. /\ B \in Seq(Accesses) /\ Len(B) = Len(I) + Len(J)
          /\ \A i \in 1..Len(I) : B[i] = I[i]
          /\ \A i \in (Len(I) + 1)..(Len(I) + Len(J)) : B[i] = J[i - Len(I)]
      BY <1>3, <1>4, Followed
    <2>2. QED
      BY <1>3, <1>4, <2>1
  <1> HIDE DEF B
  <1>8. /\ C \in Seq(Accesses) /\ Len(C) = 8 + 4
        /\ \A i \in 1..8 : C[i] = B[i]
        /\ \A i \in (8 + 1)..(8 + 4) : C[i] = S[i - 8]
    <2>1. /\ C \in Seq(Accesses) /\ Len(C) = Len(B) + Len(S)
          /\ \A i \in 1..Len(B) : C[i] = B[i]
          /\ \A i \in (Len(B) + 1)..(Len(B) + Len(S)) : C[i] = S[i - Len(B)]
      BY <1>5, <1>7, Followed
    <2>2. QED
      BY <1>5, <1>7, <2>1
  <1> HIDE DEF C
  <1>9. /\ E \in Seq(Accesses) /\ Len(E) = 12 + 4
        /\ \A i \in 1..12 : E[i] = C[i]
        /\ \A i \in (12 + 1)..(12 + 4) : E[i] = R[i - 12]
    <2>1. /\ E \in Seq(Accesses) /\ Len(E) = Len(C) + Len(R)
          /\ \A i \in 1..Len(C) : E[i] = C[i]
          /\ \A i \in (Len(C) + 1)..(Len(C) + Len(R)) : E[i] = R[i - Len(C)]
      BY <1>6, <1>8, Followed
    <2>2. QED
      BY <1>6, <1>8, <2>1
  <1>10. Script = E
    BY DEF Script, Joined, E, C, B, I, J, S, R
  <1> HIDE DEF E
  <1>11. /\ \A i \in 1..4 : E[i] = I[i]
         /\ \A i \in 5..8 : E[i] = J[i - 4]
         /\ \A i \in 9..12 : E[i] = S[i - 8]
         /\ \A i \in 13..16 : E[i] = R[i - 12]
    <2>1. \A i \in 1..8 : E[i] = B[i]
      BY <1>8, <1>9
    <2>2. \A i \in 1..4 : E[i] = I[i]
      BY <1>7, <2>1
    <2>3. \A i \in 5..8 : E[i] = J[i - 4]
      BY <1>7, <2>1
    <2>4. \A i \in 9..12 : E[i] = S[i - 8]
      BY <1>8, <1>9
    <2>5. \A i \in 13..16 : E[i] = R[i - 12]
      BY <1>9
    <2>6. QED
      BY <2>2, <2>3, <2>4, <2>5
  <1>12. QED
    BY <1>3, <1>4, <1>5, <1>6, <1>9, <1>10, <1>11

(* What the next access of main() does.                                     *)
LEMMA AccessIs ==
  ASSUME Main, NEW c, NEW op, Script[at] = Access(c, op)
  PROVE  /\ at' = at + 1 /\ UNCHANGED <<hw, dst, outside>>
         /\ op = "reset" => WriteReset(c)
         /\ op = "halt" => WriteRun(c, FALSE)
         /\ op = "run" => WriteRun(c, TRUE)
         /\ op = "address" => WriteAddress(c, 0)
         /\ op = "length" => WriteLength(c, N)
         /\ op = "sync" => Synced(c) /\ UNCHANGED chan
  <1>1. Script[at].chan = c /\ Script[at].op = op
    BY DEF Access
  <1>2. /\ at' = at + 1 /\ UNCHANGED <<hw, dst, outside>>
        /\ \/ op = "reset" /\ WriteReset(c)
           \/ op = "halt" /\ WriteRun(c, FALSE)
           \/ op = "run" /\ WriteRun(c, TRUE)
           \/ op = "address" /\ WriteAddress(c, 0)
           \/ op = "length" /\ WriteLength(c, Length)
           \/ op = "sync" /\ Synced(c) /\ UNCHANGED chan
    BY <1>1 DEF Main
  <1>3. QED
    BY <1>2 DEF Length

LEMMA MainIs ==
  ASSUME Main, at \in 1..Done
  PROVE  /\ at \in 1..16 /\ at' = at + 1 /\ UNCHANGED <<hw, dst, outside>>
         /\ at = 1 => WriteReset("mm2s")
         /\ at \in {2, 3} => WriteRun("mm2s", FALSE)
         /\ at \in {4, 9} => WriteRun("mm2s", TRUE)
         /\ at = 5 => WriteReset("s2mm")
         /\ at \in {6, 7} => WriteRun("s2mm", FALSE)
         /\ at \in {8, 13} => WriteRun("s2mm", TRUE)
         /\ at = 10 => WriteAddress("mm2s", 0)
         /\ at = 11 => WriteLength("mm2s", N)
         /\ at = 12 => Synced("mm2s") /\ UNCHANGED chan
         /\ at = 14 => WriteAddress("s2mm", 0)
         /\ at = 15 => WriteLength("s2mm", N)
         /\ at = 16 => Synced("s2mm") /\ UNCHANGED chan
  <1>1. at \in 1..16
    BY ScriptIs DEF Main, Done
  <1>2. at' = at + 1 /\ UNCHANGED <<hw, dst, outside>>
    BY DEF Main
  <1>3. at = 1 => WriteReset("mm2s")
    BY ScriptIs, AccessIs
  <1>4. at \in {2, 3} => WriteRun("mm2s", FALSE)
    BY ScriptIs, AccessIs
  <1>5. at \in {4, 9} => WriteRun("mm2s", TRUE)
    BY ScriptIs, AccessIs
  <1>6. at = 5 => WriteReset("s2mm")
    BY ScriptIs, AccessIs
  <1>7. at \in {6, 7} => WriteRun("s2mm", FALSE)
    BY ScriptIs, AccessIs
  <1>8. at \in {8, 13} => WriteRun("s2mm", TRUE)
    BY ScriptIs, AccessIs
  <1>9. at = 10 => WriteAddress("mm2s", 0)
    BY ScriptIs, AccessIs
  <1>10. at = 11 => WriteLength("mm2s", N)
    BY ScriptIs, AccessIs
  <1>11. at = 12 => Synced("mm2s") /\ UNCHANGED chan
    BY ScriptIs, AccessIs
  <1>12. at = 14 => WriteAddress("s2mm", 0)
    BY ScriptIs, AccessIs
  <1>13. at = 15 => WriteLength("s2mm", N)
    BY ScriptIs, AccessIs
  <1>14. at = 16 => Synced("s2mm") /\ UNCHANGED chan
    BY ScriptIs, AccessIs
  <1>15. QED
    BY <1>1, <1>2, <1>3, <1>4, <1>5, <1>6, <1>7, <1>8, <1>9, <1>10, <1>11, <1>12, <1>13, <1>14

(* Which transfers of main() have begun.                                    *)
LEMMA StartedIs ==
  ASSUME at \in 1..Done
  PROVE  /\ Started("mm2s") <=> at > 11
         /\ Started("s2mm") <=> at > 15
         /\ Waited("mm2s") <=> at > 12
  <1>1. at \in 1..17
    BY ScriptIs DEF Done
  <1>2. \A c, d, o, q : Access(c, o) = Access(d, q) <=> c = d /\ o = q
    BY DEF Access
  <1>3. \A i \in 1..16 : Script[i] = Access("mm2s", "length") <=> i = 11
    BY <1>2, ScriptIs
  <1>4. \A i \in 1..16 : Script[i] = Access("s2mm", "length") <=> i = 15
    BY <1>2, ScriptIs
  <1>5. \A i \in 1..16 : Script[i] = Access("mm2s", "sync") <=> i = 12
    BY <1>2, ScriptIs
  <1>6. Started("mm2s") <=> at > 11
    BY <1>1, <1>3 DEF Started
  <1>7. Started("s2mm") <=> at > 15
    BY <1>1, <1>4 DEF Started
  <1>8. Waited("mm2s") <=> at > 12
    BY <1>1, <1>5 DEF Waited
  <1>9. QED
    BY <1>6, <1>7, <1>8

-------------------------------------------------------------------------------
(* The inductive invariant.                                                 *)

Types ==
  /\ hw \in Hardware
  /\ chan \in Registers(N, 0)
  /\ at \in 1..17
  /\ dst \in [1..N -> Int]
  /\ fifo \in Seq(Int) /\ old \in Seq(Int)
  /\ capacity \in Capacities
  /\ eaten \in Nat

(* From its reset to its length a channel is quiet; from then on its flag   *)
(* tells whether its transfer is over, and it is once it was waited for.    *)
Quiet(c)  == chan[c].left = 0 /\ ~chan[c].ioc
Flagged(c) == chan[c].ioc <=> chan[c].left = 0

Regs ==
  /\ \A c \in Channels : ~chan[c].resetting
  /\ at \in 2..11 => Quiet("mm2s")
  /\ at \in 10..11 => chan["mm2s"].run
  /\ at >= 12 => Flagged("mm2s")
  /\ at >= 13 => chan["mm2s"].left = 0
  /\ at \in 6..15 => Quiet("s2mm")
  /\ at \in 14..15 => chan["s2mm"].run
  /\ at >= 16 => Flagged("s2mm")
  /\ at >= 17 => chan["s2mm"].left = 0

(* The words of main() sent and received so far, and the i-th of the words  *)
(* that went into the FIFO, the old ones first.                             *)
Out     == IF at >= 12 THEN N - chan["mm2s"].left ELSE 0
In      == IF at >= 16 THEN N - chan["s2mm"].left ELSE 0
Word(i) == IF i <= Len(old) THEN -i ELSE i - Len(old)

Flow ==
  /\ eaten + In + Len(fifo) = Len(old) + Out
  /\ \A i \in 1..Len(old) : old[i] = -i
  /\ \A i \in 1..In : dst[i] = Word(eaten + i)
  /\ \A i \in 1..Len(fifo) : fifo[i] = Word(eaten + In + i)

Room ==
  /\ Len(fifo) <= capacity
  /\ at >= 13 => Len(old) - eaten + N <= capacity

IInv == Types /\ (hw.instantReset => Regs /\ Flow /\ Room)

LEMMA Places ==
  /\ Done = 17 /\ N \in Nat \ {0} /\ 0 \in Nat /\ N \in 0..N
  /\ "mm2s" \in Channels /\ "s2mm" \in Channels /\ Channels = {"mm2s", "s2mm"}
  /\ Capacities \subseteq Nat
  BY ScriptIs, DmaTestAssumption DEF Done, Channels

LEMMA InitIInv == Init => IInv
  <1> SUFFICES ASSUME Init PROVE IInv
    OBVIOUS
  <1>1. PICK n \in 0..MaxOld : n <= capacity /\ old = Old(n)
    BY DEF Init
  <1>2. /\ old \in Seq(Int) /\ Len(old) = n /\ n \in Nat /\ n <= capacity
        /\ \A i \in 1..n : old[i] = -i
    <2>1. n \in Nat
      BY DmaTestAssumption
    <2>2. QED
      BY <1>1, <2>1 DEF Old
  <1>3. Types
    <2>1. chan \in Registers(N, 0)
      <3>1. ChannelState(1, 0) \subseteq ChannelState(N, 0)
        BY Places DEF ChannelState
      <3>2. chan \in [Channels -> ChannelState(1, 0)]
        BY DEF Init
      <3>3. QED
        BY <3>1, <3>2 DEF Registers
    <2>2. at \in 1..17 /\ dst \in [1..N -> Int] /\ eaten \in Nat
      BY DEF Init
    <2>3. QED
      BY <1>2, <2>1, <2>2 DEF Init, Types
  <1>4. Regs
    BY DEF Init, Regs
  <1>5. In = 0 /\ Out = 0
    BY DEF Init, In, Out
  <1>6. fifo = old /\ eaten = 0 /\ at = 1
    BY DEF Init
  <1>7. Flow
    BY <1>2, <1>5, <1>6 DEF Flow, Word
  <1>8. Room
    BY <1>2, <1>6 DEF Room
  <1>9. QED
    BY <1>3, <1>4, <1>7, <1>8 DEF IInv

-------------------------------------------------------------------------------
(* main()                                                                   *)

LEMMA MainTypes == ASSUME Types, Main PROVE Types'
  <1>1. /\ at \in 1..16 /\ at' = at + 1 /\ UNCHANGED <<hw, dst, outside>>
    BY Places, MainIs DEF Types
  <1>2. chan' \in Registers(N, 0)
    <2>1. chan \in Registers(N, 0) /\ hw \in Hardware
      BY DEF Types
    <2>2. at \in 1..Done
      BY Places DEF Types
    <2>3. CASE at \in {1, 5}
      <3>1. \E c \in Channels : WriteReset(c)
        BY <2>2, <2>3, MainIs, Places
      <3>2. QED
        BY <2>1, <3>1, WriteResetEffect, Places
    <2>4. CASE at \in {2, 3, 4, 6, 7, 8, 9, 13}
      <3>1. \E c \in Channels : \E on \in BOOLEAN : WriteRun(c, on)
        <4>1. CASE at \in {2, 3}
          BY <2>2, <4>1, MainIs, Places
        <4>2. CASE at \in {4, 9}
          BY <2>2, <4>2, MainIs, Places
        <4>3. CASE at \in {6, 7}
          BY <2>2, <4>3, MainIs, Places
        <4>4. CASE at \in {8, 13}
          BY <2>2, <4>4, MainIs, Places
        <4>5. QED
          BY <2>4, <4>1, <4>2, <4>3, <4>4
      <3>2. QED
        BY <2>1, <3>1, WriteRunEffect, Places
    <2>5. CASE at \in {10, 14}
      <3>1. \E c \in Channels : WriteAddress(c, 0)
        BY <2>2, <2>5, MainIs, Places
      <3>2. 0 \in 0..0
        OBVIOUS
      <3>3. QED
        BY <2>1, <3>1, <3>2, WriteAddressEffect, Places
    <2>6. CASE at \in {11, 15}
      <3>1. \E c \in Channels : WriteLength(c, N)
        BY <2>2, <2>6, MainIs, Places
      <3>2. QED
        BY <2>1, <3>1, WriteLengthEffect, Places
    <2>7. CASE at \in {12, 16}
      BY <2>1, <2>2, <2>7, MainIs
    <2>8. QED
      BY <1>1, <2>3, <2>4, <2>5, <2>6, <2>7
  <1>3. at' \in 1..17
    BY <1>1
  <1>4. QED
    BY <1>1, <1>2, <1>3 DEF Types, outside

(* What each access leaves of the registers that Regs speaks of.            *)
LEMMA MainRegs ==
  ASSUME Types, hw.instantReset, Regs, Main
  PROVE  /\ Regs'
         /\ at >= 12 => chan'["mm2s"].left = chan["mm2s"].left
         /\ at = 11 => chan'["mm2s"].left = N
         /\ at >= 16 => chan'["s2mm"].left = chan["s2mm"].left
         /\ at = 15 => chan'["s2mm"].left = N
         /\ at = 12 => chan["mm2s"].left = 0
  <1> DEFINE m == "mm2s"
             s == "s2mm"
  <1>1. /\ at \in 1..16 /\ at' = at + 1 /\ at \in 1..Done
        /\ chan \in Registers(N, 0) /\ hw \in Hardware
        /\ m \in Channels /\ s \in Channels /\ Channels = {m, s} /\ m # s
    BY Places, MainIs DEF Types
  <1>2. /\ ResetState.left = 0 /\ ~ResetState.ioc /\ ~ResetState.resetting
    BY DEF ResetState
  <1>3. CASE at \in {1, 5}
    <2>1. PICK c \in Channels : WriteReset(c) /\ (at = 1 => c = m) /\ (at = 5 => c = s)
      BY <1>1, <1>3, MainIs
    <2>2. /\ chan'[c] = ResetState
          /\ \A d \in Channels : chan'[d] \in {chan[d], ResetState}
      BY <1>1, <2>1, WriteResetEffect, Places
    <2>3. QED
      BY <1>1, <1>2, <1>3, <2>1, <2>2 DEF Regs, Quiet, Flagged
  <1>4. CASE at \in {2, 3, 4, 6, 7, 8, 9, 13}
    <2>1. PICK c \in Channels, on \in BOOLEAN :
            WriteRun(c, on) /\ (at = 9 => c = m /\ on = TRUE) /\ (at = 13 => c = s /\ on = TRUE)
      <3>1. CASE at \in {2, 3}
        <4>1. WriteRun(m, FALSE)
          BY <1>1, <3>1, MainIs, Zenon
        <4>2. at # 9 /\ at # 13
          BY <3>1
        <4>3. QED
          BY <1>1, <4>1, <4>2, Zenon
      <3>2. CASE at \in {4, 9}
        <4>1. WriteRun(m, TRUE)
          BY <1>1, <3>2, MainIs, Zenon
        <4>2. at # 13
          BY <3>2
        <4>3. QED
          BY <1>1, <4>1, <4>2, Zenon
      <3>3. CASE at \in {6, 7}
        <4>1. WriteRun(s, FALSE)
          BY <1>1, <3>3, MainIs, Zenon
        <4>2. at # 9 /\ at # 13
          BY <3>3
        <4>3. QED
          BY <1>1, <4>1, <4>2, Zenon
      <3>4. CASE at \in {8, 13}
        <4>1. WriteRun(s, TRUE)
          BY <1>1, <3>4, MainIs, Zenon
        <4>2. at # 9
          BY <3>4
        <4>3. QED
          BY <1>1, <4>1, <4>2, Zenon
      <3>5. QED
        BY <1>4, <3>1, <3>2, <3>3, <3>4
    <2>2. /\ \A d \in Channels : NoNews(d) /\ chan'[d].left = chan[d].left
          /\ \A d \in Channels : chan'[d].resetting = chan[d].resetting
          /\ ~chan[c].resetting => chan'[c].run = on
          /\ \A d \in Channels \ {c} : chan'[d] = chan[d]
      BY <1>1, <2>1, WriteRunEffect, Places
    <2>3. QED
      BY <1>1, <1>4, <2>1, <2>2 DEF Regs, Quiet, Flagged, NoNews
  <1>5. CASE at \in {10, 14}
    <2>1. PICK c \in Channels : WriteAddress(c, 0) /\ (at = 10 => c = m) /\ (at = 14 => c = s)
      BY <1>1, <1>5, MainIs
    <2>2. /\ \A d \in Channels : NoNews(d) /\ chan'[d].left = chan[d].left
          /\ \A d \in Channels : /\ chan'[d].resetting = chan[d].resetting
                                 /\ chan'[d].run = chan[d].run
          /\ \A d \in Channels \ {c} : chan'[d] = chan[d]
      <3>1. 0 \in 0..0
        OBVIOUS
      <3>2. QED
        BY <1>1, <2>1, <3>1, WriteAddressEffect, Places
    <2>3. QED
      BY <1>1, <1>5, <2>1, <2>2 DEF Regs, Quiet, Flagged, NoNews
  <1>6. CASE at \in {11, 15}
    <2>1. PICK c \in Channels : WriteLength(c, N) /\ (at = 11 => c = m) /\ (at = 15 => c = s)
      BY <1>1, <1>6, MainIs
    <2>2. /\ \A d \in Channels : /\ chan'[d].resetting = chan[d].resetting
                                 /\ chan'[d].ioc = chan[d].ioc
          /\ Arms(c) => chan'[c].left = N
          /\ \A d \in Channels \ {c} : chan'[d] = chan[d]
      BY <1>1, <2>1, WriteLengthEffect, Places
    <2>3. Arms(c)
      BY <1>1, <1>6, <2>1 DEF Regs, Arms
    <2>4. ~chan[c].ioc /\ N # 0
      BY <1>1, <1>6, <2>1, Places DEF Regs, Quiet
    <2>5. QED
      BY <1>1, <1>6, <2>1, <2>2, <2>3, <2>4 DEF Regs, Quiet, Flagged
  <1>7. CASE at \in {12, 16}
    <2>1. /\ UNCHANGED chan
          /\ at = 12 => Synced(m)
          /\ at = 16 => Synced(s)
      BY <1>1, <1>7, MainIs
    <2>2. QED
      BY <1>1, <1>7, <2>1 DEF Regs, Quiet, Flagged, Synced
  <1>8. QED
    BY <1>1, <1>3, <1>4, <1>5, <1>6, <1>7

LEMMA Numbers ==
  ASSUME Types
  PROVE  /\ Len(fifo) \in Nat /\ Len(old) \in Nat /\ capacity \in Nat /\ eaten \in Nat
         /\ at \in 1..17 /\ N \in Nat \ {0}
         /\ In \in 0..N /\ Out \in 0..N
         /\ \A c \in Channels : chan[c].left \in 0..N
  <1>1. \A c \in Channels : chan[c].left \in 0..N
    BY DEF Types, Registers, ChannelState
  <1>2. In \in 0..N /\ Out \in 0..N
    BY <1>1, Places DEF In, Out
  <1>3. Len(fifo) \in Nat /\ Len(old) \in Nat
    BY LenProperties DEF Types
  <1>4. QED
    BY <1>1, <1>2, <1>3, Places DEF Types

LEMMA MainFlow ==
  ASSUME Types, hw.instantReset, Regs, Flow, Room, Main
  PROVE  Flow' /\ Room'
  <1>1. /\ at \in 1..16 /\ at' = at + 1 /\ UNCHANGED <<dst, fifo, capacity, old, eaten>>
    BY Places, MainIs DEF Types, outside
  <1>2. /\ at >= 12 => chan'["mm2s"].left = chan["mm2s"].left
        /\ at = 11 => chan'["mm2s"].left = N
        /\ at >= 16 => chan'["s2mm"].left = chan["s2mm"].left
        /\ at = 15 => chan'["s2mm"].left = N
        /\ at = 12 => chan["mm2s"].left = 0
    BY MainRegs
  <1>3. In' = In /\ Out' = Out
    <2>1. CASE at = 11
      BY <1>1, <1>2, <2>1, Numbers DEF In, Out
    <2>2. CASE at = 15
      BY <1>1, <1>2, <2>2, Numbers DEF In, Out
    <2>3. CASE at # 11 /\ at # 15
      <3>1. In' = In
        BY <1>1, <1>2, <2>3, Numbers DEF In
      <3>2. Out' = Out
        BY <1>1, <1>2, <2>3, Numbers DEF Out
      <3>3. QED
        BY <3>1, <3>2
    <2>4. QED
      BY <2>1, <2>2, <2>3
  <1>4. Flow'
    BY <1>1, <1>3 DEF Flow, Word
  <1>5. Room'
    <2>1. CASE at = 12
      <3>1. Out = N /\ In = 0
        BY <1>2, <2>1, Numbers DEF Out, In
      <3>2. Len(fifo) = Len(old) + N - eaten
        BY <3>1, Numbers DEF Flow
      <3>3. QED
        BY <1>1, <3>2, Numbers DEF Room
    <2>2. CASE at # 12
      BY <1>1, <2>2 DEF Room
    <2>3. QED
      BY <2>1, <2>2
  <1>6. QED
    BY <1>4, <1>5

-------------------------------------------------------------------------------
(* The engine.                                                              *)

LEMMA EngineTypes == ASSUME Types, Progress \/ Drops PROVE Types'
  <1>1. /\ chan \in Registers(N, 0) /\ at \in 1..17 /\ dst \in [1..N -> Int]
        /\ fifo \in Seq(Int) /\ old \in Seq(Int) /\ eaten \in Nat
        /\ hw' = hw /\ at' = at /\ capacity' = capacity
    BY DEF Types, Progress, Drops, Sent, Received, outside
  <1>2. CASE Drops \/ (Switches /\ UNCHANGED <<dst, outside>>)
    <2>1. chan' \in Registers(N, 0) /\ UNCHANGED <<dst, outside>>
      BY <1>1, <1>2, SwitchesEffect, IdleEndsEffect, Places DEF Drops
    <2>2. QED
      BY <1>1, <2>1 DEF Types, outside
  <1>3. CASE Sent
    <2>1. chan' \in Registers(N, 0)
      BY <1>1, <1>3, MovesEffect, Places DEF Sent
    <2>2. PICK w \in Int : fifo' = Append(fifo, w) /\ old' \in {old, Append(old, w)}
      <3>1. Position("mm2s") \in Int /\ -(Len(old) + 1) \in Int
        BY Numbers, Places DEF Position
      <3>2. QED
        BY <1>3, <3>1 DEF Sent
    <2>3. fifo' \in Seq(Int) /\ old' \in Seq(Int)
      <3>1. Append(fifo, w) \in Seq(Int) /\ Append(old, w) \in Seq(Int)
        BY <1>1
      <3>2. QED
        BY <1>1, <2>2, <3>1
    <2>4. QED
      BY <1>1, <1>3, <2>1, <2>3 DEF Types, Sent
  <1>4. CASE Received
    <2>1. chan' \in Registers(N, 0)
      BY <1>1, <1>4, MovesEffect, Places DEF Received
    <2>2. Head(fifo) \in Int /\ Tail(fifo) \in Seq(Int)
      BY <1>1, <1>4 DEF Received
    <2>3. dst' \in [1..N -> Int] /\ eaten' \in Nat /\ fifo' \in Seq(Int)
      BY <1>1, <1>4, <2>2 DEF Received
    <2>4. QED
      BY <1>1, <1>4, <2>1, <2>3 DEF Types, Received
  <1>5. QED
    BY <1>2, <1>3, <1>4 DEF Progress

(* What makes a channel halt, go on or cease to be idle.                    *)
LEMMA FlagsKeep ==
  ASSUME Types, Regs, Flow, Room, Drops \/ (Progress /\ Switches /\ UNCHANGED <<dst, outside>>)
  PROVE  Regs' /\ Flow' /\ Room'
  <1>1. /\ chan \in Registers(N, 0) /\ UNCHANGED <<at, dst, fifo, capacity, old, eaten>>
        /\ \A c \in Channels : ~chan[c].resetting
    BY DEF Types, Regs, Progress, Drops, outside
  <1>2. \A d \in Channels : /\ ~chan'[d].resetting
                            /\ chan'[d].left = chan[d].left
                            /\ chan'[d].run = chan[d].run
                            /\ chan'[d].ioc = chan[d].ioc
    BY <1>1, SwitchesEffect, IdleEndsEffect, Places DEF Drops
  <1>3. Regs'
    BY <1>1, <1>2, Places DEF Regs, Quiet, Flagged
  <1>4. In' = In /\ Out' = Out
    BY <1>1, <1>2, Places DEF In, Out
  <1>5. QED
    BY <1>1, <1>3, <1>4 DEF Flow, Word, Room

(* What a channel moves leaves Regs as it is.                               *)
LEMMA MovesRegs ==
  ASSUME Types, Regs, NEW c \in Channels, Moves(c), at' = at
  PROVE  /\ Regs'
         /\ chan[c].left > 0 /\ chan'[c].left = chan[c].left - 1
         /\ \A d \in Channels \ {c} : chan'[d] = chan[d]
  <1>1. chan \in Registers(N, 0) /\ chan[c].left \in 0..N
    BY Numbers DEF Types
  <1>2. /\ chan[c].left > 0 /\ ~chan[c].resetting
        /\ chan'[c].left = chan[c].left - 1
        /\ chan'[c].left = 0 => chan'[c].ioc
        /\ chan'[c].left > 0 => chan'[c].ioc = chan[c].ioc
        /\ chan'[c].resetting = chan[c].resetting
        /\ chan'[c].run = chan[c].run
        /\ \A d \in Channels \ {c} : chan'[d] = chan[d]
    BY <1>1, MovesEffect, Places
  <1>3. Regs'
    <2>1. CASE c = "mm2s"
      BY <1>1, <1>2, <2>1, Places DEF Regs, Quiet, Flagged
    <2>2. CASE c = "s2mm"
      BY <1>1, <1>2, <2>2, Places DEF Regs, Quiet, Flagged
    <2>3. QED
      BY <2>1, <2>2, Places
  <1>4. QED
    BY <1>2, <1>3

LEMMA SentKeeps ==
  ASSUME Types, Regs, Flow, Room, Sent, at' = at
  PROVE  Regs' /\ Flow' /\ Room'
  <1>1. /\ Regs' /\ chan["mm2s"].left > 0 /\ chan'["mm2s"].left = chan["mm2s"].left - 1
        /\ chan'["s2mm"] = chan["s2mm"]
        /\ UNCHANGED <<at, dst, capacity, eaten>> /\ Len(fifo) < capacity
    BY MovesRegs, Places DEF Sent
  <1>2. In' = In
    BY <1>1 DEF In
  <1>3. /\ Started("mm2s") <=> at > 11
    BY StartedIs, Places DEF Types
  <1> DEFINE w == IF at > 11 THEN Out + 1 ELSE -(Len(old) + 1)
  <1>4. /\ fifo' = Append(fifo, w)
        /\ old' = IF at > 11 THEN old ELSE Append(old, w)
        /\ Out' = IF at > 11 THEN Out + 1 ELSE Out
        /\ at > 11 \/ Out = 0
    <2>1. at > 11 <=> at >= 12
      <3>1. at \in Nat
        BY Numbers
      <3>2. QED
        BY <3>1
    <2>2. at > 11 => Position("mm2s") = Out + 1
      BY <2>1, Numbers, Places DEF Position, Out
    <2>3. fifo' = Append(fifo, w) /\ old' = IF at > 11 THEN old ELSE Append(old, w)
      BY <1>3, <2>2 DEF Sent
    <2>4. Out' = IF at > 11 THEN Out + 1 ELSE Out
      BY <1>1, <2>1, Numbers, Places DEF Out
    <2>5. QED
      BY <2>1, <2>3, <2>4 DEF Out
  <1>5. /\ w \in Int /\ fifo \in Seq(Int) /\ old \in Seq(Int)
        /\ Len(fifo) \in Nat /\ Len(old) \in Nat /\ capacity \in Nat /\ eaten \in Nat
        /\ In \in Nat /\ Out \in Nat /\ at \in 1..17
    BY Numbers DEF Types
  <1> HIDE DEF w
  <1>6. /\ Len(fifo') = Len(fifo) + 1 /\ fifo'[Len(fifo) + 1] = w
        /\ \A i \in 1..Len(fifo) : fifo'[i] = fifo[i]
    BY <1>4, <1>5
  <1>7. /\ eaten + In + Len(fifo) = Len(old) + Out
        /\ \A i \in 1..Len(old) : old[i] = -i
        /\ \A i \in 1..In : dst[i] = Word(eaten + i)
        /\ \A i \in 1..Len(fifo) : fifo[i] = Word(eaten + In + i)
    BY DEF Flow
  <1>8. CASE at > 11
    <2>1. w = Out + 1 /\ old' = old /\ Out' = Out + 1
      BY <1>4, <1>8 DEF w
    <2>2. Word(Len(old) + Out + 1) = Out + 1
      BY Numbers DEF Word
    <2>3. \A i \in 1..Len(fifo') : fifo'[i] = Word(eaten + In + i)
      <3>1. eaten + In + (Len(fifo) + 1) = Len(old) + Out + 1
        BY <1>7, Numbers
      <3>2. fifo'[Len(fifo) + 1] = Word(eaten + In + (Len(fifo) + 1))
        BY <1>6, <2>1, <2>2, <3>1
      <3>3. \A i \in 1..(Len(fifo) + 1) : i \in 1..Len(fifo) \/ i = Len(fifo) + 1
        BY <1>5
      <3>4. ASSUME NEW i \in 1..(Len(fifo) + 1)
            PROVE  fifo'[i] = Word(eaten + In + i)
        <4>1. CASE i = Len(fifo) + 1
          BY <3>2, <4>1
        <4>2. CASE i \in 1..Len(fifo)
          BY <1>6, <1>7, <4>2
        <4>3. QED
          BY <3>3, <4>1, <4>2
      <3>5. Len(fifo') = Len(fifo) + 1
        BY <1>6
      <3>6. QED
        BY <3>4, <3>5
    <2>4. Flow'
      <3>1. eaten + In + Len(fifo') = Len(old) + Out'
        <4>1. Len(fifo') = Len(fifo) + 1 /\ Out' = Out + 1
          BY <1>6, <2>1
        <4>2. eaten + In + Len(fifo) = Len(old) + Out
          BY <1>7
        <4> DEFINE f == Len(fifo)
                   o == Len(old)
                   i == In
                   s == Out
        <4>3. /\ f \in Nat /\ o \in Nat /\ i \in Nat /\ s \in Nat /\ eaten \in Nat
              /\ eaten + i + f = o + s
          BY <1>5, <4>2
        <4> HIDE DEF f, o, i, s
        <4>4. eaten + i + (f + 1) = o + (s + 1)
          BY <4>3
        <4>5. QED
          BY <4>1, <4>4 DEF f, o, i, s
      <3>2. QED
        BY <1>1, <1>2, <1>7, <2>1, <2>3, <3>1 DEF Flow, Word
    <2>5. Room'
      <3>1. at < 13
        <4>1. at >= 13 => chan["mm2s"].left = 0
          BY DEF Regs
        <4>2. chan["mm2s"].left > 0
          BY <1>1
        <4>3. QED
          BY <1>5, <4>1, <4>2
      <3>2. Len(fifo') <= capacity /\ UNCHANGED <<at, capacity>>
        <4>1. Len(fifo') = Len(fifo) + 1
          BY <1>6
        <4>2. QED
          BY <1>1, <1>5, <4>1
      <3>3. QED
        BY <1>5, <3>1, <3>2 DEF Room
    <2>6. QED
      BY <1>1, <2>4, <2>5
  <1>9. CASE ~(at > 11)
    <2>1. w = -(Len(old) + 1) /\ old' = Append(old, w) /\ Out' = 0 /\ Out = 0 /\ In = 0
      <3>1. w = -(Len(old) + 1)
        BY <1>9 DEF w
      <3>2. In = 0
        BY <1>5, <1>9 DEF In
      <3>3. QED
        BY <1>4, <1>9, <3>1, <3>2
    <2>2. /\ Len(old') = Len(old) + 1 /\ old'[Len(old) + 1] = w
          /\ \A i \in 1..Len(old) : old'[i] = old[i]
      BY <1>5, <2>1
    <2>3. \A i \in 1..Len(old') : old'[i] = -i
      BY <1>7, <2>1, <2>2, Numbers
    <2>4. \A i \in 1..Len(fifo') : fifo'[i] = -(eaten + i) /\ eaten + i <= Len(old')
      <3>1. eaten + Len(fifo) = Len(old)
        BY <1>7, <2>1, Numbers
      <3>2. \A i \in 1..Len(fifo) : fifo[i] = -(eaten + i) /\ eaten + i <= Len(old)
        BY <1>7, <2>1, <3>1, Numbers DEF Word
      <3>3. ASSUME NEW i \in 1..(Len(fifo) + 1)
            PROVE  fifo'[i] = -(eaten + i) /\ eaten + i <= Len(old) + 1
        <4>1. CASE i = Len(fifo) + 1
          <5>1. fifo'[i] = w /\ eaten + i = Len(old) + 1
            <6>1. fifo'[i] = w
              BY <1>6, <4>1
            <6>2. eaten + i = Len(old) + 1
              BY <1>5, <3>1, <4>1
            <6>3. QED
              BY <6>1, <6>2
          <5>2. QED
            BY <1>5, <2>1, <5>1
        <4>2. CASE i \in 1..Len(fifo)
          BY <1>5, <1>6, <3>2, <4>2
        <4>3. QED
          BY <1>5, <4>1, <4>2
      <3>4. Len(fifo') = Len(fifo) + 1 /\ Len(old') = Len(old) + 1
        BY <1>6, <2>2
      <3>5. QED
        BY <3>3, <3>4
    <2>5. Flow'
      <3>1. eaten + In' + Len(fifo') = Len(old') + Out'
        BY <1>2, <1>6, <1>7, <2>1, <2>2, Numbers
      <3>2. \A i \in 1..Len(fifo') : fifo'[i] = Word(eaten + In + i)'
        BY <1>1, <1>2, <2>1, <2>4, Numbers DEF Word
      <3>3. QED
        BY <1>1, <1>2, <2>1, <2>3, <3>1, <3>2 DEF Flow
    <2>6. Room'
      <3>1. Len(fifo') <= capacity /\ UNCHANGED <<at, capacity>>
        <4>1. Len(fifo') = Len(fifo) + 1
          BY <1>6
        <4>2. QED
          BY <1>1, <1>5, <4>1
      <3>2. QED
        BY <1>5, <1>9, <3>1 DEF Room
    <2>7. QED
      BY <1>1, <2>5, <2>6
  <1>10. QED
    BY <1>8, <1>9

(* s2mm stores the next word of the flow, or takes it for another program.   *)
LEMMA ReceivedKeeps ==
  ASSUME Types, Regs, Flow, Room, Received, at' = at
  PROVE  Regs' /\ Flow' /\ Room'
  <1>1. /\ Regs' /\ chan["s2mm"].left > 0 /\ chan'["s2mm"].left = chan["s2mm"].left - 1
        /\ chan'["mm2s"] = chan["mm2s"]
        /\ UNCHANGED <<at, capacity, old>> /\ fifo # <<>>
        /\ fifo' = Tail(fifo)
    BY MovesRegs, Places DEF Received
  <1>2. Out' = Out
    BY <1>1 DEF Out
  <1>3. /\ fifo \in Seq(Int) /\ dst \in [1..N -> Int]
        /\ Len(fifo) \in Nat /\ Len(old) \in Nat /\ capacity \in Nat /\ eaten \in Nat
        /\ In \in Nat /\ Out \in Nat /\ at \in 1..17
    BY Numbers DEF Types
  <1>4. /\ Len(fifo) > 0 /\ Head(fifo) = fifo[1] /\ Len(fifo') = Len(fifo) - 1
        /\ \A i \in 1..Len(fifo') : fifo'[i] = fifo[i + 1]
    BY <1>1, <1>3
  <1>5. /\ eaten + In + Len(fifo) = Len(old) + Out
        /\ \A i \in 1..Len(old) : old[i] = -i
        /\ \A i \in 1..In : dst[i] = Word(eaten + i)
        /\ \A i \in 1..Len(fifo) : fifo[i] = Word(eaten + In + i)
    BY DEF Flow
  <1>6. \A i \in Int : Word(i)' = Word(i)
    BY <1>1 DEF Word
  <1>7. /\ \A i \in 1..Len(fifo') : fifo'[i] = Word(eaten + In + (i + 1))
        /\ Head(fifo) = Word(eaten + In + 1)
    <2>1. \A i \in 1..Len(fifo') : i + 1 \in 1..Len(fifo)
      BY <1>3, <1>4
    <2>2. 1 \in 1..Len(fifo)
      BY <1>3, <1>4
    <2>3. QED
      BY <1>4, <1>5, <2>1, <2>2
  <1>8. PICK e \in Nat, n \in Nat :
          /\ eaten' = e /\ In' = n /\ e + n = eaten + In + 1
          /\ \A i \in 1..n : dst'[i] = Word(e + i)
    <2>1. CASE at > 15
      <3>1. In = N - chan["s2mm"].left /\ In' = In + 1 /\ In + 1 \in 1..N
        <4>1. at \in 1..17 /\ at >= 16 /\ at' >= 16
          BY <1>1, <1>3, <2>1
        <4>2. In = N - chan["s2mm"].left /\ In' = N - chan'["s2mm"].left
          BY <4>1 DEF In
        <4>3. chan["s2mm"].left \in 0..N
          BY Numbers, Places
        <4>4. QED
          BY <1>1, <4>2, <4>3, Places
      <3>2. Started("s2mm") /\ Position("s2mm") = In + 1
        <4>1. Started("s2mm")
          BY <2>1, StartedIs, Places DEF Types
        <4>2. Position("s2mm") = In + 1
          BY <3>1, Numbers DEF Position
        <4>3. QED
          BY <4>1, <4>2
      <3>3. eaten' = eaten /\ dst' = [dst EXCEPT ![In + 1] = Head(fifo)]
        BY <3>2 DEF Received
      <3>4. dst'[In + 1] = Word(eaten + In + 1) /\ \A i \in 1..In : dst'[i] = dst[i]
        BY <1>3, <1>7, <3>1, <3>3
      <3>5. ASSUME NEW i \in 1..(In + 1)
            PROVE  dst'[i] = Word(eaten + i)
        <4>1. CASE i = In + 1
          <5>1. eaten + i = eaten + In + 1
            BY <1>3, <4>1
          <5>2. QED
            BY <3>4, <4>1, <5>1
        <4>2. CASE i \in 1..In
          BY <1>5, <3>4, <4>2
        <4>3. QED
          BY <1>3, <4>1, <4>2
      <3>6. In + 1 \in Nat /\ eaten \in Nat /\ eaten + (In + 1) = eaten + In + 1
        BY <1>3
      <3>7. QED
        BY <3>1, <3>3, <3>5, <3>6
    <2>2. CASE ~(at > 15)
      <3>1. In = 0 /\ In' = 0
        BY <1>1, <1>3, <2>2 DEF In
      <3>2. eaten' = eaten + 1
        BY <2>2, StartedIs, Places DEF Received, Types
      <3>3. eaten + 1 \in Nat /\ eaten + 1 + 0 = eaten + In + 1
        BY <1>3, <3>1
      <3>4. \A i \in 1..0 : dst'[i] = Word(eaten + 1 + i)
        OBVIOUS
      <3>5. QED
        BY <3>1, <3>2, <3>3, <3>4
    <2>3. QED
      BY <2>1, <2>2
  <1>9. Flow'
    <2>1. e + n + Len(fifo') = Len(old) + Out
      <3>1. Len(fifo') = Len(fifo) - 1 /\ e + n = eaten + In + 1
        BY <1>4, <1>8
      <3>2. eaten + In + Len(fifo) = Len(old) + Out
        BY <1>5
      <3>3. QED
        BY <1>3, <3>1, <3>2
    <2>2. ASSUME NEW i \in 1..Len(fifo')
          PROVE  fifo'[i] = Word(e + n + i)
      <3>1. e + n + i = eaten + In + (i + 1)
        BY <1>3, <1>8
      <3>2. QED
        BY <1>7, <3>1
    <2>3. QED
      BY <1>1, <1>2, <1>5, <1>8, <2>1, <2>2 DEF Flow, Word
  <1>10. Room'
    <2>1. Len(fifo') <= capacity
      BY <1>3, <1>4 DEF Room
    <2>2. at >= 13 => eaten' = eaten
      <3>1. at >= 13 => at > 15
        <4>1. at \in 6..15 => chan["s2mm"].left = 0
          BY DEF Regs, Quiet
        <4>2. QED
          BY <1>1, <1>3, <4>1
      <3>2. at > 15 => eaten' = eaten
        BY StartedIs, Places DEF Received, Types
      <3>3. QED
        BY <3>1, <3>2
    <2>3. QED
      BY <1>1, <2>1, <2>2 DEF Room
  <1>11. QED
    BY <1>1, <1>9, <1>10

LEMMA NextIInv == IInv /\ [Next]_vars => IInv'
  <1> SUFFICES ASSUME IInv, [Next]_vars PROVE IInv'
    OBVIOUS
  <1>1. Types
    BY DEF IInv
  <1>2. CASE Main
    <2>1. Types' /\ hw' = hw
      BY <1>1, <1>2, MainTypes DEF Main
    <2>2. hw.instantReset => Regs' /\ Flow' /\ Room'
      BY <1>1, <1>2, MainRegs, MainFlow DEF IInv
    <2>3. QED
      BY <2>1, <2>2 DEF IInv
  <1>3. CASE Progress \/ Drops
    <2>1. Types' /\ hw' = hw /\ at' = at
      BY <1>1, <1>3, EngineTypes DEF Progress, Drops
    <2>2. ASSUME hw.instantReset PROVE Regs' /\ Flow' /\ Room'
      <3>1. Regs /\ Flow /\ Room
        BY <2>2 DEF IInv
      <3>2. CASE Sent
        BY <1>1, <2>1, <3>1, <3>2, SentKeeps
      <3>3. CASE Received
        BY <1>1, <2>1, <3>1, <3>3, ReceivedKeeps
      <3>4. CASE Drops \/ (Progress /\ Switches /\ UNCHANGED <<dst, outside>>)
        BY <1>1, <3>1, <3>4, FlagsKeep
      <3>5. QED
        BY <1>3, <3>2, <3>3, <3>4 DEF Progress
    <2>3. QED
      BY <2>1, <2>2 DEF IInv
  <1>4. CASE UNCHANGED vars
    <2>1. UNCHANGED <<hw, chan, at, dst, fifo, capacity, old, eaten>>
      BY <1>4 DEF vars
    <2>2. Types' <=> Types
      BY <2>1 DEF Types
    <2>3. (Regs' <=> Regs) /\ (Room' <=> Room)
      BY <2>1 DEF Regs, Quiet, Flagged, Room
    <2>4. Flow' <=> Flow
      BY <2>1 DEF Flow, Word, In, Out
    <2>5. QED
      BY <2>1, <2>2, <2>3, <2>4 DEF IInv
  <1>5. QED
    BY <1>2, <1>3, <1>4 DEF Next

LEMMA SpecIInv == Spec => []IInv
  <1>1. QED
    BY InitIInv, NextIInv, PTL DEF Spec

-------------------------------------------------------------------------------
(* The theorems.                                                            *)

(* Every variable stays in its set, with at most N words left of a transfer  *)
(* (dmatest.c:187-252).                                                     *)
THEOREM TypeCorrect == Spec => []TypeOK
  <1>1. IInv => TypeOK
    <2> SUFFICES ASSUME IInv PROVE TypeOK
      OBVIOUS
    <2>1. (IF N > 1 THEN N ELSE 1) = N
      BY Places
    <2>2. chan \in [Channels -> ChannelState(IF N > 1 THEN N ELSE 1, 0)]
      BY <2>1 DEF IInv, Types, Registers
    <2>3. QED
      BY <2>2, Places DEF IInv, Types, TypeOK
  <1>2. QED
    BY <1>1, SpecIInv, PTL

(* The FIFO holds the whole transfer once mm2s was waited for: the test can  *)
(* only get on with s2mm where it fits (dmatest.c:238-252).                 *)
THEOREM FifoSuffices == Spec => []FifoHoldsTransfer
  <1>1. IInv => FifoHoldsTransfer
    <2> SUFFICES ASSUME IInv, Waited("mm2s"), hw.instantReset
                 PROVE  Len(old) - eaten + N <= capacity
      BY DEF FifoHoldsTransfer
    <2>1. at > 12 /\ at \in 1..17
      BY StartedIs, Places DEF IInv, Types
    <2>2. at >= 13
      BY <2>1
    <2>3. QED
      BY <2>2 DEF IInv, Room
  <1>2. QED
    BY <1>1, SpecIInv, PTL

(* When the test ends the words of the source are back in order, none of     *)
(* them lost, behind what was in the FIFO before (dmatest.c:233-257).       *)
THEOREM WordsComeBack == Spec => []LoopBack
  <1>1. IInv => LoopBack
    <2> SUFFICES ASSUME IInv, at = Done, hw.instantReset
                 PROVE  dst \o fifo = SubSeq(old \o [i \in 1..N |-> i], eaten + 1, Len(old) + N)
      BY DEF LoopBack
    <2>1. Types /\ Regs /\ Flow /\ at = 17
      BY Places DEF IInv
    <2>2. In = N /\ Out = N
      BY <2>1, Numbers DEF Regs, In, Out
    <2> DEFINE src == [i \in 1..N |-> i]
               all == Joined(old, src)
               back == Joined(dst, fifo)
    <2>3. /\ old \in Seq(Int) /\ fifo \in Seq(Int) /\ dst \in Seq(Int) /\ Len(dst) = N
          /\ src \in Seq(Int) /\ Len(src) = N
          /\ \A i \in 1..N : src[i] = i
      BY <2>1, Places DEF Types
    <2> HIDE DEF src
    <2>4. /\ eaten + Len(fifo) = Len(old)
          /\ Len(fifo) \in Nat /\ Len(old) \in Nat /\ eaten \in Nat /\ N \in Nat \ {0}
      <3>1. eaten + N + Len(fifo) = Len(old) + N
        BY <2>1, <2>2 DEF Flow
      <3>2. QED
        BY <2>1, <3>1, Numbers
    <2>5. /\ all \in Seq(Int) /\ Len(all) = Len(old) + N
          /\ \A i \in 1..(Len(old) + N) : all[i] = Word(i)
      <3>1. /\ old \o src \in Seq(Int) /\ Len(old \o src) = Len(old) + Len(src)
            /\ \A i \in 1..(Len(old) + Len(src)) :
                 (old \o src)[i] = IF i <= Len(old) THEN old[i] ELSE src[i - Len(old)]
        BY <2>3, ConcatProperties
      <3>2. /\ all \in Seq(Int) /\ Len(all) = Len(old) + N
            /\ \A i \in 1..(Len(old) + N) :
                 all[i] = IF i <= Len(old) THEN old[i] ELSE src[i - Len(old)]
        BY <2>3, <3>1 DEF Joined
      <3> HIDE DEF all
      <3>3. \A i \in 1..Len(old) : old[i] = -i
        BY <2>1 DEF Flow
      <3>4. QED
        BY <2>3, <2>4, <3>2, <3>3 DEF Word
    <2>6. /\ back \in Seq(Int) /\ Len(back) = N + Len(fifo)
          /\ \A i \in 1..(N + Len(fifo)) : back[i] = Word(eaten + i)
      <3>1. /\ dst \o fifo \in Seq(Int) /\ Len(dst \o fifo) = Len(dst) + Len(fifo)
            /\ \A i \in 1..(Len(dst) + Len(fifo)) :
                 (dst \o fifo)[i] = IF i <= Len(dst) THEN dst[i] ELSE fifo[i - Len(dst)]
        BY <2>3, ConcatProperties
      <3>2. /\ back \in Seq(Int) /\ Len(back) = N + Len(fifo)
            /\ \A i \in 1..(N + Len(fifo)) : back[i] = IF i <= N THEN dst[i] ELSE fifo[i - N]
        BY <2>3, <3>1 DEF Joined
      <3> HIDE DEF back
      <3>3. /\ \A i \in 1..N : dst[i] = Word(eaten + i)
            /\ \A i \in 1..Len(fifo) : fifo[i] = Word(eaten + N + i)
        BY <2>1, <2>2 DEF Flow
      <3>4. ASSUME NEW i \in 1..(N + Len(fifo))
            PROVE  back[i] = Word(eaten + i)
        <4>1. CASE i <= N
          <5>1. i \in 1..N
            BY <2>4, <4>1
          <5>2. back[i] = dst[i]
            BY <3>2, <4>1
          <5>3. QED
            BY <3>3, <5>1, <5>2
        <4>2. CASE ~(i <= N)
          <5>1. i - N \in 1..Len(fifo) /\ eaten + N + (i - N) = eaten + i
            BY <2>4, <4>2
          <5>2. back[i] = fifo[i - N]
            BY <3>2, <4>2
          <5>3. QED
            BY <3>3, <5>1, <5>2
        <4>3. QED
          BY <4>1, <4>2
      <3>5. QED
        BY <3>2, <3>4
    <2> HIDE DEF all, back
    <2>7. /\ SubSeq(all, eaten + 1, Len(old) + N) \in Seq(Int)
          /\ Len(SubSeq(all, eaten + 1, Len(old) + N)) = N + Len(fifo)
          /\ \A i \in 1..(N + Len(fifo)) :
               SubSeq(all, eaten + 1, Len(old) + N)[i] = Word(eaten + i)
      <3>1. \A i \in (eaten + 1)..(Len(old) + N) : all[i] \in Int
        BY <2>4, <2>5
      <3>2. /\ eaten + 1 \in Int /\ Len(old) + N \in Int /\ eaten + 1 <= Len(old) + N
            /\ (Len(old) + N) - (eaten + 1) + 1 = N + Len(fifo)
        BY <2>4
      <3>3. /\ SubSeq(all, eaten + 1, Len(old) + N) \in Seq(Int)
            /\ Len(SubSeq(all, eaten + 1, Len(old) + N)) = (Len(old) + N) - (eaten + 1) + 1
            /\ \A i \in 1..((Len(old) + N) - (eaten + 1) + 1) :
                 SubSeq(all, eaten + 1, Len(old) + N)[i] = all[eaten + 1 + i - 1]
        BY <3>1, <3>2, SubSeqProperties
      <3>4. \A i \in 1..(N + Len(fifo)) : /\ eaten + 1 + i - 1 = eaten + i
                                          /\ eaten + i \in 1..(Len(old) + N)
        BY <2>4
      <3>5. QED
        BY <2>5, <3>2, <3>3, <3>4
    <2>8. back = SubSeq(all, eaten + 1, Len(old) + N)
      BY <2>6, <2>7, SeqEqual
    <2>9. QED
      BY <2>8 DEF back, all, src, Joined
  <1>2. QED
    BY <1>1, SpecIInv, PTL
=============================================================================
