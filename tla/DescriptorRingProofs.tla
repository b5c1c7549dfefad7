------------------------- MODULE DescriptorRingProofs -------------------------
(***************************************************************************)
(* Theorems about the chain of descriptors, for every length of a           *)
(* descriptor and every set of buffer sizes with a largest one.  What        *)
(* ProcessDescriptors adds up is a recursive function, so what it adds up to *)
(* is proved by the smallest counterexample.                                 *)
(***************************************************************************)
EXTENDS DescriptorRing, Integers, SequenceTheorems, WellFoundedInduction, TLAPS

-------------------------------------------------------------------------------
(* The inductive invariant.                                                 *)

Descriptors ==
  [next : Nat, buffer : Nat, length : Nat, lastOfFrame : BOOLEAN,
   complete : BOOLEAN, sof : BOOLEAN, transferred : Nat]

Types ==
  /\ isRx \in BOOLEAN
  /\ memory \in [Slots -> Descriptors]
  /\ size \in Nat /\ bd_count \in Nat /\ tail \in Nat
  /\ phase \in {"free", "ready", "running", "counted", "summed"}
  /\ engine \in [at : Nat, active : BOOLEAN]
  /\ irq \in BOOLEAN /\ midFrame \in BOOLEAN
  /\ frames \in 0..2
  /\ moved \in Seq(Nat)

(* The current call transfers a buffer of one descriptor or more.           *)
Call == size \in Sizes /\ bd_count = CalcDescrCount(size) /\ bd_count >= 1

(* Descriptor i is as InitDescriptors left it.                              *)
Fresh(i) ==
  /\ memory[i].next = IF i = Last(bd_count) THEN 0 ELSE i + 1
  /\ memory[i].buffer = BufferAddr(i, bd_count)
  /\ memory[i].length = DescrLength(i, bd_count, size)
  /\ memory[i].lastOfFrame = (~isRx /\ i = Last(bd_count))
  /\ ~memory[i].complete

AtRest == phase \in {"free", "ready"} => ~engine.active /\ ~irq /\ ~midFrame

Prepared ==
  phase = "ready" =>
    /\ Call /\ moved = <<>> /\ frames = 0
    /\ \A i \in 0..Last(bd_count) : Fresh(i)

(* Ahead of the engine the chain is fresh, behind it complete, as far as it  *)
(* was not freed.                                                           *)
Running ==
  engine.active =>
    /\ Call /\ tail = Last(bd_count) /\ engine.at \in 0..Last(bd_count)
    /\ \A i \in (engine.at)..Last(bd_count) : Fresh(i)
    /\ phase = "running" => \A i \in 0..(engine.at - 1) : memory[i].complete
    /\ phase = "counted" => processed \in Slots /\ processed <= engine.at

(* While it sends, or receives its first packet, the descriptors behind the  *)
(* engine are full.                                                         *)
Filled ==
  engine.active =>
    /\ engine.at = 0 => ~midFrame /\ moved = <<>>
    /\ isRx /\ engine.at >= 1 => frames >= 1
    /\ (~isRx \/ (frames <= 1 /\ (midFrame \/ engine.at = 0)))
         => Len(moved) = engine.at * BytesPerDesc
    /\ ~isRx => phase = "running" /\ ~irq

AllSent ==
  ~isRx /\ ((phase = "running" /\ irq) \/ phase = "counted") =>
    ~engine.active /\ Len(moved) = size

Inside == \A i \in 1..Len(moved) : moved[i] < size

IInv ==
  Types /\ AtRest /\ Prepared /\ Running /\ Filled /\ AllSent /\ Inside /\ BufferInOrder

-------------------------------------------------------------------------------
(* The arithmetic of a chain: the descriptors lie in the buffer, and those   *)
(* of the whole chain are as long as it.                                    *)

LEMMA CountIs ==
  ASSUME NEW s \in Sizes
  PROVE  /\ s \in Nat /\ CalcDescrCount(s) \in Nat
         /\ s % BytesPerDesc \in Nat /\ s % BytesPerDesc < BytesPerDesc
         /\ s = BytesPerDesc * (s \div BytesPerDesc) + (s % BytesPerDesc)
         /\ s \div BytesPerDesc \in Nat
  <1>1. s \in Nat /\ BytesPerDesc \in Nat \ {0}
    BY RingAssumption
  <1>2. s \div BytesPerDesc \in Nat /\ s % BytesPerDesc \in 0..(BytesPerDesc - 1)
    BY <1>1
  <1>3. s = BytesPerDesc * (s \div BytesPerDesc) + (s % BytesPerDesc)
    BY <1>1
  <1>4. CalcDescrCount(s) \in Nat
    BY <1>2 DEF CalcDescrCount
  <1>5. QED
    BY <1>1, <1>2, <1>3, <1>4

LEMMA Multiples ==
  ASSUME NEW i \in Nat
  PROVE  /\ i * BytesPerDesc \in Nat
         /\ (i + 1) * BytesPerDesc = i * BytesPerDesc + BytesPerDesc
         /\ BytesPerDesc * i = i * BytesPerDesc
  BY RingAssumption

LEMMA ChainFits ==
  ASSUME NEW s \in Sizes, NEW n, n = CalcDescrCount(s), n >= 1
  PROVE  /\ n \in Nat /\ Last(n) \in Nat /\ Last(n) + 1 = n
         /\ Last(n) * BytesPerDesc + DescrLength(Last(n), n, s) = s
         /\ \A i \in 0..Last(n) :
              /\ BufferAddr(i, n) \in Nat
              /\ DescrLength(i, n, s) \in Nat \ {0}
              /\ BufferAddr(i, n) + DescrLength(i, n, s) <= s
              /\ i < Last(n) => DescrLength(i, n, s) = BytesPerDesc
  <1> DEFINE q == s \div BytesPerDesc
             r == s % BytesPerDesc
  <1>1. /\ s \in Nat /\ n \in Nat /\ q \in Nat /\ r \in Nat /\ r < BytesPerDesc
        /\ s = q * BytesPerDesc + r
        /\ BytesPerDesc \in Nat \ {0}
    <2>1. /\ s \in Nat /\ n \in Nat /\ q \in Nat /\ r \in Nat /\ r < BytesPerDesc
          /\ s = BytesPerDesc * q + r
      BY CountIs
    <2>2. BytesPerDesc * q = q * BytesPerDesc
      BY <2>1, Multiples
    <2>3. QED
      BY <2>1, <2>2, RingAssumption
  <1>2. n = IF r = 0 THEN q ELSE q + 1
    BY <1>1 DEF CalcDescrCount
  <1>3. \A i : /\ DescrLength(i, n, s) = IF i = Last(n) /\ r # 0 THEN r ELSE BytesPerDesc
               /\ BufferAddr(i, n) = IF i = Last(n) THEN i * BytesPerDesc ELSE 0
    BY DEF DescrLength, BufferAddr
  <1> HIDE DEF q, r
  <1>4. Last(n) \in Nat /\ Last(n) + 1 = n
    BY <1>1 DEF Last
  <1>5. \A i \in Nat : i * BytesPerDesc \in Nat
    BY Multiples
  <1>6. Last(n) * BytesPerDesc + DescrLength(Last(n), n, s) = s
    <2>1. CASE r = 0
      <3>1. Last(n) + 1 = q
        BY <1>2, <1>4, <2>1
      <3>2. Last(n) * BytesPerDesc + BytesPerDesc = q * BytesPerDesc
        BY <1>4, <3>1, Multiples
      <3>3. QED
        BY <1>1, <1>3, <1>5, <2>1, <3>2
    <2>2. CASE r # 0
      <3>1. Last(n) = q
        BY <1>1, <1>2, <1>4, <2>2
      <3>2. QED
        BY <1>1, <1>3, <2>2, <3>1
    <2>3. QED
      BY <2>1, <2>2
  <1>7. ASSUME NEW i \in 0..Last(n)
        PROVE  /\ BufferAddr(i, n) \in Nat
               /\ DescrLength(i, n, s) \in Nat \ {0}
               /\ BufferAddr(i, n) + DescrLength(i, n, s) <= s
               /\ i < Last(n) => DescrLength(i, n, s) = BytesPerDesc
    <2>1. i \in Nat
      BY <1>4
    <2>2. DescrLength(i, n, s) \in Nat \ {0} /\ BufferAddr(i, n) \in Nat
      BY <1>1, <1>3, <1>5, <2>1
    <2>3. CASE i = Last(n)
      <3>1. BufferAddr(i, n) + DescrLength(i, n, s) = s
        BY <1>3, <1>6, <2>3
      <3>2. QED
        BY <1>1, <1>4, <2>2, <2>3, <3>1
    <2>4. CASE i # Last(n)
      <3>1. BufferAddr(i, n) = 0 /\ DescrLength(i, n, s) = BytesPerDesc
        BY <1>3, <2>4
      <3>2. q >= 1
        BY <1>1, <1>2, <1>4, <2>4
      <3>3. PICK p \in Nat : q = p + 1
        <4>1. q - 1 \in Nat /\ q = (q - 1) + 1
          BY <1>1, <3>2
        <4>2. QED
          BY <4>1
      <3>4. q * BytesPerDesc = p * BytesPerDesc + BytesPerDesc /\ p * BytesPerDesc \in Nat
        BY <3>3, Multiples
      <3>5. BytesPerDesc <= s
        BY <1>1, <3>4
      <3>6. QED
        BY <1>1, <2>2, <3>1, <3>5
    <2>5. QED
      BY <2>3, <2>4
  <1>8. QED
    BY <1>1, <1>4, <1>6, <1>7

LEMMA SlotsAre ==
  /\ Slots \subseteq Nat
  /\ \A s \in Sizes : 0..CalcDescrCount(s) \subseteq Slots
  <1>1. \A s \in Sizes : 0..CalcDescrCount(s) \subseteq Slots
    BY DEF Slots
  <1>2. \A i \in Slots : i \in Nat
    BY DEF Slots
  <1>3. QED
    BY <1>1, <1>2

(* The chain InitDescriptors writes.                                        *)
LEMMA NewChainIs ==
  ASSUME Types, NEW s \in Sizes, NEW n, n = CalcDescrCount(s), n >= 1
  PROVE  /\ NewChain(n, s) \in [Slots -> Descriptors]
         /\ \A i \in 0..Last(n) :
              /\ NewChain(n, s)[i].next = IF i = Last(n) THEN 0 ELSE i + 1
              /\ NewChain(n, s)[i].buffer = BufferAddr(i, n)
              /\ NewChain(n, s)[i].length = DescrLength(i, n, s)
              /\ NewChain(n, s)[i].lastOfFrame = (~isRx /\ i = Last(n))
              /\ ~NewChain(n, s)[i].complete
  <1> DEFINE bd(i) == [Cleared EXCEPT !.next = IF i = Last(n) THEN 0 ELSE i + 1,
                         !.buffer = BufferAddr(i, n), !.length = DescrLength(i, n, s),
                         !.lastOfFrame = ~isRx /\ i = Last(n)]
  <1>1. /\ n \in Nat /\ Last(n) \in Nat /\ Last(n) + 1 = n
        /\ \A i \in 0..Last(n) : BufferAddr(i, n) \in Nat /\ DescrLength(i, n, s) \in Nat
        /\ 0..n \subseteq Slots /\ Slots \subseteq Nat
    BY ChainFits, SlotsAre
  <1>2. ASSUME NEW i \in 0..Last(n)
        PROVE  /\ bd(i) \in Descriptors
               /\ bd(i).next = IF i = Last(n) THEN 0 ELSE i + 1
               /\ bd(i).buffer = BufferAddr(i, n)
               /\ bd(i).length = DescrLength(i, n, s)
               /\ bd(i).lastOfFrame = (~isRx /\ i = Last(n))
               /\ ~bd(i).complete
    <2>1. /\ (IF i = Last(n) THEN 0 ELSE i + 1) \in Nat
          /\ BufferAddr(i, n) \in Nat /\ DescrLength(i, n, s) \in Nat
      BY <1>1
    <2>2. (~isRx /\ i = Last(n)) \in BOOLEAN
      OBVIOUS
    <2>3. QED
      BY <2>1, <2>2 DEF Cleared, Descriptors
  <1>3. /\ NewChain(n, s) = [i \in Slots |-> IF i >= n THEN memory[i] ELSE bd(i)]
        /\ memory \in [Slots -> Descriptors]
    BY DEF NewChain, Types
  <1> HIDE DEF bd
  <1>4. \A i \in Slots : i >= n \/ i \in 0..Last(n)
    BY <1>1
  <1>5. NewChain(n, s) \in [Slots -> Descriptors]
    BY <1>2, <1>3, <1>4
  <1>6. \A i \in 0..Last(n) : NewChain(n, s)[i] = bd(i)
    BY <1>1, <1>3
  <1>7. QED
    BY <1>2, <1>5, <1>6

LEMMA InitIInv == Init => IInv
  <1> SUFFICES ASSUME Init PROVE IInv
    OBVIOUS
  <1>1. Cleared \in Descriptors
    BY DEF Cleared, Descriptors
  <1>2. memory \in [Slots -> Descriptors]
    BY <1>1 DEF Init
  <1>3. engine \in [at : Nat, active : BOOLEAN] /\ ~engine.active
    BY DEF Init, Stopped
  <1>4. moved \in Seq(Nat) /\ Len(moved) = 0
    BY DEF Init
  <1>5. Types
    <2>1. size \in Nat /\ bd_count \in Nat /\ tail \in Nat /\ frames \in 0..2
      BY DEF Init
    <2>2. /\ isRx \in BOOLEAN /\ irq \in BOOLEAN /\ midFrame \in BOOLEAN
          /\ phase \in {"free", "ready", "running", "counted", "summed"}
      BY DEF Init
    <2>3. QED
      BY <1>2, <1>3, <1>4, <2>1, <2>2 DEF Types
  <1>6. AtRest /\ Prepared /\ Running /\ Filled /\ AllSent
    BY <1>3 DEF Init, AtRest, Prepared, Running, Filled, AllSent
  <1>7. Inside /\ BufferInOrder
    BY <1>4 DEF Inside, BufferInOrder
  <1>8. QED
    BY <1>5, <1>6, <1>7 DEF IInv

-------------------------------------------------------------------------------
(* The driver keeps the invariant.                                          *)

LEMMA InitDescriptorsKeeps ==
  ASSUME IInv, NEW s \in Sizes, InitDescriptors(s)
  PROVE  IInv'
  <1> DEFINE n == CalcDescrCount(s)
  <1>1. /\ phase = "free" /\ n >= 1 /\ memory' = NewChain(n, s) /\ size' = s /\ bd_count' = n
        /\ phase' = "ready" /\ frames' = 0 /\ moved' = <<>>
        /\ UNCHANGED <<isRx, processed, result, engine, tail, irq, midFrame>>
    BY DEF InitDescriptors
  <1>2. /\ Types /\ ~engine.active /\ ~irq /\ ~midFrame
    BY <1>1 DEF IInv, AtRest
  <1>3. n \in Nat /\ s \in Nat /\ NewChain(n, s) \in [Slots -> Descriptors]
    BY <1>1, <1>2, NewChainIs, CountIs
  <1>4. \A i \in 0..Last(n) :
              /\ NewChain(n, s)[i].next = IF i = Last(n) THEN 0 ELSE i + 1
              /\ NewChain(n, s)[i].buffer = BufferAddr(i, n)
              /\ NewChain(n, s)[i].length = DescrLength(i, n, s)
              /\ NewChain(n, s)[i].lastOfFrame = (~isRx /\ i = Last(n))
              /\ ~NewChain(n, s)[i].complete
    BY <1>1, <1>2, NewChainIs
  <1>5. Call'
    BY <1>1 DEF Call
  <1> HIDE DEF n
  <1>6. Types'
    <2>1. moved' \in Seq(Nat) /\ frames' \in 0..2 /\ size' \in Nat /\ bd_count' \in Nat
      BY <1>1, <1>3
    <2>2. memory' \in [Slots -> Descriptors]
      BY <1>1, <1>3
    <2>3. QED
      BY <1>1, <1>2, <2>1, <2>2 DEF Types
  <1>7. Prepared'
    <2>1. ASSUME NEW i \in 0..Last(n) PROVE Fresh(i)'
      BY <1>1, <1>4 DEF Fresh
    <2>2. QED
      BY <1>1, <1>5, <2>1 DEF Prepared
  <1>8. AtRest' /\ Running' /\ Filled' /\ AllSent'
    BY <1>1, <1>2 DEF AtRest, Running, Filled, AllSent
  <1>9. Inside' /\ BufferInOrder'
    <2>1. Len(moved') = 0
      BY <1>1
    <2>2. QED
      BY <2>1 DEF Inside, BufferInOrder
  <1>10. QED
    BY <1>6, <1>7, <1>8, <1>9 DEF IInv

LEMMA LaunchKeeps == ASSUME IInv, Launch PROVE IInv'
  <1>1. /\ phase = "ready" /\ engine' = [Stopped EXCEPT !.active = TRUE]
        /\ tail' = Last(bd_count) /\ phase' = "running"
        /\ UNCHANGED <<isRx, memory, size, bd_count, processed, irq, midFrame, frames, moved>>
    BY DEF Launch, GetTailMem, Last
  <1>2. /\ Types /\ Call /\ moved = <<>> /\ frames = 0 /\ ~irq /\ ~midFrame
        /\ \A i \in 0..Last(bd_count) : Fresh(i)
    BY <1>1 DEF IInv, AtRest, Prepared
  <1>3. engine' \in [at : Nat, active : BOOLEAN] /\ engine'.at = 0 /\ engine'.active
    BY <1>1 DEF Stopped
  <1>4. Last(bd_count) \in Nat
    BY <1>2, ChainFits DEF Call
  <1>5. Types'
    BY <1>1, <1>2, <1>3, <1>4 DEF Types
  <1>6. AtRest' /\ Prepared'
    BY <1>1 DEF AtRest, Prepared
  <1>7. Running'
    <2>1. ASSUME NEW i \in 0..Last(bd_count) PROVE Fresh(i)'
      BY <1>1, <1>2 DEF Fresh
    <2>2. Call'
      BY <1>1, <1>2 DEF Call
    <2>3. QED
      BY <1>1, <1>3, <1>4, <2>1, <2>2 DEF Running
  <1>8. Filled'
    <2>1. 0 * BytesPerDesc = 0 /\ Len(moved') = 0
      BY <1>1, <1>2, RingAssumption
    <2>2. QED
      BY <1>1, <1>2, <1>3, <2>1 DEF Filled
  <1>9. AllSent' /\ Inside' /\ BufferInOrder'
    BY <1>1, <1>2 DEF IInv, AllSent, Inside, BufferInOrder
  <1>10. QED
    BY <1>5, <1>6, <1>7, <1>8, <1>9 DEF IInv

(* An engine that is still receiving is behind none of what was counted.    *)
LEMMA CountKeeps == ASSUME IInv, CountProcessedDescs PROVE IInv'
  <1>1. /\ phase = "running" /\ irq /\ irq' = FALSE /\ phase' = "counted"
        /\ UNCHANGED <<isRx, memory, size, bd_count, engine, tail, midFrame, frames, moved>>
        /\ processed' = CHOOSE n \in Slots :
             ~memory[n].complete /\ \A i \in 0..(n - 1) : memory[i].complete
    BY DEF CountProcessedDescs
  <1>2. Types'
    BY <1>1 DEF IInv, Types
  <1>3. AtRest' /\ Prepared' /\ Inside' /\ BufferInOrder'
    BY <1>1 DEF IInv, AtRest, Prepared, Inside, BufferInOrder
  <1>4. Running'
    <2> SUFFICES ASSUME engine.active PROVE Running'
      BY <1>1 DEF Running
    <2>1. /\ Call /\ tail = Last(bd_count) /\ engine.at \in 0..Last(bd_count)
          /\ \A i \in (engine.at)..Last(bd_count) : Fresh(i)
          /\ \A i \in 0..(engine.at - 1) : memory[i].complete
      BY <1>1 DEF IInv, Running
    <2>2. Last(bd_count) \in Nat /\ engine.at \in Slots /\ engine.at \in Nat
      BY <2>1, ChainFits, SlotsAre DEF Call
    <2>3. ~memory[engine.at].complete
      BY <2>1, <2>2 DEF Fresh
    <2>4. /\ processed' \in Slots
          /\ \A i \in 0..(processed' - 1) : memory[i].complete
      BY <1>1, <2>1, <2>2, <2>3
    <2>5. processed' <= engine.at
      <3>1. processed' \in Nat /\ engine.at \in Nat
        BY <2>2, <2>4, SlotsAre
      <3>2. engine.at \notin 0..(processed' - 1)
        BY <2>3, <2>4
      <3>3. QED
        BY <3>1, <3>2
    <2>6. ASSUME NEW i \in (engine.at)..Last(bd_count) PROVE Fresh(i)'
      BY <1>1, <2>1 DEF Fresh
    <2>7. Call'
      BY <1>1, <2>1 DEF Call
    <2>8. QED
      BY <1>1, <2>1, <2>4, <2>5, <2>6, <2>7 DEF Running
  <1>5. Filled' /\ AllSent'
    BY <1>1 DEF IInv, Filled, AllSent
  <1>6. QED
    BY <1>2, <1>3, <1>4, <1>5 DEF IInv

LEMMA FreedIs ==
  ASSUME NEW bd \in Descriptors
  PROVE  Freed(bd) \in Descriptors
  BY DEF Freed, Descriptors

(* Only descriptors behind the engine are freed.                            *)
LEMMA ProcessKeeps == ASSUME IInv, ProcessDescriptors PROVE IInv'
  <1>1. /\ phase = "counted" /\ phase' = "summed"
        /\ UNCHANGED <<isRx, size, bd_count, processed, engine, tail, irq, midFrame,
                       frames, moved>>
        /\ memory' = [i \in Slots |-> IF i < processed THEN Freed(memory[i]) ELSE memory[i]]
    BY DEF ProcessDescriptors, dma
  <1>2. memory' \in [Slots -> Descriptors]
    <2>1. memory \in [Slots -> Descriptors]
      BY DEF IInv, Types
    <2>2. \A i \in Slots : memory[i] \in Descriptors /\ Freed(memory[i]) \in Descriptors
      BY <2>1, FreedIs
    <2>3. QED
      BY <1>1, <2>2
  <1>3. Types'
    BY <1>1, <1>2 DEF IInv, Types
  <1>4. AtRest' /\ Prepared' /\ Inside' /\ BufferInOrder' /\ AllSent'
    BY <1>1 DEF IInv, AtRest, Prepared, Inside, BufferInOrder, AllSent
  <1>5. Running'
    <2> SUFFICES ASSUME engine.active PROVE Running'
      BY <1>1 DEF Running
    <2>1. /\ Call /\ tail = Last(bd_count) /\ engine.at \in 0..Last(bd_count)
          /\ \A i \in (engine.at)..Last(bd_count) : Fresh(i)
          /\ processed \in Slots /\ processed <= engine.at
      BY <1>1 DEF IInv, Running
    <2>2. Last(bd_count) \in Nat /\ 0..Last(bd_count) \subseteq Slots /\ processed \in Nat
      BY <2>1, ChainFits, SlotsAre DEF Call
    <2>3. ASSUME NEW i \in (engine.at)..Last(bd_count) PROVE Fresh(i)'
      <3>1. memory'[i] = memory[i]
        BY <1>1, <2>1, <2>2
      <3>2. QED
        BY <1>1, <2>1, <3>1 DEF Fresh
    <2>4. Call'
      BY <1>1, <2>1 DEF Call
    <2>5. QED
      BY <1>1, <2>1, <2>3, <2>4 DEF Running
  <1>6. Filled'
    BY <1>1 DEF IInv, Filled
  <1>7. QED
    BY <1>3, <1>4, <1>5, <1>6 DEF IInv

LEMMA ResetKeeps == ASSUME IInv, Reset PROVE IInv'
  <1>1. /\ phase' = "free" /\ engine' = Stopped /\ irq' = FALSE /\ midFrame' = FALSE
        /\ UNCHANGED <<isRx, memory, size, bd_count, processed, tail, frames, moved>>
    BY DEF Reset
  <1>2. engine' \in [at : Nat, active : BOOLEAN] /\ ~engine'.active
    BY <1>1 DEF Stopped
  <1>3. Types'
    BY <1>1, <1>2 DEF IInv, Types
  <1>4. AtRest' /\ Prepared' /\ Running' /\ Filled' /\ AllSent'
    BY <1>1, <1>2 DEF AtRest, Prepared, Running, Filled, AllSent
  <1>5. Inside' /\ BufferInOrder'
    BY <1>1 DEF IInv, Inside, BufferInOrder
  <1>6. QED
    BY <1>3, <1>4, <1>5 DEF IInv

-------------------------------------------------------------------------------
(* The engine keeps it too.                                                 *)

(* The bytes that one descriptor adds to those moved.                       *)
Extended(m, start, k) == m \o [i \in 1..k |-> start + i - 1]

LEMMA ExtendedIs ==
  ASSUME NEW m \in Seq(Nat), NEW start \in Nat, NEW k \in Nat
  PROVE  /\ Extended(m, start, k) \in Seq(Nat)
         /\ Len(Extended(m, start, k)) = Len(m) + k
         /\ \A i \in 1..Len(m) : Extended(m, start, k)[i] = m[i]
         /\ \A i \in (Len(m) + 1)..(Len(m) + k) :
              Extended(m, start, k)[i] = start + (i - Len(m)) - 1
  <1> DEFINE t == [i \in 1..k |-> start + i - 1]
  <1>1. Len(m) \in Nat
    BY LenProperties
  <1>2. t \in Seq(Nat) /\ Len(t) = k /\ \A i \in 1..k : t[i] = start + i - 1
    OBVIOUS
  <1> HIDE DEF t
  <1>3. /\ m \o t \in Seq(Nat) /\ Len(m \o t) = Len(m) + Len(t)
        /\ \A i \in 1..(Len(m) + Len(t)) :
             (m \o t)[i] = IF i <= Len(m) THEN m[i] ELSE t[i - Len(m)]
    BY <1>2, ConcatProperties
  <1>4. Extended(m, start, k) = m \o t
    BY DEF Extended, t
  <1> HIDE DEF Extended
  <1>5. \A i \in (Len(m) + 1)..(Len(m) + k) : i - Len(m) \in 1..k /\ ~(i <= Len(m))
    BY <1>1
  <1>6. QED
    BY <1>1, <1>2, <1>3, <1>4, <1>5

LEMMA TransferKeeps ==
  ASSUME IInv, engine.active, NEW k \in 1..memory[engine.at].length, NEW last \in BOOLEAN,
         Transfer(k, last), midFrame' \in BOOLEAN, frames' \in 0..2,
         isRx => /\ ~last => k = memory[engine.at].length /\ midFrame'
                 /\ last => ~midFrame'
                 /\ frames' = IF midFrame \/ frames = 2 THEN frames ELSE frames + 1,
         ~isRx => /\ k = memory[engine.at].length /\ last = memory[engine.at].lastOfFrame
                  /\ UNCHANGED <<midFrame, frames>>
  PROVE  IInv'
  <1> DEFINE a == engine.at
             z == Last(bd_count)
  <1>1. /\ Types /\ Call /\ tail = z /\ a \in 0..z
        /\ \A i \in a..z : Fresh(i)
        /\ phase = "running" => \A i \in 0..(a - 1) : memory[i].complete
        /\ phase = "counted" => processed \in Slots /\ processed <= a
    BY DEF IInv, Running
  <1>2. /\ z \in Nat /\ a \in Nat /\ 0..z \subseteq Slots /\ Slots \subseteq Nat
        /\ bd_count \in Nat /\ bd_count = z + 1
        /\ z * BytesPerDesc + DescrLength(z, bd_count, size) = size
        /\ \A i \in 0..z :
              /\ BufferAddr(i, bd_count) \in Nat
              /\ DescrLength(i, bd_count, size) \in Nat \ {0}
              /\ BufferAddr(i, bd_count) + DescrLength(i, bd_count, size) <= size
              /\ i < z => DescrLength(i, bd_count, size) = BytesPerDesc
        /\ size \in Nat /\ BytesPerDesc \in Nat
    <2>1. /\ z \in Nat /\ bd_count \in Nat /\ z + 1 = bd_count
          /\ 0..bd_count \subseteq Slots /\ Slots \subseteq Nat
      BY <1>1, ChainFits, SlotsAre DEF Call
    <2>2. QED
      BY <1>1, <2>1, ChainFits, RingAssumption DEF Call
  <1>3. /\ memory[a].next = (IF a = z THEN 0 ELSE a + 1)
        /\ memory[a].buffer = BufferAddr(a, bd_count)
        /\ memory[a].length = DescrLength(a, bd_count, size)
        /\ memory[a].lastOfFrame = (~isRx /\ a = z)
    BY <1>1, <1>2 DEF Fresh
  <1>4. /\ memory' = [memory EXCEPT ![a] = [@ EXCEPT
                        !.complete = TRUE, !.transferred = k, !.sof = isRx /\ ~midFrame]]
        /\ moved' = Extended(moved, memory[a].buffer, k)
        /\ engine' = [engine EXCEPT !.at = memory[a].next, !.active = a # tail]
        /\ irq' = (irq \/ last)
        /\ UNCHANGED <<isRx, tail, size, bd_count, phase, processed>>
    BY DEF Transfer, Extended, call
  <1>5. k \in Nat /\ k >= 1 /\ k <= DescrLength(a, bd_count, size)
    BY <1>1, <1>2, <1>3
  <1> DEFINE bd == [memory[a] EXCEPT !.complete = TRUE, !.transferred = k,
                                     !.sof = isRx /\ ~midFrame]
  <1>6. /\ memory' \in [Slots -> Descriptors] /\ memory'[a].complete
        /\ \A i \in Slots \ {a} : memory'[i] = memory[i]
    <2>1. memory \in [Slots -> Descriptors] /\ a \in Slots
      BY <1>1, <1>2 DEF Types
    <2>2. (isRx /\ ~midFrame) \in BOOLEAN
      OBVIOUS
    <2>3. bd \in Descriptors /\ bd.complete
      BY <1>5, <2>1, <2>2 DEF Descriptors
    <2>4. memory' = [memory EXCEPT ![a] = bd]
      BY <1>4
    <2> HIDE DEF bd
    <2>5. QED
      BY <2>1, <2>3, <2>4
  <1>7. /\ engine' \in [at : Nat, active : BOOLEAN]
        /\ engine'.active <=> a # z
        /\ a # z => engine'.at = a + 1 /\ a + 1 \in 0..z
    <2>1. engine \in [at : Nat, active : BOOLEAN] /\ memory[a].next \in Nat
      BY <1>1, <1>2, <1>3 DEF Types
    <2>2. engine'.at = memory[a].next /\ engine'.active = (a # tail)
          /\ engine' \in [at : Nat, active : BOOLEAN]
      BY <1>4, <2>1
    <2>3. QED
      BY <1>1, <1>2, <1>3, <2>2
  <1>8. /\ moved' \in Seq(Nat) /\ Len(moved') = Len(moved) + k /\ Len(moved) \in Nat
        /\ \A i \in 1..Len(moved) : moved'[i] = moved[i]
        /\ \A i \in (Len(moved) + 1)..(Len(moved) + k) :
             moved'[i] = BufferAddr(a, bd_count) + (i - Len(moved)) - 1
    <2>1. moved \in Seq(Nat) /\ BufferAddr(a, bd_count) \in Nat
      BY <1>1, <1>2 DEF Types
    <2>2. moved' = Extended(moved, BufferAddr(a, bd_count), k)
      BY <1>3, <1>4
    <2>3. Len(moved) \in Nat
      BY <2>1, LenProperties
    <2> DEFINE e == Extended(moved, BufferAddr(a, bd_count), k)
    <2>4. /\ e \in Seq(Nat) /\ Len(e) = Len(moved) + k
          /\ \A i \in 1..Len(moved) : e[i] = moved[i]
          /\ \A i \in (Len(moved) + 1)..(Len(moved) + k) :
               e[i] = BufferAddr(a, bd_count) + (i - Len(moved)) - 1
      BY <1>5, <2>1, ExtendedIs
    <2>5. moved' = e
      BY <2>2
    <2> HIDE DEF e
    <2>6. QED
      BY <2>3, <2>4, <2>5
  <1>9. phase \notin {"free", "ready"}
    BY DEF IInv, AtRest
  <1> HIDE DEF a, z, bd
  <1>10. Types'
    <2>1. irq' \in BOOLEAN
      BY <1>4
    <2>2. QED
      BY <1>1, <1>4, <1>6, <1>7, <1>8, <2>1 DEF Types
  <1>11. AtRest' /\ Prepared'
    BY <1>4, <1>9 DEF AtRest, Prepared
  <1>12. Running'
    <2> SUFFICES ASSUME a # z PROVE Running'
      BY <1>7 DEF Running
    <2>1. engine'.at = a + 1 /\ a + 1 \in 0..z
      BY <1>7
    <2>2. Call' /\ tail' = Last(bd_count)'
      BY <1>1, <1>4 DEF Call, z, Last
    <2>3. ASSUME NEW i \in (a + 1)..z PROVE Fresh(i)'
      <3>1. i \in a..z /\ i \in Slots \ {a}
        BY <1>2
      <3>2. memory'[i] = memory[i] /\ Fresh(i)
        BY <1>1, <1>6, <3>1
      <3>3. QED
        BY <1>4, <3>2 DEF Fresh
    <2>4. ASSUME phase = "running", NEW i \in 0..((a + 1) - 1) PROVE memory'[i].complete
      <3>1. CASE i = a
        BY <1>6, <3>1
      <3>2. CASE i # a
        <4>1. i \in 0..(a - 1) /\ i \in Slots \ {a}
          <5>1. i \in Nat /\ i < a /\ a <= z
            BY <1>1, <1>2, <3>2
          <5>2. i \in 0..(a - 1) /\ i \in 0..z
            BY <1>2, <5>1
          <5>3. QED
            BY <1>2, <3>2, <5>2
        <4>2. QED
          BY <1>1, <1>6, <2>4, <4>1
      <3>3. QED
        BY <3>1, <3>2
    <2>5. phase = "counted" => processed' \in Slots /\ processed' <= a + 1
      BY <1>1, <1>2, <1>4
    <2>6. Last(bd_count)' = z
      BY <1>4 DEF z, Last
    <2>7. QED
      BY <1>4, <2>1, <2>2, <2>3, <2>4, <2>5, <2>6 DEF Running
  <1>13. /\ a = 0 => ~midFrame /\ moved = <<>>
         /\ isRx /\ a >= 1 => frames >= 1
         /\ (~isRx \/ (frames <= 1 /\ (midFrame \/ a = 0))) => Len(moved) = a * BytesPerDesc
         /\ ~isRx => phase = "running" /\ ~irq
    BY DEF IInv, Filled, a
  <1>14. frames \in 0..2 /\ isRx \in BOOLEAN /\ midFrame \in BOOLEAN
    BY <1>1 DEF Types
  <1>15. ~isRx => k = DescrLength(a, bd_count, size) /\ last = (a = z)
    BY <1>3 DEF a
  <1>16. isRx => /\ ~last => k = DescrLength(a, bd_count, size)
                 /\ last <=> ~midFrame'
                 /\ frames' = IF midFrame \/ frames = 2 THEN frames ELSE frames + 1
    BY <1>3 DEF a
  <1>17. isRx => frames' >= 1 /\ frames <= frames'
    <2>1. CASE isRx /\ midFrame
      BY <1>2, <1>13, <1>14, <1>16, <2>1
    <2>2. CASE isRx /\ ~midFrame
      BY <1>14, <1>16, <2>2
    <2>3. QED
      BY <2>1, <2>2
  <1>18. Filled'
    <2> SUFFICES ASSUME a # z PROVE Filled'
      BY <1>7 DEF Filled
    <2>1. engine'.at = a + 1 /\ a + 1 # 0 /\ a < z
      BY <1>1, <1>2, <1>7
    <2>2. ~isRx => phase' = "running" /\ ~irq'
      BY <1>4, <1>13, <1>15
    <2>3. ASSUME ~isRx \/ (frames' <= 1 /\ midFrame')
          PROVE  Len(moved') = (a + 1) * BytesPerDesc
      <3>1. k = DescrLength(a, bd_count, size)
        BY <1>15, <1>16, <2>3
      <3>2. k = BytesPerDesc
        BY <1>1, <1>2, <2>1, <3>1
      <3>3. Len(moved) = a * BytesPerDesc
        <4>1. CASE ~isRx
          BY <1>13, <4>1
        <4>2. CASE isRx
          <5>1. frames' <= 1
            BY <2>3, <4>2
          <5>2. CASE midFrame
            <6>1. frames <= 1
              BY <1>16, <4>2, <5>1, <5>2
            <6>2. QED
              BY <1>13, <5>2, <6>1
          <5>3. CASE ~midFrame
            <6>1. frames = 0
              BY <1>14, <1>16, <4>2, <5>1, <5>3
            <6>2. a = 0
              BY <1>2, <1>13, <4>2, <6>1
            <6>3. QED
              BY <1>13, <6>1, <6>2
          <5>4. QED
            BY <5>2, <5>3
        <4>3. QED
          BY <4>1, <4>2
      <3>4. (a + 1) * BytesPerDesc = a * BytesPerDesc + BytesPerDesc
        BY <1>2, Multiples
      <3>5. QED
        BY <1>8, <3>2, <3>3, <3>4
    <2>4. isRx' => frames' >= 1
      BY <1>4, <1>17
    <2>5. QED
      BY <1>4, <2>1, <2>2, <2>3, <2>4 DEF Filled
  <1>19. AllSent'
    <2> SUFFICES ASSUME ~isRx, phase' = "counted" \/ irq'
                 PROVE  ~engine'.active /\ Len(moved') = size
      BY <1>4 DEF AllSent
    <2>1. last
      BY <1>4, <1>13
    <2>2. a = z /\ k = DescrLength(z, bd_count, size)
      BY <1>15, <2>1
    <2>3. Len(moved) = z * BytesPerDesc
      BY <1>13, <2>2
    <2>4. QED
      BY <1>2, <1>7, <1>8, <2>2, <2>3
  <1>20. Inside'
    <2> SUFFICES ASSUME NEW i \in 1..Len(moved') PROVE moved'[i] < size
      BY <1>4 DEF Inside
    <2>1. CASE i \in 1..Len(moved)
      BY <1>8, <2>1 DEF IInv, Inside
    <2>2. CASE i \notin 1..Len(moved)
      <3>1. i \in (Len(moved) + 1)..(Len(moved) + k)
        BY <1>5, <1>8, <2>2
      <3>2. moved'[i] = BufferAddr(a, bd_count) + (i - Len(moved)) - 1 /\ i - Len(moved) <= k
            /\ i - Len(moved) \in Nat
        BY <1>5, <1>8, <3>1
      <3>3. /\ BufferAddr(a, bd_count) + DescrLength(a, bd_count, size) <= size
            /\ BufferAddr(a, bd_count) \in Nat /\ DescrLength(a, bd_count, size) \in Nat
        BY <1>1, <1>2
      <3> DEFINE b == BufferAddr(a, bd_count)
                 j == i - Len(moved)
      <3>4. b \in Nat /\ j \in Nat /\ j <= k /\ moved'[i] = b + j - 1
        BY <3>2, <3>3
      <3>5. k \in Nat /\ size \in Nat /\ b + k <= size
        BY <1>1, <1>2, <1>5, <3>3
      <3> HIDE DEF b, j
      <3>6. QED
        BY <3>4, <3>5
    <2>3. QED
      BY <2>1, <2>2
  <1>21. BufferInOrder'
    <2> SUFFICES ASSUME bd_count <= 2, frames' <= 1, NEW i \in 1..Len(moved')
                 PROVE  moved'[i] = i - 1
      BY <1>4 DEF BufferInOrder
    <2>1. frames <= 1
      BY <1>14, <1>17
    <2>2. BufferAddr(a, bd_count) = Len(moved)
      <3>1. a = 0 \/ (a = 1 /\ z = 1)
        BY <1>1, <1>2
      <3>2. CASE a = 0
        <4>1. Len(moved) = 0
          BY <1>13, <3>2
        <4>2. BufferAddr(a, bd_count) = 0
          BY <1>2, <3>2 DEF BufferAddr
        <4>3. QED
          BY <4>1, <4>2
      <3>3. CASE a = 1 /\ z = 1
        <4>1. BufferAddr(a, bd_count) = a * BytesPerDesc
          BY <3>3 DEF BufferAddr, z
        <4>2. isRx => midFrame
          BY <1>13, <1>14, <1>16, <3>3
        <4>3. QED
          BY <1>13, <2>1, <4>1, <4>2
      <3>4. QED
        BY <3>1, <3>2, <3>3
    <2>3. CASE i \in 1..Len(moved)
      BY <1>8, <2>1, <2>3 DEF IInv, BufferInOrder
    <2>4. CASE i \notin 1..Len(moved)
      <3>1. i \in (Len(moved) + 1)..(Len(moved) + k)
        BY <1>5, <1>8, <2>4
      <3>2. moved'[i] = Len(moved) + (i - Len(moved)) - 1
        BY <1>8, <2>2, <3>1
      <3>3. QED
        BY <1>5, <1>8, <3>1, <3>2
    <2>5. QED
      BY <2>3, <2>4
  <1>22. QED
    BY <1>10, <1>11, <1>12, <1>18, <1>19, <1>20, <1>21 DEF IInv

LEMMA ActiveIsUsable ==
  ASSUME IInv, engine.active
  PROVE  /\ memory[engine.at].length \in Nat \ {0}
         /\ memory[engine.at].lastOfFrame \in BOOLEAN
  <1>1. Call /\ engine.at \in 0..Last(bd_count) /\ Fresh(engine.at)
    <2>1. /\ Call /\ engine.at \in 0..Last(bd_count)
          /\ \A i \in (engine.at)..Last(bd_count) : Fresh(i)
      BY DEF IInv, Running
    <2>2. Last(bd_count) \in Nat
      BY <2>1, ChainFits DEF Call
    <2>3. QED
      BY <2>1, <2>2
  <1>2. DescrLength(engine.at, bd_count, size) \in Nat \ {0}
    BY <1>1, ChainFits DEF Call
  <1>3. memory[engine.at].lastOfFrame \in BOOLEAN
    <2>1. isRx \in BOOLEAN  BY DEF IInv, Types
    <2>2. (~isRx /\ engine.at = Last(bd_count)) \in BOOLEAN  OBVIOUS
    <2>3. QED BY <1>1, <2>2 DEF Fresh
  <1>4. QED
    BY <1>1, <1>2, <1>3 DEF Fresh

LEMMA NextIInv == IInv /\ [Next]_vars => IInv'
  <1> SUFFICES ASSUME IInv, [Next]_vars PROVE IInv'
    OBVIOUS
  <1>1. CASE \E s \in Sizes : InitDescriptors(s)
    BY <1>1, InitDescriptorsKeeps
  <1>2. CASE Launch \/ CountProcessedDescs \/ ProcessDescriptors \/ Reset
    BY <1>2, LaunchKeeps, CountKeeps, ProcessKeeps, ResetKeeps
  <1>3. memory \in [Slots -> Descriptors] /\ frames \in 0..2 /\ midFrame \in BOOLEAN
    BY DEF IInv, Types
  <1>4. ASSUME engine.active
        PROVE  memory[engine.at].length \in Nat \ {0} /\ memory[engine.at].lastOfFrame \in BOOLEAN
    BY <1>4, ActiveIsUsable
  <1>5. CASE Transmit
    <2>1. /\ engine.active /\ ~isRx /\ UNCHANGED <<midFrame, frames>>
          /\ Transfer(memory[engine.at].length, memory[engine.at].lastOfFrame)
      BY <1>5 DEF Transmit
    <2>2. memory[engine.at].length \in 1..memory[engine.at].length
      BY <1>4, <2>1
    <2>3. QED
      BY <1>3, <1>4, <2>1, <2>2, TransferKeeps
  <1>6. CASE Receive
    <2>1. /\ engine.active /\ isRx
          /\ frames' = IF midFrame \/ frames = 2 THEN frames ELSE frames + 1
          /\ \/ \E n \in 1..memory[engine.at].length : Transfer(n, TRUE) /\ midFrame' = FALSE
             \/ Transfer(memory[engine.at].length, FALSE) /\ midFrame' = TRUE
      BY <1>6 DEF Receive
    <2>2. frames' \in 0..2 /\ midFrame' \in BOOLEAN
      <3>1. frames' \in {frames, frames + 1} /\ (frames = 2 => frames' = 2)
        BY <2>1, Zenon
      <3>2. frames' \in 0..2
        BY <1>3, <3>1
      <3>3. midFrame' \in BOOLEAN
        BY <2>1, Zenon
      <3>4. QED
        BY <3>2, <3>3
    <2>3. CASE \E n \in 1..memory[engine.at].length : Transfer(n, TRUE) /\ midFrame' = FALSE
      BY <2>1, <2>2, <2>3, TransferKeeps
    <2>4. CASE Transfer(memory[engine.at].length, FALSE) /\ midFrame' = TRUE
      <3>1. memory[engine.at].length \in 1..memory[engine.at].length
        BY <1>4, <2>1
      <3>2. QED
        BY <2>1, <2>2, <2>4, <3>1, TransferKeeps
    <2>5. QED
      BY <2>1, <2>3, <2>4
  <1>7. CASE UNCHANGED vars
    <2>1. UNCHANGED <<isRx, memory, size, bd_count, phase, processed, engine, tail, irq,
                      midFrame, frames, moved>>
      BY <1>7 DEF vars, call, dma
    <2>2. Types' /\ AtRest' /\ Filled' /\ AllSent' /\ Inside' /\ BufferInOrder'
      BY <2>1 DEF IInv, Types, AtRest, Filled, AllSent, Inside, BufferInOrder
    <2>3. Prepared' /\ Running'
      BY <2>1 DEF IInv, Prepared, Running, Call, Fresh
    <2>4. QED
      BY <2>2, <2>3 DEF IInv
  <1>8. QED
    BY <1>1, <1>2, <1>5, <1>6, <1>7 DEF Next

LEMMA SpecIInv == Spec => []IInv
  <1>1. QED
    BY InitIInv, NextIInv, PTL DEF Spec

-------------------------------------------------------------------------------
(* Types and the length a call returns.                                     *)

(* The descriptors of the current call the engine is done with.             *)
Done == IF engine.active THEN engine.at ELSE bd_count

Bounds ==
  /\ ~memory[MaxCount].complete
  /\ engine.active => Len(moved) <= engine.at * BytesPerDesc

(* If there was nothing complete behind the chain at first, there is not.   *)
Behind == clean => \A i \in Slots : i >= bd_count => ~memory[i].complete

(* When an interrupt has come or was counted, a packet has ended.           *)
OnePacket ==
  isRx /\ (irq \/ phase \in {"counted", "summed"}) =>
    frames >= 1 /\ (frames <= 1 => ~midFrame)

(* As long as only one packet came: all descriptors the engine is done with *)
(* but the last one are full.                                               *)
Summed ==
  frames <= 1 /\ phase \in {"running", "counted"} =>
    /\ \A i \in 0..(Done - 1) :
         /\ memory[i].complete /\ (i >= 1 => ~memory[i].sof)
         /\ i < Done - 1 => memory[i].transferred = BytesPerDesc
    /\ Done = 0 => Len(moved) = 0
    /\ Done >= 1 => Len(moved) = (Done - 1) * BytesPerDesc + memory[Done - 1].transferred
    /\ phase = "counted" /\ clean => processed = Done

More == TypeOK /\ Bounds /\ Behind /\ OnePacket /\ Summed /\ LengthIsReal

(* Sets of numbers have a smallest element, which is what induction is.     *)
LEMMA Smallest ==
  ASSUME NEW T \in SUBSET Nat, T # {}
  PROVE  \E x \in T : \A y \in T : x <= y
  <1> DEFINE R == {ss \in Nat \X Nat : ss[1] < ss[2]}
  <1>1. IsWellFoundedOn(R, Nat)
    BY NatLessThanWellFounded DEF OpToRel
  <1> HIDE DEF R
  <1>2. PICK x \in T : \A y \in T : <<y, x>> \notin R
    BY <1>1, WFMin
  <1>3. \A y \in T : ~(y < x)
    BY <1>2 DEF R
  <1>4. QED
    BY <1>3

(* The slots are 0 to MaxCount, and no chain reaches the last one.          *)
LEMMA SlotsUpTo ==
  /\ MaxCount \in Nat /\ MaxCount >= 1 /\ Slots = 0..MaxCount
  /\ \A s \in Sizes : CalcDescrCount(s) <= MaxCount
  <1>1. PICK largest \in Sizes : largest > 0 /\ \A s \in Sizes : s <= largest
    BY RingAssumption
  <1>2. ASSUME NEW s \in Sizes  PROVE CalcDescrCount(s) <= s /\ (s > 0 => CalcDescrCount(s) >= 1)
    <2> DEFINE n == CalcDescrCount(s)
    <2>1. s \in Nat /\ n \in Nat  BY CountIs
    <2>2. ASSUME n >= 1  PROVE n <= s
      <3>1. /\ Last(n) \in Nat /\ Last(n) + 1 = n
            /\ Last(n) * BytesPerDesc + DescrLength(Last(n), n, s) = s
            /\ DescrLength(Last(n), n, s) \in Nat \ {0}
        BY <2>2, ChainFits
      <3>2. Last(n) * BytesPerDesc >= Last(n)
        <4>1. PICK b \in Nat : BytesPerDesc = b + 1
          <5>1. BytesPerDesc - 1 \in Nat /\ BytesPerDesc = (BytesPerDesc - 1) + 1
            BY RingAssumption
          <5>2. QED BY <5>1
        <4>2. \A m, c \in Nat : m * (c + 1) = m * c + m /\ m * c \in Nat  OBVIOUS
        <4>3. Last(n) * BytesPerDesc = Last(n) * b + Last(n) /\ Last(n) * b \in Nat
          BY <3>1, <4>1, <4>2
        <4>4. QED BY <3>1, <4>3
      <3> DEFINE z == Last(n)
                 l == DescrLength(Last(n), n, s)
                 zb == Last(n) * BytesPerDesc
      <3>3. z \in Nat /\ z + 1 = n /\ zb + l = s /\ l \in Nat /\ l >= 1 /\ zb >= z /\ zb \in Nat
        BY <3>1, <3>2, Multiples
      <3> HIDE DEF z, l, zb
      <3>4. QED BY <2>1, <3>3
    <2>3. s > 0 => n >= 1
      <3>1. /\ s % BytesPerDesc \in Nat /\ s \div BytesPerDesc \in Nat
            /\ s = BytesPerDesc * (s \div BytesPerDesc) + (s % BytesPerDesc)
        BY CountIs
      <3>2. BytesPerDesc * 0 = 0  BY RingAssumption
      <3>3. ASSUME s > 0, s % BytesPerDesc = 0  PROVE s \div BytesPerDesc # 0
        <4>1. ASSUME s \div BytesPerDesc = 0  PROVE FALSE
          BY <2>1, <3>1, <3>2, <3>3, <4>1
        <4>2. QED BY <4>1
      <3>4. QED BY <3>1, <3>3 DEF CalcDescrCount
    <2>4. CASE n = 0  BY <2>1, <2>3, <2>4
    <2>5. QED BY <2>1, <2>2, <2>3, <2>4
  <1>3. Slots \subseteq Nat /\ 0 \in Slots  BY SlotsAre DEF Slots
  <1>4. ASSUME NEW i \in Slots, NEW j \in 0..i  PROVE j \in Slots
    <2>1. CASE i = 0  BY <1>3, <2>1
    <2>2. CASE i # 0
      <3>1. PICK s \in Sizes : i \in 0..CalcDescrCount(s)  BY <2>2 DEF Slots
      <3>2. j \in 0..CalcDescrCount(s)  BY <3>1, CountIs
      <3>3. QED BY <3>2, SlotsAre
    <2>3. QED BY <2>1, <2>2
  <1> DEFINE T == {u \in Nat : \A i \in Slots : i <= u}
  <1>5. largest \in T
    <2>1. ASSUME NEW i \in Slots  PROVE i <= largest
      <3>1. largest \in Nat  BY CountIs
      <3>2. CASE i = 0  BY <3>1, <3>2
      <3>3. CASE i # 0
        <4>1. PICK s \in Sizes : i \in 0..CalcDescrCount(s)  BY <3>3 DEF Slots
        <4>2. s \in Nat /\ CalcDescrCount(s) \in Nat /\ CalcDescrCount(s) <= s /\ s <= largest
          BY <1>1, <1>2, CountIs
        <4>3. QED BY <3>1, <4>1, <4>2
      <3>4. QED BY <3>2, <3>3
    <2>2. QED BY <2>1, CountIs
  <1>6. PICK m \in T : \A u \in T : m <= u
    <2>1. T \in SUBSET Nat /\ T # {}  BY <1>5
    <2> HIDE DEF T
    <2>2. QED BY <2>1, Smallest
  <1>7. m \in Slots
    <2>1. CASE m = 0  BY <1>3, <2>1
    <2>2. ASSUME m # 0, m \notin Slots  PROVE FALSE
      <3>1. m \in Nat /\ m - 1 \in Nat  BY <2>2
      <3>2. \A i \in Slots : i <= m - 1
        <4>1. TAKE i \in Slots
        <4>2. i \in Nat /\ i <= m /\ i # m  BY <1>3, <2>2
        <4>3. QED BY <3>1, <4>2
      <3>3. m - 1 \in T  BY <3>1, <3>2
      <3>4. m <= m - 1  BY <1>6, <3>3
      <3>5. QED BY <3>1, <3>4
    <2>3. QED BY <2>1, <2>2
  <1>8. m \in Nat /\ \A i \in Slots : i <= m  OBVIOUS
  <1> HIDE DEF T
  <1>9. MaxCount = m
    <2>1. \A n \in Slots : (\A i \in Slots : i <= n) => n = m
      <3>1. TAKE n \in Slots
      <3>2. HAVE \A i \in Slots : i <= n
      <3>3. m <= n /\ n <= m /\ n \in Nat  BY <1>3, <1>7, <1>8, <3>2
      <3>4. QED BY <1>8, <3>3
    <2>2. MaxCount \in Slots /\ \A i \in Slots : i <= MaxCount  BY <1>7, <1>8 DEF MaxCount
    <2>3. QED BY <2>1, <2>2
  <1>10. Slots = 0..m
    <2>1. \A i \in Slots : i \in 0..m  BY <1>3, <1>8
    <2>2. \A i \in 0..m : i \in Slots  BY <1>4, <1>7
    <2>3. QED BY <2>1, <2>2
  <1>11. \A s \in Sizes : CalcDescrCount(s) <= m
    <2>1. TAKE s \in Sizes
    <2>2. CalcDescrCount(s) \in Nat  BY CountIs
    <2>3. CalcDescrCount(s) \in Slots  BY <2>2, SlotsAre
    <2>4. QED BY <1>8, <2>3
  <1>12. m >= 1
    <2>1. CalcDescrCount(largest) >= 1 /\ CalcDescrCount(largest) <= m
          /\ CalcDescrCount(largest) \in Nat
      BY <1>1, <1>2, <1>11, CountIs
    <2>2. QED BY <1>8, <2>1
  <1>13. QED BY <1>8, <1>9, <1>10, <1>11, <1>12

-------------------------------------------------------------------------------
(* The loop of ProcessDescriptors.                                          *)

IsTotal(f, n) ==
  f = [i \in 0..n |->
         IF i = 0 THEN 0
         ELSE (IF memory[i - 1].sof THEN 0 ELSE f[i - 1]) + memory[i - 1].transferred]

LEMMA TotalExists ==
  ASSUME NEW n \in Nat
  PROVE  \E f : IsTotal(f, n)
  <1> DEFINE T == {m \in Nat : ~\E f : IsTotal(f, m)}
  <1>1. T = {}
    <2> SUFFICES ASSUME T # {}  PROVE FALSE
      OBVIOUS
    <2>1. PICK m \in T : \A k \in T : m <= k
      <3>1. T \in SUBSET Nat  OBVIOUS
      <3> HIDE DEF T
      <3>2. QED BY <3>1, Smallest
    <2>2. CASE m = 0
      <3> DEFINE g == [i \in 0..0 |-> 0]
      <3>1. IsTotal(g, 0)  BY DEF IsTotal
      <3>2. QED BY <2>1, <2>2, <3>1
    <2>3. CASE m # 0
      <3>1. m \in Nat /\ m - 1 \in Nat /\ m - 1 \notin T  BY <2>1, <2>3
      <3>2. PICK f : IsTotal(f, m - 1)  BY <3>1
      <3> DEFINE g == [i \in 0..m |->
                         IF i = 0 THEN 0
                         ELSE (IF memory[i - 1].sof THEN 0 ELSE f[i - 1])
                              + memory[i - 1].transferred]
      <3>3. f = [i \in 0..(m - 1) |->
                   IF i = 0 THEN 0
                   ELSE (IF memory[i - 1].sof THEN 0 ELSE f[i - 1]) + memory[i - 1].transferred]
        BY <3>2 DEF IsTotal
      <3>4. \A i \in 0..(m - 1) : f[i] = g[i]
        <4>1. TAKE i \in 0..(m - 1)
        <4>2. i \in 0..m  BY <3>1
        <4>3. g[i] = IF i = 0 THEN 0
                     ELSE (IF memory[i - 1].sof THEN 0 ELSE f[i - 1]) + memory[i - 1].transferred
          BY <4>2
        <4> HIDE DEF g
        <4>4. f[i] = IF i = 0 THEN 0
                     ELSE (IF memory[i - 1].sof THEN 0 ELSE f[i - 1]) + memory[i - 1].transferred
          BY <3>3
        <4>5. QED BY <4>3, <4>4
      <3>5. \A i \in 0..m : i # 0 => f[i - 1] = g[i - 1]
        <4>1. TAKE i \in 0..m
        <4>2. i # 0 => i - 1 \in 0..(m - 1)  BY <3>1
        <4> HIDE DEF g
        <4>3. QED BY <3>4, <4>2
      <3>6. IsTotal(g, m)
        <4> DEFINE e(x, i) == IF i = 0 THEN 0
                              ELSE (IF memory[i - 1].sof THEN 0 ELSE x) + memory[i - 1].transferred
        <4>1. g = [i \in 0..m |-> e(f[i - 1], i)]  OBVIOUS
        <4>2. \A i \in 0..m : e(f[i - 1], i) = e(g[i - 1], i)
          <5> HIDE DEF g
          <5>1. QED BY <3>5
        <4> HIDE DEF g, e
        <4>3. g = [i \in 0..m |-> e(g[i - 1], i)]  BY <4>1, <4>2
        <4>4. QED BY <4>3 DEF IsTotal, e
      <3> HIDE DEF g
      <3>7. QED BY <2>1, <3>6
    <2>4. QED BY <2>2, <2>3
  <1>2. QED BY <1>1

LEMMA TotalIs ==
  ASSUME NEW n \in Nat
  PROVE  \E f : IsTotal(f, n) /\ Total(n) = f[n]
  <1> DEFINE total[i \in 0..n] ==
        IF i = 0 THEN 0
        ELSE (IF memory[i - 1].sof THEN 0 ELSE total[i - 1]) + memory[i - 1].transferred
  <1>1. total = CHOOSE f : IsTotal(f, n)  BY DEF IsTotal
  <1>2. Total(n) = total[n]  BY DEF Total
  <1> HIDE DEF total
  <1>3. IsTotal(total, n)  BY <1>1, TotalExists
  <1>4. QED BY <1>2, <1>3

(* What the loop has after each descriptor.                                 *)
LEMMA TotalSteps ==
  ASSUME NEW n \in Nat, NEW f, IsTotal(f, n)
  PROVE  /\ f[0] = 0
         /\ \A i \in 0..(n - 1) :
              f[i + 1] = (IF memory[i].sof THEN 0 ELSE f[i]) + memory[i].transferred
  <1>1. f = [i \in 0..n |->
               IF i = 0 THEN 0
               ELSE (IF memory[i - 1].sof THEN 0 ELSE f[i - 1]) + memory[i - 1].transferred]
    BY DEF IsTotal
  <1>2. f[0] = 0
    <2>1. 0 \in 0..n  OBVIOUS
    <2>2. QED BY <1>1, <2>1
  <1>3. ASSUME NEW i \in 0..(n - 1)
        PROVE  f[i + 1] = (IF memory[i].sof THEN 0 ELSE f[i]) + memory[i].transferred
    <2>1. i + 1 \in 0..n /\ i + 1 # 0 /\ (i + 1) - 1 = i  OBVIOUS
    <2>2. f[i + 1] = IF i + 1 = 0 THEN 0
                     ELSE (IF memory[(i + 1) - 1].sof THEN 0 ELSE f[(i + 1) - 1])
                          + memory[(i + 1) - 1].transferred
      BY <1>1, <2>1
    <2>3. QED BY <2>1, <2>2
  <1>4. QED BY <1>2, <1>3

LEMMA TotalBound ==
  ASSUME NEW n \in Nat, \A i \in 0..(n - 1) : memory[i].transferred \in 0..BytesPerDesc
  PROVE  Total(n) \in 0..(n * BytesPerDesc)
  <1>1. PICK f : IsTotal(f, n) /\ Total(n) = f[n]  BY TotalIs
  <1>2. /\ f[0] = 0
        /\ \A i \in 0..(n - 1) :
              f[i + 1] = (IF memory[i].sof THEN 0 ELSE f[i]) + memory[i].transferred
    BY <1>1, TotalSteps
  <1> DEFINE T == {i \in Nat : i <= n /\ f[i] \notin 0..(i * BytesPerDesc)}
  <1>3. T = {}
    <2> SUFFICES ASSUME T # {}  PROVE FALSE
      OBVIOUS
    <2>1. PICK m \in T : \A k \in T : m <= k
      <3>1. T \in SUBSET Nat  OBVIOUS
      <3> HIDE DEF T
      <3>2. QED BY <3>1, Smallest
    <2>2. m # 0
      <3>1. 0 * BytesPerDesc = 0  BY RingAssumption
      <3>2. QED BY <1>2, <3>1
    <2>3. PICK k \in 0..(n - 1) : m = k + 1
      <3>1. m - 1 \in 0..(n - 1) /\ m = (m - 1) + 1  BY <2>2
      <3>2. QED BY <3>1
    <2>4. k \in Nat /\ k \notin T /\ k <= n
      <3>1. k \in Nat /\ k <= n /\ ~(m <= k)  BY <2>3
      <3>2. QED BY <2>1, <3>1
    <2>5. f[k] \in 0..(k * BytesPerDesc)  BY <2>4
    <2>6. /\ k * BytesPerDesc \in Nat /\ m * BytesPerDesc = k * BytesPerDesc + BytesPerDesc
          /\ BytesPerDesc \in Nat
      BY <2>3, <2>4, Multiples, RingAssumption
    <2>7. /\ f[m] = (IF memory[k].sof THEN 0 ELSE f[k]) + memory[k].transferred
          /\ memory[k].transferred \in 0..BytesPerDesc
      BY <1>2, <2>3
    <2>8. f[m] \in 0..(m * BytesPerDesc)
      <3> DEFINE kb == k * BytesPerDesc
                 mb == m * BytesPerDesc
                 x == memory[k].transferred
      <3>1. kb \in Nat /\ mb = kb + BytesPerDesc /\ f[k] \in 0..kb /\ x \in 0..BytesPerDesc
            /\ BytesPerDesc \in Nat /\ (f[m] = x \/ f[m] = f[k] + x)
        BY <2>5, <2>6, <2>7
      <3> HIDE DEF kb, mb, x
      <3>2. f[m] \in 0..mb  BY <3>1
      <3>3. QED BY <3>2 DEF mb
    <2>9. QED BY <2>1, <2>8
  <1>4. n \notin T  BY <1>3
  <1>5. QED BY <1>1, <1>4

(* One packet: the first descriptor sets the size or adds to nothing, the   *)
(* others add to it.                                                        *)
LEMMA TotalOfPacket ==
  ASSUME NEW n \in Nat, n >= 1, \A i \in 0..(n - 1) : memory[i].transferred \in Nat,
         \A i \in 1..(n - 1) : ~memory[i].sof,
         \A i \in 0..(n - 1) : i < n - 1 => memory[i].transferred = BytesPerDesc
  PROVE  Total(n) = (n - 1) * BytesPerDesc + memory[n - 1].transferred
  <1>1. PICK f : IsTotal(f, n) /\ Total(n) = f[n]  BY TotalIs
  <1>2. /\ f[0] = 0
        /\ \A i \in 0..(n - 1) :
              f[i + 1] = (IF memory[i].sof THEN 0 ELSE f[i]) + memory[i].transferred
    BY <1>1, TotalSteps
  <1> DEFINE T == {i \in Nat : i <= n - 1 /\ f[i] # i * BytesPerDesc}
  <1>3. T = {}
    <2> SUFFICES ASSUME T # {}  PROVE FALSE
      OBVIOUS
    <2>1. PICK m \in T : \A k \in T : m <= k
      <3>1. T \in SUBSET Nat  OBVIOUS
      <3> HIDE DEF T
      <3>2. QED BY <3>1, Smallest
    <2>2. 0 * BytesPerDesc = 0 /\ BytesPerDesc \in Nat  BY RingAssumption
    <2>3. m # 0  BY <1>2, <2>2
    <2>4. PICK k \in 0..(n - 1) : m = k + 1 /\ k < n - 1
      <3>1. m - 1 \in 0..(n - 1) /\ m = (m - 1) + 1 /\ m - 1 < n - 1  BY <2>3
      <3>2. QED BY <3>1
    <2>5. f[k] = k * BytesPerDesc
      <3>1. k \in Nat /\ k <= n - 1 /\ ~(m <= k)  BY <2>4
      <3>2. k \notin T  BY <2>1, <3>1
      <3>3. QED BY <3>1, <3>2
    <2>6. k * BytesPerDesc \in Nat /\ m * BytesPerDesc = k * BytesPerDesc + BytesPerDesc
      <3>1. k \in Nat  OBVIOUS
      <3>2. QED BY <2>4, <3>1, Multiples
    <2>7. /\ f[m] = (IF memory[k].sof THEN 0 ELSE f[k]) + BytesPerDesc
      BY <1>2, <2>4
    <2>8. memory[k].sof => k = 0
      <3>1. k # 0 => k \in 1..(n - 1)  OBVIOUS
      <3>2. QED BY <3>1
    <2>9. f[m] = m * BytesPerDesc
      <3>1. CASE memory[k].sof  BY <2>2, <2>6, <2>7, <2>8, <3>1
      <3>2. CASE ~memory[k].sof  BY <2>5, <2>6, <2>7, <3>2
      <3>3. QED BY <3>1, <3>2
    <2>10. QED BY <2>1, <2>9
  <1>4. f[n - 1] = (n - 1) * BytesPerDesc
    <2>1. n - 1 \in Nat  OBVIOUS
    <2>2. n - 1 \notin T  BY <1>3
    <2>3. QED BY <2>1, <2>2
  <1>5. f[n] = (IF memory[n - 1].sof THEN 0 ELSE f[n - 1]) + memory[n - 1].transferred
    <2>1. n - 1 \in 0..(n - 1) /\ (n - 1) + 1 = n  OBVIOUS
    <2>2. QED BY <1>2, <2>1
  <1>6. memory[n - 1].sof => n - 1 = 0
    <2>1. n - 1 # 0 => n - 1 \in 1..(n - 1)  OBVIOUS
    <2>2. QED BY <2>1
  <1>7. (n - 1) * BytesPerDesc \in Nat /\ 0 * BytesPerDesc = 0
    <2>1. n - 1 \in Nat  OBVIOUS
    <2>2. QED BY <2>1, Multiples, RingAssumption
  <1>8. memory[n - 1].transferred \in Nat
    <2>1. n - 1 \in 0..(n - 1)  OBVIOUS
    <2>2. QED BY <2>1
  <1> HIDE DEF T
  <1>9. QED
    <2>1. CASE memory[n - 1].sof
      <3>1. (n - 1) * BytesPerDesc = 0  BY <1>6, <1>7, <2>1
      <3>2. f[n] = 0 + memory[n - 1].transferred  BY <1>5, <2>1
      <3>3. QED BY <1>1, <3>1, <3>2
    <2>2. CASE ~memory[n - 1].sof  BY <1>1, <1>4, <1>5, <2>2
    <2>3. QED BY <2>1, <2>2

-------------------------------------------------------------------------------
(* The driver keeps types and sums.                                         *)

BdType == [next : Slots, buffer : Offsets, length : 0..BytesPerDesc,
           lastOfFrame : BOOLEAN, complete : BOOLEAN, sof : BOOLEAN,
           transferred : 0..BytesPerDesc]

LEMMA OffsetsAre ==
  /\ \A i \in 0..(MaxCount - 1) : i * BytesPerDesc \in Offsets
  /\ 0 \in Offsets /\ 0 \in Slots /\ MaxCount \in Slots /\ 0 \in 0..BytesPerDesc
  /\ MaxCount * BytesPerDesc \in Nat /\ BytesPerDesc \in Nat
  <1>1. MaxCount \in Nat /\ 0 \in 0..(MaxCount - 1) /\ Slots = 0..MaxCount  BY SlotsUpTo
  <1>2. 0 * BytesPerDesc = 0 /\ BytesPerDesc \in Nat  BY RingAssumption
  <1>3. 0 \in Offsets
    <2>1. 0 * BytesPerDesc \in Offsets  BY <1>1 DEF Offsets
    <2>2. QED BY <1>2, <2>1
  <1>4. QED BY <1>1, <1>2, <1>3, Multiples DEF Offsets

LEMMA InitMore == Init => More
  <1> SUFFICES ASSUME Init  PROVE More
    OBVIOUS
  <1>1. Cleared \in BdType /\ ~Cleared.complete  BY OffsetsAre DEF Cleared, BdType
  <1>2. memory \in [Slots -> BdType] /\ \A i \in Slots : ~memory[i].complete
    BY <1>1 DEF Init
  <1>3. engine \in [at : Slots, active : BOOLEAN] /\ ~engine.active
    BY OffsetsAre DEF Init, Stopped
  <1>4. Len(moved) = 0 /\ 0 <= MaxCount * BytesPerDesc /\ 0 \in 0..(MaxCount * BytesPerDesc)
    BY OffsetsAre DEF Init
  <1>5. TypeOK
    <2>1. {bd_count, processed, tail} \subseteq Slots /\ frames \in 0..2 /\ size \in Sizes \cup {0}
      BY OffsetsAre DEF Init
    <2>2. phase = "free" /\ result = 0 /\ isRx \in BOOLEAN /\ {irq, midFrame, clean} \subseteq BOOLEAN
      BY DEF Init
    <2>3. QED BY <1>2, <1>3, <1>4, <2>1, <2>2 DEF TypeOK, BdType
  <1>6. Bounds /\ Behind  BY <1>2, <1>3, OffsetsAre DEF Bounds, Behind
  <1>7. OnePacket /\ Summed /\ LengthIsReal
    BY DEF Init, OnePacket, Summed, LengthIsReal
  <1>8. QED BY <1>5, <1>6, <1>7 DEF More

LEMMA InitDescriptorsSums ==
  ASSUME IInv, More, NEW s \in Sizes, InitDescriptors(s)
  PROVE  More'
  <1> DEFINE n == CalcDescrCount(s)
             new == NewChain(n, s)
  <1>1. /\ phase = "free" /\ n >= 1 /\ memory' = new /\ size' = s /\ bd_count' = n
        /\ phase' = "ready" /\ frames' = 0 /\ moved' = <<>>
        /\ clean' = \A i \in Slots : i >= n => ~memory[i].complete
        /\ UNCHANGED <<isRx, processed, result, engine, tail, irq, midFrame>>
    BY DEF InitDescriptors
  <1>2. ~engine.active /\ ~irq  BY <1>1 DEF IInv, AtRest
  <1>3. /\ n \in Nat /\ n <= MaxCount /\ n \in Slots /\ Last(n) \in 0..(MaxCount - 1)
        /\ Last(n) + 1 = n /\ Last(n) \in Nat /\ Slots = 0..MaxCount /\ MaxCount \in Nat
    BY <1>1, CountIs, SlotsUpTo DEF Last
  <1>4. memory \in [Slots -> BdType] /\ ~memory[MaxCount].complete
    BY DEF More, TypeOK, Bounds, BdType
  <1> DEFINE bd(i) == [Cleared EXCEPT !.next = IF i = Last(n) THEN 0 ELSE i + 1,
                         !.buffer = BufferAddr(i, n), !.length = DescrLength(i, n, s),
                         !.lastOfFrame = ~isRx /\ i = Last(n)]
  <1>5. ASSUME NEW i \in Slots, ~(i >= n)  PROVE bd(i) \in BdType
    <2>1. (IF i = Last(n) THEN 0 ELSE i + 1) \in Slots  BY <1>3, <1>5
    <2>2. BufferAddr(i, n) \in Offsets
      BY <1>3, OffsetsAre DEF BufferAddr
    <2>3. DescrLength(i, n, s) \in 0..BytesPerDesc
      BY CountIs, OffsetsAre DEF DescrLength
    <2>4. (~isRx /\ i = Last(n)) \in BOOLEAN  OBVIOUS
    <2>5. Cleared \in BdType  BY OffsetsAre DEF Cleared, BdType
    <2>6. QED BY <2>1, <2>2, <2>3, <2>4, <2>5 DEF BdType
  <1>6. new = [i \in Slots |-> IF i >= n THEN memory[i] ELSE bd(i)]
    BY DEF NewChain
  <1> HIDE DEF bd, new, n
  <1>7. new \in [Slots -> BdType] /\ \A i \in Slots : i >= n => new[i] = memory[i]
    BY <1>4, <1>5, <1>6
  <1>8. Len(moved') = 0 /\ 0 <= MaxCount * BytesPerDesc  BY <1>1, OffsetsAre
  <1>9. clean' \in BOOLEAN  BY <1>1
  <1>10. /\ isRx \in BOOLEAN /\ {processed, tail} \subseteq Slots
         /\ result \in 0..(MaxCount * BytesPerDesc)
         /\ engine \in [at : Slots, active : BOOLEAN] /\ {irq, midFrame} \subseteq BOOLEAN
    BY DEF More, TypeOK
  <1>11. TypeOK'
    <2>1. {bd_count, processed, tail}' \subseteq Slots  BY <1>1, <1>3, <1>10
    <2>2. {irq, midFrame, clean}' \subseteq BOOLEAN  BY <1>1, <1>9, <1>10
    <2>3. frames' \in 0..2 /\ size' \in Sizes \cup {0} /\ phase' = "ready"  BY <1>1
    <2>4. Len(moved)' <= MaxCount * BytesPerDesc  BY <1>8
    <2>5. memory' \in [Slots -> BdType]  BY <1>1, <1>7
    <2>6. QED BY <1>1, <1>10, <2>1, <2>2, <2>3, <2>4, <2>5 DEF TypeOK, BdType
  <1>12. Bounds'
    <2>1. MaxCount \in Slots /\ MaxCount >= n  BY <1>3
    <2>2. QED BY <1>1, <1>2, <1>4, <1>7, <2>1 DEF Bounds
  <1>13. Behind'  BY <1>1, <1>7 DEF Behind
  <1>14. OnePacket' /\ Summed' /\ LengthIsReal'
    BY <1>1, <1>2 DEF OnePacket, Summed, LengthIsReal
  <1>15. QED BY <1>11, <1>12, <1>13, <1>14 DEF More

LEMMA LaunchSums ==
  ASSUME IInv, More, Launch
  PROVE  More'
  <1>1. /\ phase = "ready" /\ engine' = [Stopped EXCEPT !.active = TRUE]
        /\ tail' = GetTailMem(bd_count) /\ phase' = "running"
        /\ UNCHANGED <<isRx, memory, size, bd_count, processed, result, clean,
                       irq, midFrame, frames, moved>>
    BY DEF Launch
  <1>2. Call /\ moved = <<>> /\ ~irq  BY <1>1 DEF IInv, Prepared, AtRest
  <1>3. engine' \in [at : Slots, active : BOOLEAN] /\ engine'.at = 0 /\ engine'.active
    BY <1>1, OffsetsAre DEF Stopped
  <1>4. tail' \in Slots
    <2>1. /\ bd_count \in Nat /\ bd_count <= MaxCount /\ MaxCount \in Nat /\ bd_count >= 1
          /\ Slots = 0..MaxCount
      BY <1>2, SlotsUpTo, CountIs DEF Call
    <2>2. QED BY <1>1, <2>1 DEF GetTailMem
  <1>5. Len(moved) = 0 /\ 0 * BytesPerDesc = 0  BY <1>2, RingAssumption
  <1>6. TypeOK'
    <2>1. {bd_count, processed, tail}' \subseteq Slots  BY <1>1, <1>4 DEF More, TypeOK
    <2>2. {irq, midFrame, clean}' \subseteq BOOLEAN /\ frames' \in 0..2
          /\ size' \in Sizes \cup {0} /\ phase' = "running" /\ isRx' \in BOOLEAN
      BY <1>1 DEF More, TypeOK
    <2>3. QED BY <1>1, <1>3, <2>1, <2>2 DEF More, TypeOK
  <1>7. Bounds' /\ Behind'  BY <1>1, <1>3, <1>5 DEF More, Bounds, Behind
  <1>8. Done' = 0  BY <1>3 DEF Done
  <1>9. Summed'
    <2>1. 0..(0 - 1) = {}  OBVIOUS
    <2>2. QED BY <1>1, <1>5, <1>8, <2>1 DEF Summed
  <1>10. OnePacket' /\ LengthIsReal'  BY <1>1, <1>2 DEF OnePacket, LengthIsReal
  <1>11. QED BY <1>6, <1>7, <1>9, <1>10 DEF More

(* The count is that of the descriptors the engine is done with.            *)
LEMMA CountSums ==
  ASSUME IInv, More, CountProcessedDescs
  PROVE  More'
  <1> DEFINE Counted(n) == ~memory[n].complete /\ \A i \in 0..(n - 1) : memory[i].complete
  <1>1. /\ phase = "running" /\ irq /\ irq' = FALSE /\ phase' = "counted"
        /\ UNCHANGED <<isRx, memory, size, bd_count, result, clean, engine, tail, midFrame,
                       frames, moved>>
        /\ processed' = CHOOSE n \in Slots : Counted(n)
    BY DEF CountProcessedDescs
  <1>2. /\ Slots = 0..MaxCount /\ MaxCount \in Nat /\ ~memory[MaxCount].complete
    BY SlotsUpTo DEF More, Bounds
  <1>3. \E n \in Slots : Counted(n)
    <2> DEFINE T == {i \in Slots : ~memory[i].complete}
    <2>1. T \in SUBSET Nat /\ MaxCount \in T  BY <1>2
    <2>2. PICK n \in T : \A i \in T : n <= i
      <3> HIDE DEF T
      <3>1. QED BY <2>1, Smallest
    <2>3. \A i \in 0..(n - 1) : memory[i].complete
      <3>1. TAKE i \in 0..(n - 1)
      <3>2. i \in Slots /\ ~(n <= i)  BY <1>2
      <3>3. i \notin T  BY <2>2, <3>2
      <3>4. QED BY <3>2, <3>3
    <2>4. QED BY <2>3
  <1>4. processed' \in Slots /\ Counted(processed')  BY <1>1, <1>3
  <1>5. TypeOK'  BY <1>1, <1>4 DEF More, TypeOK
  <1>6. Bounds' /\ Behind'  BY <1>1 DEF More, Bounds, Behind
  <1>7. OnePacket'  BY <1>1 DEF More, OnePacket
  <1>8. Done' = Done  BY <1>1 DEF Done
  <1>9. ASSUME frames <= 1, clean  PROVE processed' = Done
    <2>1. \A i \in 0..(Done - 1) : memory[i].complete  BY <1>1, <1>9 DEF More, Summed
    <2>2. Done \in Slots /\ ~memory[Done].complete
      <3>1. CASE engine.active
        <4>1. /\ Call /\ engine.at \in 0..Last(bd_count)
              /\ \A i \in (engine.at)..Last(bd_count) : Fresh(i)
          BY <3>1 DEF IInv, Running
        <4>2. Last(bd_count) \in Nat  BY <4>1, ChainFits DEF Call
        <4>3. Fresh(engine.at)  BY <4>1, <4>2
        <4>4. engine.at \in Slots  BY DEF More, TypeOK
        <4>5. QED BY <3>1, <4>3, <4>4 DEF Fresh, Done
      <3>2. CASE ~engine.active
        <4>1. bd_count \in Slots  BY DEF More, TypeOK
        <4>2. bd_count >= bd_count  BY <1>2, <4>1
        <4>3. QED BY <1>9, <3>2, <4>1, <4>2 DEF More, Behind, Done
      <3>3. QED BY <3>1, <3>2
    <2> DEFINE p == processed'
    <2>3. p \in Slots /\ Counted(p)  BY <1>4
    <2>4. p \in Nat /\ Done \in Nat
      <3> HIDE DEF p, Counted
      <3>1. QED BY <1>2, <2>2, <2>3
    <2> HIDE DEF p
    <2>5. ~(p < Done)
      <3>1. p < Done => p \in 0..(Done - 1)  BY <2>4
      <3>2. QED BY <2>1, <2>3, <3>1
    <2>6. ~(Done < p)
      <3>1. Done < p => Done \in 0..(p - 1)  BY <2>4
      <3>2. QED BY <2>2, <2>3, <3>1
    <2>7. p = Done  BY <2>4, <2>5, <2>6
    <2>8. QED BY <2>7 DEF p
  <1>10. Summed'
    <2>1. phase = "running"  BY <1>1
    <2>2. QED BY <1>1, <1>8, <1>9, <2>1 DEF More, Summed
  <1>11. LengthIsReal'  BY <1>1 DEF LengthIsReal
  <1>12. QED BY <1>5, <1>6, <1>7, <1>10, <1>11 DEF More

LEMMA ProcessSums ==
  ASSUME IInv, More, ProcessDescriptors
  PROVE  More'
  <1>1. /\ phase = "counted" /\ phase' = "summed" /\ result' = Total(processed)
        /\ UNCHANGED <<isRx, size, bd_count, processed, clean, engine, tail, irq, midFrame,
                       frames, moved>>
        /\ memory' = [i \in Slots |-> IF i < processed THEN Freed(memory[i]) ELSE memory[i]]
    BY DEF ProcessDescriptors, dma
  <1>2. /\ Slots = 0..MaxCount /\ MaxCount \in Nat /\ processed \in Slots /\ processed \in Nat
        /\ memory \in [Slots -> BdType]
    <2>1. memory \in [Slots -> BdType]  BY DEF More, TypeOK, BdType
    <2>2. processed \in Slots  BY DEF More, TypeOK
    <2>3. QED BY <2>1, <2>2, SlotsUpTo
  <1>3. \A i \in 0..(processed - 1) : i \in Slots /\ memory[i].transferred \in 0..BytesPerDesc
    <2>1. \A i \in 0..(processed - 1) : i \in Slots  BY <1>2
    <2>2. \A i \in Slots : memory[i].transferred \in 0..BytesPerDesc  BY <1>2 DEF BdType
    <2>3. QED BY <2>1, <2>2
  <1>4. memory' \in [Slots -> BdType] /\ \A i \in Slots : memory'[i].complete => memory[i].complete
    <2>1. \A b \in BdType : Freed(b) \in BdType /\ ~Freed(b).complete
      BY OffsetsAre DEF Freed, BdType
    <2>2. ASSUME NEW i \in Slots
          PROVE  memory'[i] \in BdType /\ (memory'[i].complete => memory[i].complete)
      <3>1. memory[i] \in BdType  BY <1>2
      <3>2. memory'[i] = Freed(memory[i]) \/ memory'[i] = memory[i]  BY <1>1
      <3>3. QED BY <2>1, <3>1, <3>2
    <2>3. QED BY <1>1, <2>2
  <1>5. result' \in 0..(MaxCount * BytesPerDesc)
    <2>1. Total(processed) \in 0..(processed * BytesPerDesc)  BY <1>2, <1>3, TotalBound
    <2>2. processed * BytesPerDesc <= MaxCount * BytesPerDesc
      <3>1. PICK d \in Nat : MaxCount = processed + d
        <4>1. MaxCount - processed \in Nat /\ MaxCount = processed + (MaxCount - processed)
          BY <1>2
        <4>2. QED BY <4>1
      <3>2. \A x, y, z \in Nat : (x + y) * z = x * z + y * z /\ x * z \in Nat /\ y * z \in Nat
        OBVIOUS
      <3>3. MaxCount * BytesPerDesc = processed * BytesPerDesc + d * BytesPerDesc
            /\ processed * BytesPerDesc \in Nat /\ d * BytesPerDesc \in Nat
        BY <1>2, <3>1, <3>2, OffsetsAre
      <3>4. QED BY <3>3
    <2>3. processed * BytesPerDesc \in Nat  BY <1>2, Multiples
    <2>4. QED BY <1>1, <2>1, <2>2, <2>3, OffsetsAre
  <1>6. TypeOK'  BY <1>1, <1>4, <1>5 DEF More, TypeOK, BdType
  <1>7. Bounds' /\ Behind'  BY <1>1, <1>4, OffsetsAre DEF More, Bounds, Behind
  <1>8. OnePacket' /\ Summed'  BY <1>1 DEF More, OnePacket, Summed
  <1>9. LengthIsReal'
    <2> SUFFICES ASSUME clean, frames <= 1  PROVE Total(processed) = Len(moved)
      BY <1>1 DEF LengthIsReal
    <2>1. /\ processed = Done
          /\ \A i \in 0..(Done - 1) :
               /\ memory[i].complete /\ (i >= 1 => ~memory[i].sof)
               /\ i < Done - 1 => memory[i].transferred = BytesPerDesc
          /\ Done = 0 => Len(moved) = 0
          /\ Done >= 1 => Len(moved) = (Done - 1) * BytesPerDesc + memory[Done - 1].transferred
      BY <1>1 DEF More, Summed
    <2>2. \A i \in 0..(processed - 1) : memory[i].transferred \in Nat  BY <1>3, OffsetsAre
    <2>3. \A i \in 1..(processed - 1) : ~memory[i].sof  BY <1>2, <2>1
    <2>4. CASE processed >= 1
      <3>1. Total(processed) = (processed - 1) * BytesPerDesc + memory[processed - 1].transferred
        BY <1>2, <2>1, <2>2, <2>3, <2>4, TotalOfPacket
      <3>2. QED BY <2>1, <2>4, <3>1
    <2>5. CASE processed = 0
      <3>1. Total(0) \in 0..(0 * BytesPerDesc) /\ 0 * BytesPerDesc = 0
        BY <1>3, <2>5, TotalBound, RingAssumption
      <3>2. QED BY <2>1, <2>5, <3>1
    <2>6. QED BY <1>2, <2>4, <2>5
  <1>10. QED BY <1>6, <1>7, <1>8, <1>9 DEF More

LEMMA ResetSums ==
  ASSUME IInv, More, Reset
  PROVE  More'
  <1>1. /\ phase' = "free" /\ engine' = Stopped /\ irq' = FALSE /\ midFrame' = FALSE
        /\ UNCHANGED <<isRx, memory, size, bd_count, processed, result, clean, tail, frames,
                       moved>>
    BY DEF Reset
  <1>2. engine' \in [at : Slots, active : BOOLEAN] /\ ~engine'.active
    BY <1>1, OffsetsAre DEF Stopped
  <1>3. TypeOK'  BY <1>1, <1>2 DEF More, TypeOK
  <1>4. Bounds' /\ Behind'  BY <1>1, <1>2 DEF More, Bounds, Behind
  <1>5. OnePacket' /\ Summed' /\ LengthIsReal'  BY <1>1 DEF OnePacket, Summed, LengthIsReal
  <1>6. QED BY <1>3, <1>4, <1>5 DEF More

-------------------------------------------------------------------------------
(* So does the engine.                                                      *)

LEMMA TransferSums ==
  ASSUME IInv, More, engine.active, NEW k \in 1..memory[engine.at].length,
         NEW last \in BOOLEAN, Transfer(k, last), midFrame' \in BOOLEAN, frames' \in 0..2,
         isRx => /\ ~last => k = memory[engine.at].length /\ midFrame'
                 /\ last => ~midFrame'
                 /\ frames' = IF midFrame \/ frames = 2 THEN frames ELSE frames + 1,
         ~isRx => /\ k = memory[engine.at].length /\ last = memory[engine.at].lastOfFrame
                  /\ UNCHANGED <<midFrame, frames>>
  PROVE  More'
  <1> DEFINE a == engine.at
             z == Last(bd_count)
             bd == [memory[a] EXCEPT !.complete = TRUE, !.transferred = k,
                                     !.sof = isRx /\ ~midFrame]
  <1>1. /\ memory' = [memory EXCEPT ![a] = bd]
        /\ moved' = Extended(moved, memory[a].buffer, k)
        /\ engine' = [engine EXCEPT !.at = memory[a].next, !.active = a # tail]
        /\ irq' = (irq \/ last)
        /\ UNCHANGED <<isRx, tail, size, bd_count, phase, processed, result, clean>>
    BY DEF Transfer, Extended, call
  <1>2. /\ Call /\ tail = z /\ a \in 0..z /\ \A i \in a..z : Fresh(i)
    BY DEF IInv, Running
  <1>3. /\ z \in Nat /\ a \in Nat /\ bd_count = z + 1 /\ bd_count <= MaxCount /\ bd_count \in Nat
        /\ MaxCount \in Nat /\ Slots = 0..MaxCount
    <2>1. z \in Nat /\ bd_count \in Nat /\ z + 1 = bd_count  BY <1>2, ChainFits DEF Call
    <2>2. bd_count <= MaxCount /\ MaxCount \in Nat /\ Slots = 0..MaxCount
      BY <1>2, SlotsUpTo DEF Call
    <2>3. QED BY <1>2, <2>1, <2>2
  <1>4. a \in Slots /\ a # MaxCount /\ a <= z  BY <1>2, <1>3
  <1>5. memory[a].next = (IF a = z THEN 0 ELSE a + 1) /\ memory[a].next \in Slots
        /\ (~isRx => memory[a].lastOfFrame = (a = z))
    <2>1. Fresh(a)  BY <1>2, <1>3
    <2>2. memory[a].next = (IF a = z THEN 0 ELSE a + 1)
          /\ (~isRx => memory[a].lastOfFrame = (a = z))
      BY <2>1 DEF Fresh
    <2>3. QED BY <1>2, <1>3, <2>2
  <1>6. memory \in [Slots -> BdType]  BY DEF More, TypeOK, BdType
  <1>7. k \in Nat /\ k >= 1 /\ k <= BytesPerDesc /\ k <= memory[a].length
    <2>1. memory[a] \in BdType  BY <1>4, <1>6
    <2>2. memory[a].length \in 0..BytesPerDesc  BY <2>1 DEF BdType
    <2>3. QED BY <2>2, OffsetsAre
  <1>8. /\ bd \in BdType /\ bd.complete /\ bd.transferred = k /\ bd.sof = (isRx /\ ~midFrame)
    <2>1. memory[a] \in BdType  BY <1>4, <1>6
    <2>2. (isRx /\ ~midFrame) \in BOOLEAN /\ k \in 0..BytesPerDesc  BY <1>7, OffsetsAre
    <2>3. QED BY <2>1, <2>2 DEF BdType
  <1>9. Len(moved') = Len(moved) + k /\ Len(moved) \in Nat
    <2>1. memory[a] \in BdType /\ moved \in Seq(Nat)  BY <1>4, <1>6 DEF IInv, Types
    <2>2. memory[a].buffer \in Nat
      <3>1. memory[a] \in Descriptors  BY <1>4 DEF IInv, Types
      <3>2. QED BY <3>1 DEF Descriptors
    <2>3. QED BY <1>1, <1>7, <2>1, <2>2, ExtendedIs, LenProperties
  <1>10. /\ phase \notin {"free", "ready"} /\ (phase \in {"counted", "summed"} => isRx)
    BY DEF IInv, AtRest, Filled
  <1>11. isRx \in BOOLEAN /\ midFrame \in BOOLEAN /\ irq \in BOOLEAN /\ frames \in 0..2
    BY DEF IInv, Types
  <1>12. /\ a = 0 => ~midFrame /\ moved = <<>>
         /\ isRx /\ a >= 1 => frames >= 1
         /\ (~isRx \/ (frames <= 1 /\ (midFrame \/ a = 0))) => Len(moved) = a * BytesPerDesc
    BY DEF IInv, Filled
  <1>13. Len(moved) <= a * BytesPerDesc /\ ~memory[MaxCount].complete
    BY DEF More, Bounds
  <1>14. isRx => frames' >= 1 /\ frames <= frames'
    <2>1. CASE isRx /\ midFrame  BY <1>4, <1>11, <1>12, <1>3, <2>1
    <2>2. CASE isRx /\ ~midFrame  BY <1>11, <2>2
    <2>3. QED BY <2>1, <2>2, <1>11
  <1>15. isRx => /\ (last => ~midFrame') /\ (~last => midFrame')
                 /\ frames' = IF midFrame \/ frames = 2 THEN frames ELSE frames + 1
    OBVIOUS
  <1>16. /\ engine' \in [at : Slots, active : BOOLEAN]
         /\ engine'.active <=> a # z
         /\ a # z => engine'.at = a + 1
    <2>1. engine \in [at : Slots, active : BOOLEAN]  BY DEF More, TypeOK
    <2>2. QED BY <1>1, <1>2, <1>5, <2>1
  <1>17. memory'[a] = bd /\ \A i \in Slots : i # a => memory'[i] = memory[i]
    BY <1>1, <1>4, <1>6
  <1>18. memory' \in [Slots -> BdType]
    <2> HIDE DEF bd
    <2>1. QED BY <1>1, <1>4, <1>6, <1>8
  <1>19. k + a * BytesPerDesc <= (a + 1) * BytesPerDesc /\ (a + 1) * BytesPerDesc \in Nat
         /\ (a + 1) * BytesPerDesc <= MaxCount * BytesPerDesc /\ a * BytesPerDesc \in Nat
    <2>1. (a + 1) * BytesPerDesc = a * BytesPerDesc + BytesPerDesc /\ a * BytesPerDesc \in Nat
          /\ (a + 1) * BytesPerDesc \in Nat
      <3>1. a \in Nat /\ a + 1 \in Nat  BY <1>3
      <3> HIDE DEF a
      <3>2. a * BytesPerDesc \in Nat
            /\ (a + 1) * BytesPerDesc = a * BytesPerDesc + BytesPerDesc
        BY <3>1, Multiples
      <3>3. (a + 1) * BytesPerDesc \in Nat  BY <3>1, Multiples
      <3>4. QED BY <3>2, <3>3
    <2>2. (a + 1) * BytesPerDesc <= MaxCount * BytesPerDesc
      <3>1. PICK d \in Nat : MaxCount = (a + 1) + d
        <4>1. MaxCount - (a + 1) \in Nat /\ MaxCount = (a + 1) + (MaxCount - (a + 1))
          BY <1>3, <1>4
        <4>2. QED BY <4>1
      <3>2. \A x, y, w \in Nat : (x + y) * w = x * w + y * w /\ x * w \in Nat /\ y * w \in Nat
        OBVIOUS
      <3>3. a + 1 \in Nat  BY <1>3
      <3>4. MaxCount * BytesPerDesc = (a + 1) * BytesPerDesc + d * BytesPerDesc
            /\ d * BytesPerDesc \in Nat
        BY <3>1, <3>2, <3>3, OffsetsAre
      <3>5. QED BY <2>1, <3>4
    <2>3. QED BY <1>7, <2>1, <2>2, OffsetsAre
  <1> HIDE DEF a, z, bd
  <1>20. Len(moved') <= (a + 1) * BytesPerDesc  BY <1>7, <1>9, <1>13, <1>19
  <1>21. TypeOK'
    <2>1. {irq, midFrame, clean}' \subseteq BOOLEAN  BY <1>1 DEF More, TypeOK
    <2>2. {bd_count, processed, tail}' \subseteq Slots  BY <1>1 DEF More, TypeOK
    <2>3. Len(moved)' <= MaxCount * BytesPerDesc  BY <1>9, <1>7, <1>19, <1>20, OffsetsAre
    <2>4. /\ isRx' \in BOOLEAN /\ size' \in Sizes \cup {0}
          /\ phase' \in {"free", "ready", "running", "counted", "summed"}
          /\ result' \in 0..(MaxCount * BytesPerDesc)
      BY <1>1 DEF More, TypeOK
    <2>5. QED BY <1>16, <1>18, <2>1, <2>2, <2>3, <2>4 DEF TypeOK, BdType
  <1>22. Bounds'
    <2>1. memory'[MaxCount] = memory[MaxCount]  BY <1>3, <1>4, <1>17
    <2>2. engine'.active => Len(moved') <= engine'.at * BytesPerDesc  BY <1>16, <1>20
    <2>3. QED BY <1>13, <2>1, <2>2 DEF Bounds
  <1>23. Behind'
    <2>1. \A i \in Slots : i >= bd_count => i # a  BY <1>3, <1>4
    <2>2. QED BY <1>1, <1>17, <2>1 DEF More, Behind
  <1>24. OnePacket'
    <2> SUFFICES ASSUME isRx, irq \/ last \/ phase \in {"counted", "summed"}
                 PROVE  frames' >= 1 /\ (frames' <= 1 => ~midFrame')
      BY <1>1 DEF OnePacket
    <2>1. frames' >= 1  BY <1>14
    <2>2. CASE last  BY <1>15, <2>1, <2>2
    <2>3. CASE ~last
      <3>1. frames >= 1 /\ (frames <= 1 => ~midFrame)  BY <2>3 DEF More, OnePacket
      <3>2. frames' = 2  BY <1>11, <1>15, <3>1
      <3>3. QED BY <3>2
    <2>4. QED BY <2>2, <2>3
  <1>25. Done = a /\ Done' = a + 1
    <2>1. a = z => bd_count' = a + 1  BY <1>1, <1>3
    <2>2. QED BY <1>16, <2>1 DEF Done, a
  <1>26. Summed'
    <2> SUFFICES ASSUME frames' <= 1, phase \in {"running", "counted"}  PROVE Summed'
      BY <1>1 DEF Summed
    <2>1. phase = "running"
      <3> SUFFICES ASSUME phase = "counted"  PROVE FALSE
        OBVIOUS
      <3>1. isRx  BY <1>10
      <3>2. frames >= 1 /\ (frames <= 1 => ~midFrame)  BY <3>1 DEF More, OnePacket
      <3>3. QED BY <1>11, <1>15, <2>1, <3>1, <3>2
    <2>2. frames <= 1
      <3>1. CASE isRx  BY <1>11, <1>14, <3>1
      <3>2. CASE ~isRx  BY <3>2
      <3>3. QED BY <3>1, <3>2
    <2>3. isRx /\ a >= 1 => midFrame  BY <1>11, <1>12, <1>15
    <2>4. Len(moved) = a * BytesPerDesc
      <3>1. CASE a = 0  BY <1>12, <2>2, <3>1
      <3>2. CASE a # 0
        <4>1. ~isRx \/ midFrame  BY <1>3, <2>3, <3>2
        <4>2. QED BY <1>12, <2>2, <4>1
      <3>3. QED BY <3>1, <3>2
    <2>5. /\ \A i \in 0..(a - 1) :
               /\ memory[i].complete /\ (i >= 1 => ~memory[i].sof)
               /\ i < a - 1 => memory[i].transferred = BytesPerDesc
          /\ a >= 1 => Len(moved) = (a - 1) * BytesPerDesc + memory[a - 1].transferred
      BY <1>25, <2>1, <2>2 DEF More, Summed
    <2>6. a >= 1 => memory[a - 1].transferred = BytesPerDesc
      <3> SUFFICES ASSUME a >= 1  PROVE memory[a - 1].transferred = BytesPerDesc
        OBVIOUS
      <3>1. a - 1 \in Nat /\ (a - 1) + 1 = a  BY <1>3
      <3>2. (a - 1) * BytesPerDesc \in Nat
            /\ a * BytesPerDesc = (a - 1) * BytesPerDesc + BytesPerDesc
        BY <3>1, Multiples
      <3>3. a - 1 \in Slots  BY <1>3, <1>4, <3>1
      <3>4. memory[a - 1].transferred \in 0..BytesPerDesc  BY <1>6, <3>3 DEF BdType
      <3> DEFINE x == memory[a - 1].transferred
                 y == (a - 1) * BytesPerDesc
      <3>5. y + x = y + BytesPerDesc /\ x \in Nat /\ y \in Nat /\ BytesPerDesc \in Nat
        BY <2>4, <2>5, <3>2, <3>4, OffsetsAre
      <3> HIDE DEF x, y
      <3>6. x = BytesPerDesc  BY <3>5
      <3>7. QED BY <3>6 DEF x
    <2>7. memory'[a].complete /\ memory'[a].transferred = k /\ (a >= 1 => ~memory'[a].sof)
      BY <1>8, <1>17, <2>3
    <2>8. ASSUME NEW i \in 0..((a + 1) - 1)
          PROVE  /\ memory'[i].complete /\ (i >= 1 => ~memory'[i].sof)
                 /\ i < (a + 1) - 1 => memory'[i].transferred = BytesPerDesc
      <3>1. CASE i = a  BY <1>3, <2>7, <3>1
      <3>2. CASE i # a
        <4>1. i \in 0..(a - 1) /\ i \in Slots /\ (i < a - 1 \/ i = a - 1) /\ a >= 1
          BY <1>3, <1>4, <3>2
        <4>2. memory'[i] = memory[i]  BY <1>17, <3>2, <4>1
        <4>3. QED BY <2>5, <2>6, <4>1, <4>2
      <3>3. QED BY <3>1, <3>2
    <2>9. Len(moved') = ((a + 1) - 1) * BytesPerDesc + memory'[(a + 1) - 1].transferred
      <3>1. (a + 1) - 1 = a  BY <1>3
      <3>2. QED BY <1>9, <2>4, <2>7, <3>1
    <2>10. a + 1 # 0  BY <1>3
    <2>11. QED BY <1>1, <1>25, <2>1, <2>8, <2>9, <2>10 DEF Summed
  <1>27. LengthIsReal'
    <2> SUFFICES ASSUME phase = "summed", frames' <= 1  PROVE FALSE
      BY <1>1 DEF LengthIsReal
    <2>1. isRx  BY <1>10
    <2>2. frames >= 1 /\ (frames <= 1 => ~midFrame)  BY <2>1 DEF More, OnePacket
    <2>3. QED BY <1>11, <1>15, <2>1, <2>2
  <1>28. QED BY <1>21, <1>22, <1>23, <1>24, <1>26, <1>27 DEF More

LEMMA NextMore == IInv /\ More /\ [Next]_vars => More'
  <1> SUFFICES ASSUME IInv, More, [Next]_vars PROVE More'
    OBVIOUS
  <1>1. CASE \E s \in Sizes : InitDescriptors(s)
    BY <1>1, InitDescriptorsSums
  <1>2. CASE Launch \/ CountProcessedDescs \/ ProcessDescriptors \/ Reset
    BY <1>2, LaunchSums, CountSums, ProcessSums, ResetSums
  <1>3. isRx \in BOOLEAN /\ frames \in 0..2 /\ midFrame \in BOOLEAN
    BY DEF IInv, Types
  <1>4. CASE Transmit
    <2>1. /\ engine.active /\ ~isRx /\ UNCHANGED <<midFrame, frames>>
          /\ Transfer(memory[engine.at].length, memory[engine.at].lastOfFrame)
      BY <1>4 DEF Transmit
    <2>2. /\ memory[engine.at].length \in 1..memory[engine.at].length
          /\ memory[engine.at].lastOfFrame \in BOOLEAN
      BY <2>1, ActiveIsUsable
    <2>3. QED
      BY <1>3, <2>1, <2>2, TransferSums
  <1>5. CASE Receive
    <2>1. /\ engine.active /\ isRx
          /\ frames' = IF midFrame \/ frames = 2 THEN frames ELSE frames + 1
          /\ \/ \E n \in 1..memory[engine.at].length : Transfer(n, TRUE) /\ midFrame' = FALSE
             \/ Transfer(memory[engine.at].length, FALSE) /\ midFrame' = TRUE
      BY <1>5 DEF Receive
    <2>2. frames' \in 0..2 /\ midFrame' \in BOOLEAN
      <3>1. frames' \in {frames, frames + 1} /\ (frames = 2 => frames' = 2)
        BY <2>1, Zenon
      <3>2. frames' \in 0..2
        BY <1>3, <3>1
      <3>3. midFrame' \in BOOLEAN
        BY <2>1, Zenon
      <3>4. QED
        BY <3>2, <3>3
    <2>3. CASE \E n \in 1..memory[engine.at].length : Transfer(n, TRUE) /\ midFrame' = FALSE
      BY <2>1, <2>2, <2>3, TransferSums
    <2>4. CASE Transfer(memory[engine.at].length, FALSE) /\ midFrame' = TRUE
      <3>1. memory[engine.at].length \in 1..memory[engine.at].length
        BY <2>1, ActiveIsUsable
      <3>2. QED
        BY <2>1, <2>2, <2>4, <3>1, TransferSums
    <2>5. QED
      BY <2>1, <2>3, <2>4
  <1>6. CASE UNCHANGED vars
    <2>1. UNCHANGED <<isRx, memory, size, bd_count, phase, processed, result, clean, engine,
                      tail, irq, midFrame, frames, moved>>
      BY <1>6 DEF vars, call, dma
    <2>2. Done' = Done
      BY <2>1 DEF Done
    <2>3. TypeOK' /\ Bounds' /\ Behind' /\ OnePacket' /\ LengthIsReal'
      BY <2>1 DEF More, TypeOK, Bounds, Behind, OnePacket, LengthIsReal
    <2>4. Summed'
      BY <2>1, <2>2 DEF More, Summed
    <2>5. QED
      BY <2>3, <2>4 DEF More
  <1>7. QED
    BY <1>1, <1>2, <1>4, <1>5, <1>6 DEF Next

LEMMA SpecMore == Spec => []More
  <1>1. QED
    BY InitIInv, NextIInv, InitMore, NextMore, PTL DEF Spec

-------------------------------------------------------------------------------
(* The theorems.                                                            *)

(* The engine never comes to an empty or a complete descriptor, whatever an  *)
(* older call left in memory (AxiDmaDescriptors.cpp:115-134, 309-313).      *)
THEOREM NeverStops == Spec => []FoundUsable
  <1>1. IInv => FoundUsable
    <2> SUFFICES ASSUME IInv, engine.active PROVE Usable(memory[engine.at])
      BY DEF FoundUsable
    <2>1. /\ Call /\ engine.at \in 0..Last(bd_count)
          /\ \A i \in (engine.at)..Last(bd_count) : Fresh(i)
      BY DEF IInv, Running
    <2>2. /\ Last(bd_count) \in Nat
          /\ DescrLength(engine.at, bd_count, size) \in Nat \ {0}
      BY <2>1, ChainFits DEF Call
    <2>3. Fresh(engine.at)
      BY <2>1, <2>2
    <2>4. QED
      BY <2>2, <2>3 DEF Fresh, Usable
  <1>2. QED
    BY <1>1, SpecIInv, PTL

(* No byte outside the buffer is touched, and a transmission that was        *)
(* counted has sent all of it (AxiDmaDescriptors.cpp:115-134, 231-242).     *)
THEOREM StaysInside == Spec => []InsideBuffer
  <1>1. IInv => InsideBuffer
    BY DEF IInv, Inside, AllSent, InsideBuffer
  <1>2. QED
    BY <1>1, SpecIInv, PTL

(* With one or two descriptors a packet runs through the buffer in order     *)
(* (AxiDmaDescriptors.cpp:109-132).                                         *)
THEOREM ShortChainsInOrder == Spec => []BufferInOrder
  <1>1. IInv => BufferInOrder
    BY DEF IInv
  <1>2. QED
    BY <1>1, SpecIInv, PTL

(* Every variable has its type; a descriptor points to a descriptor and to  *)
(* a place in the largest buffer (AxiDmaDescriptors.cpp:115-134).           *)
THEOREM TypeCorrect == Spec => []TypeOK
  <1>1. More => TypeOK
    BY DEF More
  <1>2. QED
    BY <1>1, SpecMore, PTL

(* A call returns the length that was transferred, if nothing complete was   *)
(* behind its chain and no second packet came                                *)
(* (AxiDmaDescriptors.cpp:146-169, 629-640).                                *)
THEOREM LengthReal == Spec => []LengthIsReal
  <1>1. More => LengthIsReal
    BY DEF More
  <1>2. QED
    BY <1>1, SpecMore, PTL
=============================================================================
