---------------------------- MODULE DescriptorRing ----------------------------
(***************************************************************************)
(* One channel's chain of buffer descriptors                               *)
(* (optrode/external/AxiDmaDescriptors.cpp): how a transfer is cut into    *)
(* descriptors, what the engine does with them, and how the driver adds up *)
(* what was transferred.                                                    *)
(*                                                                          *)
(* Every call makes an AxiDmaDescriptors object of its own, but the chain  *)
(* lies at one physical address: descriptors that the next chain is too    *)
(* short to overwrite stay in memory.  Addresses count descriptors from    *)
(* chain_phys_baseaddr and bytes from buffer_phys_baseaddr.                 *)
(***************************************************************************)
EXTENDS Naturals, Sequences

CONSTANTS
  BytesPerDesc,   \* bytes_per_desc; within BD_MAX_LEN, so that setLength succeeds
  Sizes           \* the sizes of the buffers transferred; one is the largest

ASSUME RingAssumption ==
  /\ BytesPerDesc \in Nat \ {0}
  /\ Sizes \subseteq Nat
  /\ \E largest \in Sizes : largest > 0 /\ \A s \in Sizes : s <= largest

CalcDescrCount(bufferSize) ==
  bufferSize \div BytesPerDesc + (IF bufferSize % BytesPerDesc = 0 THEN 0 ELSE 1)

(* One slot more than the longest chain: countProcessedDescs reads past it. *)
Slots == {0} \cup UNION {0..CalcDescrCount(s) : s \in Sizes}

Cleared == [next |-> 0, buffer |-> 0, length |-> 0, lastOfFrame |-> FALSE,
            complete |-> FALSE, sof |-> FALSE, transferred |-> 0]

VARIABLES
  isRx,
  memory,     \* the descriptors in memory
  size,       \* of the buffer of the current call
  bd_count,
  phase,      \* how far the current call is
  processed,  \* the result of countProcessedDescs
  result,     \* the result of ProcessDescriptors
  engine,     \* the descriptor the engine is at, and is it active
  tail,       \* the last one it may process
  irq,        \* the interrupt on complete
  midFrame,   \* is a packet being received?
  frames,     \* number of packets started in this call, capped at 2
  moved,      \* the bytes of the buffer it read or wrote in this call
  clean       \* when the chain was made no descriptor after it was complete

call == <<size, bd_count, phase, processed, result, clean>>
dma  == <<engine, tail, irq, midFrame, frames, moved>>
vars == <<isRx, memory, call, dma>>

Stopped == [at |-> 0, active |-> FALSE]

Init ==
  /\ isRx \in BOOLEAN
  /\ memory = [i \in Slots |-> Cleared]
  /\ size = 0
  /\ bd_count = 0
  /\ phase = "free"
  /\ processed = 0
  /\ result = 0
  /\ engine = Stopped
  /\ tail = 0
  /\ irq = FALSE
  /\ midFrame = FALSE
  /\ frames = 0
  /\ moved = <<>>
  /\ clean = TRUE

-------------------------------------------------------------------------------
(* The driver.                                                              *)

Last(n) == n - 1

(* Where descriptor i of n begins in the buffer: all but the last one get   *)
(* buffer_addr, which the loop does not advance.                            *)
BufferAddr_Next(i, n) ==          \* mutant: the address is advanced first
  IF i = Last(n) THEN n * BytesPerDesc ELSE 0
BufferAddr(i, n) == IF i = Last(n) THEN i * BytesPerDesc ELSE 0

DescrLength_Full(i, n, s) == BytesPerDesc     \* mutant: the remainder is forgotten
DescrLength_Rest(i, n, s) == s - i * BytesPerDesc   \* mutant: all that is left
DescrLength(i, n, s) ==
  IF i = Last(n) /\ s % BytesPerDesc # 0 THEN s % BytesPerDesc ELSE BytesPerDesc

(* clearMemory and the loop of InitDescriptors.                             *)
NewChain(n, s) ==
  [i \in Slots |-> IF i >= n THEN memory[i] ELSE
     [Cleared EXCEPT !.next = IF i = Last(n) THEN 0 ELSE i + 1,
        !.buffer = BufferAddr(i, n), !.length = DescrLength(i, n, s),
        !.lastOfFrame = ~isRx /\ i = Last(n)]]

InitDescriptors(s) ==
  LET n == CalcDescrCount(s) IN
  /\ phase = "free"
  /\ n >= 1
  /\ memory' = NewChain(n, s)
  /\ size' = s
  /\ bd_count' = n
  /\ phase' = "ready"
  /\ clean' = \A i \in Slots : i >= n => ~memory[i].complete
  /\ frames' = 0
  /\ moved' = <<>>
  /\ UNCHANGED <<isRx, processed, result, engine, tail, irq, midFrame>>

GetTailMem_Past(n) == n           \* mutant: one descriptor past the chain
GetTailMem(n) == n - 1

(* setCurDesc, start and setTailDesc.                                       *)
Launch ==
  /\ phase = "ready"
  /\ engine' = [Stopped EXCEPT !.active = TRUE]
  /\ tail' = GetTailMem(bd_count)
  /\ phase' = "running"
  /\ UNCHANGED <<isRx, memory, size, bd_count, processed, result, clean,
                 irq, midFrame, frames, moved>>

(* waitComplete has seen the interrupt, and it was acknowledged.            *)
CountProcessedDescs ==
  /\ phase = "running"
  /\ irq
  /\ processed' = CHOOSE n \in Slots :
       ~memory[n].complete /\ \A i \in 0..(n - 1) : memory[i].complete
  /\ irq' = FALSE
  /\ phase' = "counted"
  /\ UNCHANGED <<isRx, memory, size, bd_count, result, clean,
                 engine, tail, midFrame, frames, moved>>

(* The loop of ProcessDescriptors: a start of frame sets the size, the      *)
(* others add to it.                                                        *)
Total_Sum(n) ==                   \* mutant: every descriptor sets the size
  LET total[i \in 0..n] ==
        IF i = 0 THEN 0 ELSE memory[i - 1].transferred
  IN total[n]

Total(n) ==
  LET total[i \in 0..n] ==
        IF i = 0 THEN 0
        ELSE (IF memory[i - 1].sof THEN 0 ELSE total[i - 1]) + memory[i - 1].transferred
  IN total[n]

(* Send frees its chain softly, only the status words.                      *)
Freed(bd) ==
  IF isRx THEN [bd EXCEPT !.length = 0, !.lastOfFrame = FALSE,
                          !.complete = FALSE, !.sof = FALSE, !.transferred = 0]
  ELSE [bd EXCEPT !.complete = FALSE, !.sof = FALSE, !.transferred = 0]

ProcessDescriptors ==
  /\ phase = "counted"
  /\ result' = Total(processed)
  /\ memory' = [i \in Slots |-> IF i < processed THEN Freed(memory[i]) ELSE memory[i]]
  /\ phase' = "summed"
  /\ UNCHANGED <<isRx, size, bd_count, processed, clean, dma>>

(* setDefault, after the transfer or after a timeout.                       *)
Reset ==
  /\ phase \in {"running", "summed"}
  /\ phase' = "free"
  /\ engine' = Stopped
  /\ irq' = FALSE
  /\ midFrame' = FALSE
  /\ UNCHANGED <<isRx, memory, size, bd_count, processed, result, clean,
                 tail, frames, moved>>

-------------------------------------------------------------------------------
(* The engine, which is outside the repository.                             *)

(* It moves n bytes with the descriptor it is at and goes to the next one.  *)
Transfer(n, last) ==
  LET bd == memory[engine.at] IN
  /\ memory' = [memory EXCEPT ![engine.at] = [@ EXCEPT
                  !.complete = TRUE, !.transferred = n, !.sof = isRx /\ ~midFrame]]
  /\ moved' = moved \o [i \in 1..n |-> bd.buffer + i - 1]
  /\ engine' = [engine EXCEPT !.at = bd.next, !.active = engine.at # tail]
  /\ irq' = (irq \/ last)
  /\ UNCHANGED <<isRx, call, tail>>

(* It stops on a descriptor that is complete already, or empty.             *)
Usable(bd) == ~bd.complete /\ bd.length > 0

Transmit ==
  /\ engine.active /\ ~isRx /\ Usable(memory[engine.at])
  /\ Transfer(memory[engine.at].length, memory[engine.at].lastOfFrame)
  /\ UNCHANGED <<midFrame, frames>>

(* A packet ends in this descriptor, or fills it and goes on.               *)
Receive ==
  /\ engine.active /\ isRx /\ Usable(memory[engine.at])
  /\ \/ \E n \in 1..memory[engine.at].length : Transfer(n, TRUE) /\ midFrame' = FALSE
     \/ Transfer(memory[engine.at].length, FALSE) /\ midFrame' = TRUE
  /\ frames' = IF midFrame \/ frames = 2 THEN frames ELSE frames + 1

Next ==
  \/ \E s \in Sizes : InitDescriptors(s)
  \/ Launch
  \/ CountProcessedDescs
  \/ ProcessDescriptors
  \/ Reset
  \/ Transmit
  \/ Receive

Spec == Init /\ [][Next]_vars

-------------------------------------------------------------------------------
(* Properties.                                                              *)

MaxCount == CHOOSE n \in Slots : \A m \in Slots : m <= n
Offsets  == {i * BytesPerDesc : i \in 0..(MaxCount - 1)}

(* Every variable has its type; a descriptor points to a descriptor and to  *)
(* a place in the largest buffer (AxiDmaDescriptors.cpp:115-134).           *)
TypeOK ==
  /\ isRx \in BOOLEAN
  /\ memory \in [Slots -> [next : Slots, buffer : Offsets, length : 0..BytesPerDesc,
                           lastOfFrame : BOOLEAN, complete : BOOLEAN, sof : BOOLEAN,
                           transferred : 0..BytesPerDesc]]
  /\ size \in Sizes \cup {0}
  /\ {bd_count, processed, tail} \subseteq Slots
  /\ phase \in {"free", "ready", "running", "counted", "summed"}
  /\ result \in 0..(MaxCount * BytesPerDesc)
  /\ engine \in [at : Slots, active : BOOLEAN]
  /\ {irq, midFrame, clean} \subseteq BOOLEAN
  /\ frames \in 0..2
  /\ Len(moved) <= MaxCount * BytesPerDesc

(* The engine never comes to a descriptor that is empty or complete: it is  *)
(* not led past the chain or around the ring, nor stopped by what an older  *)
(* call left in memory (AxiDmaDescriptors.cpp:115-134, 309-313, 358-361).   *)
FoundUsable == engine.active => Usable(memory[engine.at])

(* Nothing outside the buffer is read or written, which ends where the       *)
(* mapping of the call ends, and when the interrupt of a transmission comes  *)
(* as many bytes are sent as the buffer has; which ones BufferInOrder says  *)
(* (AxiDmaDescriptors.cpp:115-134, 231-242, AxiDMA.cpp:69, 206).            *)
InsideBuffer ==
  /\ \A i \in 1..Len(moved) : moved[i] < size
  /\ ~isRx /\ phase = "counted" => Len(moved) = size

(* A transfer of one packet with at most two descriptors runs through the   *)
(* buffer in order (AxiDmaDescriptors.cpp:109-132); with three the second    *)
(* one starts at the beginning again.                                       *)
BufferInOrder ==
  bd_count <= 2 /\ frames <= 1 => \A i \in 1..Len(moved) : moved[i] = i - 1

(* The length a call returns is the length transferred, if no older call    *)
(* left complete descriptors behind the chain and no second packet came     *)
(* (AxiDmaDescriptors.cpp:146-169, 629-640).                                *)
LengthIsReal == phase = "summed" /\ clean /\ frames <= 1 => result = Len(moved)
=============================================================================
