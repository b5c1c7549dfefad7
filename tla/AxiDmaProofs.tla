---------------------------- MODULE AxiDmaProofs ----------------------------
(***************************************************************************)
(* The properties of AxiDma for any number of threads, calls and packets    *)
(* and for all faults at once.  What they rest on is where each thread is   *)
(* in its script: the stages follow one another as Edges has them, a thread *)
(* holds the mutex of the channel it works on, and what the registers, the  *)
(* chain and the buffer hold then depends on the stage it is at.            *)
(***************************************************************************)
EXTENDS AxiDma, SequenceTheorems, TLAPS

-------------------------------------------------------------------------------
(* Where a thread is.                                                       *)

Sends  == {"Send", "Send_repeat"}
OnTx   == Sends \cup {"Transf", "DirectSend"}
OnRx   == {"Recv", "DirectRecv", "DirectManualRecv"}
Owning == {"run", "end"}
Ops    == OnTx \cup OnRx \cup Owning

Tx(s) == <<s, "tx">>
Rx(s) == <<s, "rx">>
Done  == <<"done", "tx">>

Now(s)   == IF s = <<>> THEN Done ELSE s[1]
Last(s)  == s[Len(s)]

(* The stages that can follow one another in a call of o.                   *)
Edges(o) ==
  {e \in
     {<<Tx("lock"), Tx("chain")>>, <<Tx("chain"), Tx("alloc")>>,
      <<Tx("alloc"), Tx("fill")>>, <<Tx("fill"), Tx("start")>>,
      <<Tx("start"), Tx("check")>>, <<Tx("check"), Tx("tail")>>,
      <<Tx("tail"), Tx("wait")>>, <<Tx("wait"), Tx("ack")>>,
      <<Tx("ack"), Tx("process")>>, <<Tx("process"), Tx("reset")>>,
      <<Tx("reset"), Tx("poll")>>} : o \in Sends}
  \cup {e \in
     {<<Rx("lock"), Rx("alloc")>>, <<Rx("alloc"), Rx("fill")>>,
      <<Rx("fill"), Rx("chain")>>, <<Rx("chain"), Rx("start")>>,
      <<Rx("start"), Rx("check")>>, <<Rx("check"), Rx("tail")>>,
      <<Rx("tail"), Rx("wait")>>, <<Rx("wait"), Rx("ack")>>,
      <<Rx("ack"), Rx("process")>>, <<Rx("process"), Rx("copyout")>>,
      <<Rx("copyout"), Rx("reset")>>, <<Rx("reset"), Rx("poll")>>} : o = "Recv"}
  \cup {e \in
     {<<Tx("lock"), Tx("alloc")>>, <<Tx("alloc"), Rx("alloc")>>,
      <<Rx("alloc"), Tx("fill")>>, <<Tx("fill"), Rx("fill")>>,
      <<Rx("fill"), Tx("chain")>>, <<Tx("chain"), Rx("chain")>>,
      <<Rx("chain"), Tx("start")>>, <<Tx("start"), Rx("start")>>,
      <<Rx("start"), Tx("check")>>, <<Tx("check"), Rx("check")>>,
      <<Rx("check"), Rx("tail")>>, <<Rx("tail"), Tx("tail")>>,
      <<Tx("tail"), Tx("wait")>>, <<Tx("wait"), Tx("ack")>>,
      <<Tx("ack"), Rx("wait")>>, <<Rx("wait"), Rx("ack")>>,
      <<Rx("ack"), Tx("process")>>, <<Tx("process"), Rx("process")>>,
      <<Rx("process"), Tx("reset")>>, <<Tx("reset"), Tx("poll")>>,
      <<Tx("poll"), Rx("reset")>>, <<Rx("reset"), Rx("poll")>>,
      <<Rx("poll"), Rx("copyout")>>} : o = "Transf"}
  \cup {e \in
     {<<Tx("lock"), Tx("alloc")>>, <<Tx("alloc"), Tx("start")>>,
      <<Tx("start"), Tx("check")>>, <<Tx("check"), Tx("fill")>>,
      <<Tx("fill"), Tx("length")>>, <<Tx("length"), Tx("idle")>>,
      <<Tx("idle"), Tx("wait")>>, <<Tx("wait"), Tx("ack")>>,
      <<Tx("ack"), Tx("sent")>>} : o = "DirectSend"}
  \cup {e \in
     {<<Rx("alloc"), Rx("lock")>>, <<Rx("lock"), Rx("pending")>>,
      <<Rx("pending"), Rx("start")>>, <<Rx("start"), Rx("check")>>,
      <<Rx("check"), Rx("length")>>, <<Rx("length"), Rx("idle")>>,
      <<Rx("idle"), Rx("wait")>>, <<Rx("wait"), Rx("ack")>>,
      <<Rx("ack"), Rx("copyout")>>} : o \in {"DirectRecv", "DirectManualRecv"}}
  \cup {e \in
     {<<Tx("reset"), Tx("poll")>>, <<Tx("poll"), Rx("reset")>>,
      <<Rx("reset"), Rx("poll")>>, <<Rx("poll"), Rx("up")>>} : o \in Owning}

(* The stages a script can end with.                                        *)
Lasts(o) ==
  {x \in {Tx("process"), Tx("poll")} : o \in Sends}
  \cup {x \in {Rx("poll")} : o \in {"Recv", "Transf", "end"}}
  \cup {x \in {Rx("copyout")} : o \in {"Transf", "DirectRecv", "DirectManualRecv"}}
  \cup {x \in {Tx("sent")} : o = "DirectSend"}
  \cup {x \in {Rx("up")} : o = "run"}

(* What is left of a call of o.                                             *)
IsRest(o, s) ==
  /\ s \in Seq(Stages \X Channels)
  /\ \A i \in 1..Len(s) : i < Len(s) => <<s[i], s[i + 1]>> \in Edges(o)
  /\ s # <<>> => Last(s) \in Lasts(o) /\ o \in Ops

(* The stages before the mutex is locked.                                   *)
Before(o) ==
  CASE o \in {"DirectRecv", "DirectManualRecv"} -> {Rx("alloc"), Rx("lock")}
    [] o = "Recv"                               -> {Rx("lock")}
    [] OTHER                                    -> {Tx("lock")}

Mutex(o) == IF o \in OnTx THEN "tx" ELSE "rx"
Holds(t) == owner[Mutex(op[t])] = t

(* The thread that works on channel w, if it is t.                          *)
Uses(t, w) ==
  /\ op[t] \in OnTx \cup OnRx /\ script[t] # <<>>
  /\ Holds(t)
  /\ Mutex(op[t]) = w \/ op[t] = "Transf"

Control ==
  /\ \A t \in Threads :
       /\ IsRest(op[t], script[t])
       /\ op[t] = "none" => script[t] = <<>>
       /\ op[t] \in OnTx \cup OnRx =>
            /\ call[t] \in 1..calls
            /\ script[t] # <<>> => (op[t] \in SgOps <=> isSg)
            /\ script[t] # <<>> =>
                 (Holds(t) <=> Now(script[t]) \notin Before(op[t]))
       /\ ~up /\ op[t] # "none" =>
            op[t] \in Owning /\ \A u \in Threads : u # t => op[u] = "none"
       /\ op[t] \in Owning /\ script[t] # <<>> => ~up
  /\ \A w \in Channels : owner[w] # Free =>
       op[owner[w]] \in OnTx \cup OnRx /\ Mutex(op[owner[w]]) = w

-------------------------------------------------------------------------------
(* What the registers of a channel hold.                                    *)

At1(t, x) == Now(script[t]) = x      \* thread t is at stage x

(* No transfer was given to channel w, and no interrupt is left that the    *)
(* next call would take for its own.                                        *)
Clear(w) == chan[w].job = None /\ chan[w].irq = {} /\ ~chan[w].failed
Spent(w) ==
  /\ chan[w].job = None
  /\ chan[w].irq = {} \/ (chan[w].halted /\ chan[w].failed /\ "err" \in chan[w].irq)
Quiet(w) == (isSg /\ chan[w].resetting) \/ Spent(w)

(* The stages of a call o from its start of a transfer on channel w to the  *)
(* acknowledged interrupt, and to the reset if there is none.               *)
WaitingAt(o, x, w) ==
  \/ x \in {<<"wait", w>>, <<"idle", w>>}
  \/ w = "rx" /\ o = "Transf" /\ x \in {Tx("tail"), Tx("wait"), Tx("ack")}
FlyingAt(o, x, w) ==
  \/ WaitingAt(o, x, w)
  \/ x \in {<<"ack", w>>, <<"reset", w>>}
  \/ w = "rx" /\ o = "Transf" /\ x \in {Tx("reset"), Tx("poll")}
Waiting(t, w) == WaitingAt(op[t], Now(script[t]), w)
Flying(t, w)  == FlyingAt(op[t], Now(script[t]), w)

(* Transf and Recv do not exclude one another on the receive channel.       *)
Separate == isSg => ~({"Transf", "Recv"} \subseteq case.ops)

(* What a call relies on: nobody gave up a transfer on w without a reset.   *)
(* A failed Transf that could not reset mm2s leaves s2mm as it is.          *)
Fine(w) ==
  /\ w \notin abandoned
  /\ w = "rx" => /\ Separate
                 /\ ~(isSg /\ "Transf" \in case.ops /\ "slowreset" \in case.faults)

Idle(w) ==
  up /\ Fine(w) => Quiet(w) \/ \E t \in Threads : Uses(t, w) /\ Flying(t, w)

Flight(t, w) ==
  Uses(t, w) /\ Fine(w) =>
    /\ Waiting(t, w) =>
         \/ isSg /\ chan[w].resetting
         \/ chan[w].job = None
         \/ chan[w].job = call[t] /\ chan[w].irq = {}
    /\ At1(t, <<"idle", w>>) /\ chan[w].failed => "err" \in chan[w].irq
    /\ At1(t, <<"ack", w>>) =>
         \/ isSg /\ chan[w].resetting
         \/ chan[w].job = None /\ chan[w].irq \subseteq seen[t]
    /\ At1(t, <<"ack", w>>) => seen[t] # {}
    /\ (op[t] = "DirectSend" /\ At1(t, <<"fill", w>>)) \/ At1(t, <<"length", w>>) => Clear(w)

Running(t) ==
  op[t] = "run" =>
    /\ At1(t, Tx("poll")) => chan["tx"].resetting \/ Clear("tx")
    /\ Now(script[t]) \in {Rx("reset"), Rx("poll"), Rx("up")} => Clear("tx")
    /\ At1(t, Rx("poll")) => chan["rx"].resetting \/ Clear("rx")
    /\ At1(t, Rx("up")) => Clear("rx")

Registers ==
  /\ \A w \in Channels :
       /\ chan[w].failed => chan[w].halted
       /\ isSg => chan[w].dst = "rx"
       /\ up => chan[w].job # Old
       /\ Idle(w)
  /\ \A t \in Threads : Running(t) /\ \A w \in Channels : Flight(t, w)

-------------------------------------------------------------------------------
(* What is sent.                                                            *)

IsSent(c) == \E s \in wire : s.call = c

TxChained(o, x) ==
  \/ o \in Sends /\ x \in {Tx("alloc"), Tx("fill"), Tx("start"), Tx("check"), Tx("tail")}
  \/ o = "Transf" /\ x \in {Rx("chain"), Tx("start"), Rx("start"), Tx("check"),
                            Rx("check"), Rx("tail"), Tx("tail")}
TxFilled(o, x) ==
  \/ o \in Sends /\ x \in {Tx("start"), Tx("check"), Tx("tail")}
  \/ o = "Transf" /\ x \in {Rx("fill"), Tx("chain"), Rx("chain"), Tx("start"), Rx("start"),
                            Tx("check"), Rx("check"), Rx("tail"), Tx("tail")}
  \/ o = "DirectSend" /\ x = Tx("length")

Sending(t) ==
  Uses(t, "tx") =>
    /\ TxChained(op[t], Now(script[t])) => chain["tx"] = [call |-> call[t], done |-> FALSE]
    /\ TxFilled(op[t], Now(script[t])) => mem["tx"] = call[t]
    /\ op[t] \in Sends /\ Now(script[t]) \in {Tx("wait"), Tx("ack"), Tx("process")}
         /\ chain["tx"].done => IsSent(call[t])
    /\ op[t] = "DirectSend" =>
         /\ Now(script[t]) \in {Tx("idle"), Tx("wait")} /\ "ioc" \in chan["tx"].irq
              => IsSent(call[t])
         /\ At1(t, Tx("ack")) /\ "ioc" \in seen[t] => IsSent(call[t])
         /\ At1(t, Tx("sent")) => IsSent(call[t])

Transmission ==
  "tx" \in abandoned \/
    /\ chan["tx"].job # None /\ ~chan["tx"].resetting =>
         mem["tx"] = chan["tx"].job /\
         (isSg => chain["tx"] = [call |-> chan["tx"].job, done |-> FALSE])
    /\ \A t \in Threads : Sending(t)
    /\ SentIsOwn
    /\ SuccessIsReal

-------------------------------------------------------------------------------
(* What is received.                                                        *)

Fresh(p) == \A g \in got : g.packet # p
Target(t) == IF op[t] = "DirectManualRecv" THEN t ELSE "rx"
Handed(t) == mem[Target(t)] # None /\ Fresh(mem[Target(t)])

RxFilled(o, x) ==
  \/ o = "Recv" /\ x \in {Rx("chain"), Rx("start"), Rx("check"), Rx("tail"), Rx("wait"),
                          Rx("ack"), Rx("process"), Rx("copyout")}
  \/ o = "Transf" /\ x \notin {Tx("lock"), Tx("alloc"), Rx("alloc"), Tx("fill"), Rx("fill")}
RxChained(o, x) ==
  \/ o = "Recv" /\ x \in {Rx("start"), Rx("check"), Rx("tail"), Rx("wait"), Rx("ack"),
                          Rx("process")}
  \/ o = "Transf" /\ x \in {Tx("start"), Rx("start"), Tx("check"), Rx("check"), Rx("tail"),
                            Tx("tail"), Tx("wait"), Tx("ack"), Rx("wait"), Rx("ack"),
                            Tx("process"), Rx("process")}
Untailed(o, x) ==
  \/ o = "Recv" /\ x \in {Rx("chain"), Rx("start"), Rx("check"), Rx("tail")}
  \/ o = "Transf" /\ x \in {Tx("chain"), Rx("chain"), Tx("start"), Rx("start"), Tx("check"),
                            Rx("check"), Rx("tail")}
Copies(t) ==
  \/ At1(t, Rx("copyout"))
  \/ op[t] = "Transf" /\ Last(script[t]) = Rx("copyout") /\
       Now(script[t]) \in {Tx("reset"), Tx("poll"), Rx("reset"), Rx("poll")}

Receiving(t) ==
  Uses(t, "rx") =>
    /\ isSg =>
         /\ RxFilled(op[t], Now(script[t])) /\ mem["rx"] # None => Fresh(mem["rx"])
         /\ RxChained(op[t], Now(script[t])) /\ chain["rx"].done => mem["rx"] # None
         /\ Copies(t) => mem["rx"] # None
         /\ Fine("rx") /\ Untailed(op[t], Now(script[t])) => mem["rx"] = None
         /\ Fine("rx") /\ RxChained(op[t], Now(script[t])) /\ Untailed(op[t], Now(script[t])) =>
              chain["rx"] = [call |-> call[t], done |-> FALSE]
    /\ ~isSg /\ Fine("rx") =>
         /\ Waiting(t, "rx") /\ chan["rx"].job # None => chan["rx"].dst = Target(t)
         /\ Waiting(t, "rx") /\ "ioc" \in chan["rx"].irq => Handed(t)
         /\ At1(t, Rx("ack")) /\ "ioc" \in seen[t] => Handed(t)
         /\ At1(t, Rx("copyout")) => Handed(t)

Reception ==
  Separate =>
    /\ \A t \in Threads : Receiving(t)
    /\ isSg /\ Fine("rx") /\ chan["rx"].job # None /\ ~chan["rx"].resetting =>
         chain["rx"] = [call |-> chan["rx"].job, done |-> FALSE] /\ mem["rx"] = None
    /\ ReceivedOnce

-------------------------------------------------------------------------------
(* The scripts.                                                             *)

LEMMA StepOn ==
  ASSUME NEW o, NEW s, IsRest(o, s), s # <<>>
  PROVE  /\ s[1] = Head(s) /\ Now(s) = s[1] /\ s[1] \in Stages \X Channels /\ o \in Ops
         /\ IsRest(o, Tail(s))
         /\ Tail(s) = <<>> => s[1] \in Lasts(o) /\ Last(s) = s[1] /\ Now(Tail(s)) = Done
         /\ Tail(s) # <<>> => /\ <<s[1], Now(Tail(s))>> \in Edges(o)
                              /\ Last(Tail(s)) = Last(s)
  <1>1. /\ s \in Seq(Stages \X Channels) /\ Len(s) \in Nat /\ Len(s) > 0
        /\ Tail(s) \in Seq(Stages \X Channels) /\ Len(Tail(s)) = Len(s) - 1
        /\ \A i \in 1..Len(Tail(s)) : Tail(s)[i] = s[i + 1]
        /\ s[1] = Head(s) /\ s[1] \in Stages \X Channels
    BY DEF IsRest
  <1>2. Last(s) \in Lasts(o) /\ o \in Ops  BY DEF IsRest
  <1>3. CASE Tail(s) = <<>>
    <2>1. Len(s) = 1
      <3>1. Len(<<>>) = 0  OBVIOUS
      <3>2. Len(Tail(s)) = 0  BY <1>3, <3>1
      <3>3. Len(Tail(s)) = Len(s) - 1 /\ Len(s) \in Nat  BY <1>1
      <3>4. QED BY <3>2, <3>3
    <2>2. QED BY <1>1, <1>2, <1>3, <2>1 DEF IsRest, Now, Last
  <1>4. CASE Tail(s) # <<>>
    <2>1. Len(s) > 1  BY <1>1, <1>4
    <2>2. Last(Tail(s)) = Last(s) /\ Now(Tail(s)) = s[2]  BY <1>1, <1>4, <2>1 DEF Last, Now
    <2>3. <<s[1], s[2]>> \in Edges(o)  BY <1>1, <2>1 DEF IsRest
    <2>4. \A i \in 1..Len(Tail(s)) : i < Len(Tail(s)) =>
             <<Tail(s)[i], Tail(s)[i + 1]>> \in Edges(o)
      <3>1. TAKE i \in 1..Len(Tail(s))
      <3>2. HAVE i < Len(Tail(s))
      <3>3. i + 1 \in 1..Len(s) /\ i + 1 < Len(s) /\ i + 1 \in 1..Len(Tail(s))  BY <1>1, <3>2
      <3>4. QED BY <1>1, <3>2, <3>3 DEF IsRest
    <2>5. QED BY <1>1, <1>2, <1>4, <2>2, <2>3, <2>4 DEF IsRest, Now
  <1>5. QED BY <1>3, <1>4

LEMMA Pairs == \A st \in Stages : Tx(st) \in Stages \X Channels /\ Rx(st) \in Stages \X Channels
  BY DEF Tx, Rx, Channels

LEMMA NothingLeft == \A o : IsRest(o, <<>>) /\ Now(<<>>) = Done
  BY DEF IsRest, Now

LEMMA OneLeft ==
  ASSUME NEW o \in Ops, NEW x \in Lasts(o), x \in Stages \X Channels
  PROVE  IsRest(o, <<x>>) /\ Now(<<x>>) = x /\ Last(<<x>>) = x /\ <<x>> # <<>>
  BY DEF IsRest, Now, Last

(* Stages that follow one another.                                          *)
IsPath(o, s) ==
  /\ s \in Seq(Stages \X Channels) /\ s # <<>>
  /\ \A i \in 1..Len(s) : i < Len(s) => <<s[i], s[i + 1]>> \in Edges(o)

LEMMA PathIsRest ==
  ASSUME NEW o \in Ops, NEW s, IsPath(o, s), Last(s) \in Lasts(o)
  PROVE  IsRest(o, s)
  BY DEF IsPath, IsRest

LEMMA Joined ==
  ASSUME NEW o, NEW r, NEW s, IsPath(o, r), IsPath(o, s), <<Last(r), Now(s)>> \in Edges(o)
  PROVE  /\ IsPath(o, r \o s) /\ Now(r \o s) = Now(r) /\ Last(r \o s) = Last(s)
  <1> DEFINE b == r \o s
  <1>1. /\ r \in Seq(Stages \X Channels) /\ Len(r) \in Nat /\ Len(r) > 0
        /\ s \in Seq(Stages \X Channels) /\ Len(s) \in Nat /\ Len(s) > 0
    BY DEF IsPath
  <1>2. /\ b \in Seq(Stages \X Channels) /\ Len(b) = Len(r) + Len(s)
        /\ \A i \in 1..Len(r) : b[i] = r[i]
        /\ \A i \in 1..Len(s) : b[Len(r) + i] = s[i]
    BY <1>1
  <1> HIDE DEF b
  <1>3. b # <<>> /\ Now(b) = Now(r) /\ Last(b) = Last(s)  BY <1>1, <1>2 DEF Last, Now
  <1>4. ASSUME NEW i \in 1..Len(b), i < Len(b)  PROVE <<b[i], b[i + 1]>> \in Edges(o)
    <2>1. CASE i < Len(r)
      <3>1. i \in 1..Len(r) /\ i + 1 \in 1..Len(r)  BY <1>1, <2>1
      <3>2. b[i] = r[i] /\ b[i + 1] = r[i + 1]  BY <1>2, <3>1
      <3>3. QED BY <2>1, <3>1, <3>2 DEF IsPath
    <2>2. CASE i = Len(r)
      <3>1. b[i] = Last(r) /\ b[i + 1] = Now(s)  BY <1>1, <1>2, <2>2 DEF Last, Now
      <3>2. QED BY <3>1
    <2>3. CASE i > Len(r)
      <3>1. PICK k \in 1..Len(s) : i = Len(r) + k /\ k + 1 \in 1..Len(s) /\ k < Len(s)
        <4>1. Len(b) = Len(r) + Len(s) /\ i \in Nat /\ i < Len(b)  BY <1>1, <1>2, <1>4
        <4>2. i - Len(r) \in 1..Len(s) /\ i - Len(r) + 1 \in 1..Len(s) /\ i - Len(r) < Len(s)
              /\ i = Len(r) + (i - Len(r))
          BY <1>1, <2>3, <4>1
        <4>3. QED BY <4>2
      <3>2. b[Len(r) + k] = s[k] /\ b[Len(r) + (k + 1)] = s[k + 1]  BY <1>2, <3>1
      <3>3. Len(r) + (k + 1) = i + 1  BY <1>1, <3>1
      <3>4. b[i] = s[k] /\ b[i + 1] = s[k + 1]  BY <3>1, <3>2, <3>3
      <3>5. <<s[k], s[k + 1]>> \in Edges(o)  BY <3>1 DEF IsPath
      <3>6. QED BY <3>4, <3>5
    <2>4. QED BY <1>1, <2>1, <2>2, <2>3
  <1>5. QED BY <1>2, <1>3, <1>4 DEF IsPath, b

(* The scripts of the code.                                                 *)
LEMMA PathReset ==
  /\ \A o \in {"Send", "Send_repeat", "run", "end", "Transf"} :
       /\ IsPath(o, SetDefault("tx")) /\ Now(SetDefault("tx")) = Tx("reset")
       /\ Last(SetDefault("tx")) = Tx("poll")
  /\ \A o \in {"Recv", "run", "end", "Transf"} :
       /\ IsPath(o, SetDefault("rx")) /\ Now(SetDefault("rx")) = Rx("reset")
       /\ Last(SetDefault("rx")) = Rx("poll")
  <1>1. \A o \in {"Send", "Send_repeat", "run", "end", "Transf"} :
          <<Tx("reset"), Tx("poll")>> \in Edges(o)
    BY DEF Edges, Owning, Sends
  <1>2. \A o \in {"Recv", "run", "end", "Transf"} : <<Rx("reset"), Rx("poll")>> \in Edges(o)
    BY DEF Edges, Owning, Sends
  <1>3. \A w \in Channels :
          /\ SetDefault(w) \in Seq(Stages \X Channels) /\ Len(SetDefault(w)) = 2
          /\ SetDefault(w)[1] = <<"reset", w>> /\ SetDefault(w)[2] = <<"poll", w>>
          /\ SetDefault(w) # <<>>
    BY DEF SetDefault, Stages
  <1>4. ASSUME NEW o, NEW w \in Channels, <<<<"reset", w>>, <<"poll", w>>>> \in Edges(o)
        PROVE  /\ IsPath(o, SetDefault(w)) /\ Now(SetDefault(w)) = <<"reset", w>>
               /\ Last(SetDefault(w)) = <<"poll", w>>
    <2> DEFINE d == SetDefault(w)
    <2>1. /\ d \in Seq(Stages \X Channels) /\ Len(d) = 2 /\ d # <<>>
          /\ d[1] = <<"reset", w>> /\ d[2] = <<"poll", w>>
      BY <1>3
    <2> HIDE DEF d
    <2>2. ASSUME NEW i \in 1..Len(d), i < Len(d)  PROVE <<d[i], d[i + 1]>> \in Edges(o)
      <3>1. i = 1 /\ i + 1 = 2  BY <2>1, <2>2
      <3>2. QED BY <1>4, <2>1, <3>1
    <2>3. IsPath(o, d)  BY <2>1, <2>2 DEF IsPath
    <2>4. Now(d) = <<"reset", w>> /\ Last(d) = <<"poll", w>>  BY <2>1 DEF Now, Last
    <2>5. QED BY <2>3, <2>4 DEF d
  <1>5. "tx" \in Channels /\ "rx" \in Channels  BY DEF Channels
  <1>6. QED BY <1>1, <1>2, <1>3, <1>4, <1>5 DEF Tx, Rx

LEMMA PathResets ==
  \A o \in {"run", "end", "Transf"} :
    /\ IsPath(o, ResetChannels) /\ Now(ResetChannels) = Tx("reset")
    /\ Last(ResetChannels) = Rx("poll")
  <1> SUFFICES ASSUME NEW o \in {"run", "end", "Transf"}
      PROVE  /\ IsPath(o, ResetChannels) /\ Now(ResetChannels) = Tx("reset")
             /\ Last(ResetChannels) = Rx("poll")
    OBVIOUS
  <1>1. <<Tx("poll"), Rx("reset")>> \in Edges(o)  BY DEF Edges, Owning, Sends
  <1>2. /\ IsPath(o, SetDefault("tx")) /\ Now(SetDefault("tx")) = Tx("reset")
        /\ Last(SetDefault("tx")) = Tx("poll")
        /\ IsPath(o, SetDefault("rx")) /\ Now(SetDefault("rx")) = Rx("reset")
        /\ Last(SetDefault("rx")) = Rx("poll")
    BY PathReset
  <1>3. <<Last(SetDefault("tx")), Now(SetDefault("rx"))>> \in Edges(o)  BY <1>1, <1>2
  <1>4. QED BY <1>2, <1>3, Joined DEF ResetChannels

LEMMA PathOne ==
  ASSUME NEW o, NEW x \in Stages \X Channels
  PROVE  IsPath(o, <<x>>) /\ Now(<<x>>) = x /\ Last(<<x>>) = x
  BY DEF IsPath, Last, Now

LEMMA PathLaunch ==
  /\ \A o \in Sends : /\ IsPath(o, Launch("tx")) /\ Now(Launch("tx")) = Tx("start")
                      /\ Last(Launch("tx")) = Tx("ack")
  /\ IsPath("Recv", Launch("rx")) /\ Now(Launch("rx")) = Rx("start")
  /\ Last(Launch("rx")) = Rx("ack")
  BY DEF IsPath, Launch, Edges, Owning, Last, Now, Sends, Stages, Channels, Tx, Rx
LEMMA ScriptOfSends ==
  /\ IsRest("Send_repeat", SendRepeat) /\ Now(SendRepeat) = Tx("lock") /\ SendRepeat # <<>>
  /\ IsRest("Send", SendRepeat \o SetDefault("tx"))
  /\ Now(SendRepeat \o SetDefault("tx")) = Tx("lock")
  /\ SendRepeat \o SetDefault("tx") # <<>>
  <1> DEFINE a == << <<"lock", "tx">>, <<"chain", "tx">>, <<"alloc", "tx">>, <<"fill", "tx">> >>
             c == << <<"process", "tx">> >>
  <1>1. ASSUME NEW o \in Sends
        PROVE  /\ IsPath(o, a) /\ Now(a) = Tx("lock") /\ Last(a) = Tx("fill")
               /\ IsPath(o, c) /\ Now(c) = Tx("process") /\ Last(c) = Tx("process")
               /\ <<Tx("fill"), Tx("start")>> \in Edges(o)
               /\ <<Tx("ack"), Tx("process")>> \in Edges(o)
               /\ <<Tx("process"), Tx("reset")>> \in Edges(o)
               /\ Tx("process") \in Lasts(o) /\ Tx("poll") \in Lasts(o) /\ o \in Ops
    <2>1. \A i \in 1..3 : <<a[i], a[i + 1]>> \in Edges(o)  BY DEF Edges, Tx
    <2>2. a \in Seq(Stages \X Channels) /\ Len(a) = 4 /\ a # <<>>  BY DEF Stages, Channels
    <2>3. Now(a) = Tx("lock") /\ Last(a) = Tx("fill")  BY DEF Now, Last, Tx
    <2> HIDE DEF a
    <2>4. \A i \in 1..Len(a) : i < Len(a) => i \in 1..3  BY <2>2
    <2>5. IsPath(o, a)  BY <2>1, <2>2, <2>4 DEF IsPath
    <2>6. IsPath(o, c) /\ Now(c) = Tx("process") /\ Last(c) = Tx("process")
      BY DEF IsPath, Now, Last, Stages, Channels, Tx
    <2>7. /\ <<Tx("fill"), Tx("start")>> \in Edges(o)
          /\ <<Tx("ack"), Tx("process")>> \in Edges(o)
          /\ <<Tx("process"), Tx("reset")>> \in Edges(o)
      BY DEF Edges
    <2>8. Tx("process") \in Lasts(o) /\ Tx("poll") \in Lasts(o) /\ o \in Ops
      BY DEF Lasts, Ops, OnTx
    <2>9. QED BY <2>3, <2>5, <2>6, <2>7, <2>8
  <1> HIDE DEF a, c
  <1>2. ASSUME NEW o \in Sends
        PROVE  /\ IsPath(o, a \o Launch("tx")) /\ Now(a \o Launch("tx")) = Tx("lock")
               /\ Last(a \o Launch("tx")) = Tx("ack")
    <2>1. <<Last(a), Now(Launch("tx"))>> \in Edges(o)  BY <1>1, PathLaunch
    <2>2. QED BY <1>1, <2>1, PathLaunch, Joined
  <1>3. SendRepeat = (a \o Launch("tx")) \o c  BY DEF SendRepeat, a, c
  <1>4. ASSUME NEW o \in Sends
        PROVE  /\ IsPath(o, SendRepeat) /\ Now(SendRepeat) = Tx("lock")
               /\ Last(SendRepeat) = Tx("process")
    <2>1. <<Last(a \o Launch("tx")), Now(c)>> \in Edges(o)  BY <1>1, <1>2
    <2>2. QED BY <1>1, <1>2, <1>3, <2>1, Joined
  <1>5. /\ IsPath("Send", SendRepeat \o SetDefault("tx"))
        /\ Now(SendRepeat \o SetDefault("tx")) = Tx("lock")
        /\ Last(SendRepeat \o SetDefault("tx")) = Tx("poll")
    <2>1. "Send" \in Sends  BY DEF Sends
    <2>2. /\ IsPath("Send", SetDefault("tx")) /\ Now(SetDefault("tx")) = Tx("reset")
          /\ Last(SetDefault("tx")) = Tx("poll")
      BY PathReset
    <2>3. <<Last(SendRepeat), Now(SetDefault("tx"))>> \in Edges("Send")  BY <1>1, <1>4, <2>1, <2>2
    <2>4. QED BY <1>4, <2>1, <2>2, <2>3, Joined
  <1>6. "Send" \in Sends /\ "Send_repeat" \in Sends  BY DEF Sends
  <1>7. QED BY <1>1, <1>4, <1>5, <1>6, PathIsRest DEF IsPath

LEMMA ScriptOfRecv ==
  IsRest("Recv", RecvScript) /\ Now(RecvScript) = Rx("lock") /\ RecvScript # <<>>
  <1> DEFINE l == << <<"lock", "rx">> >>
             a == << <<"alloc", "rx">>, <<"fill", "rx">>, <<"chain", "rx">> >>
             c == << <<"process", "rx">>, <<"copyout", "rx">> >>
  <1>1. /\ IsPath("Recv", l) /\ Now(l) = Rx("lock") /\ Last(l) = Rx("lock")
        /\ IsPath("Recv", a) /\ Now(a) = Rx("alloc") /\ Last(a) = Rx("chain")
        /\ IsPath("Recv", c) /\ Now(c) = Rx("process") /\ Last(c) = Rx("copyout")
    BY DEF IsPath, Edges, Owning, Last, Now, Sends, Stages, Channels, Tx, Rx
  <1>2. /\ <<Rx("lock"), Rx("alloc")>> \in Edges("Recv")
        /\ <<Rx("chain"), Rx("start")>> \in Edges("Recv")
        /\ <<Rx("ack"), Rx("process")>> \in Edges("Recv")
        /\ <<Rx("copyout"), Rx("reset")>> \in Edges("Recv")
        /\ Rx("poll") \in Lasts("Recv") /\ "Recv" \in Ops
    BY DEF Edges, Owning, Lasts, Sends, Ops, OnRx
  <1>3. /\ IsPath("Recv", SetDefault("rx")) /\ Now(SetDefault("rx")) = Rx("reset")
        /\ Last(SetDefault("rx")) = Rx("poll")
    BY PathReset
  <1> HIDE DEF l, a, c
  <1>4. /\ IsPath("Recv", a \o Launch("rx")) /\ Now(a \o Launch("rx")) = Rx("alloc")
        /\ Last(a \o Launch("rx")) = Rx("ack")
    <2>1. <<Last(a), Now(Launch("rx"))>> \in Edges("Recv")  BY <1>1, <1>2, PathLaunch
    <2>2. QED BY <1>1, <2>1, PathLaunch, Joined
  <1> DEFINE d == a \o Launch("rx")
  <1> HIDE DEF d
  <1>5. IsPath("Recv", d \o c) /\ Now(d \o c) = Rx("alloc") /\ Last(d \o c) = Rx("copyout")
    <2>1. IsPath("Recv", d) /\ Now(d) = Rx("alloc") /\ Last(d) = Rx("ack")  BY <1>4 DEF d
    <2>2. <<Last(d), Now(c)>> \in Edges("Recv")  BY <1>1, <1>2, <2>1
    <2>3. QED BY <1>1, <2>1, <2>2, Joined
  <1> DEFINE e == d \o c
  <1> HIDE DEF e
  <1>6. RecvBody = e \o SetDefault("rx")  BY DEF RecvBody, a, c, d, e
  <1>7. /\ IsPath("Recv", RecvBody) /\ Now(RecvBody) = Rx("alloc")
        /\ Last(RecvBody) = Rx("poll")
    <2>1. IsPath("Recv", e) /\ Now(e) = Rx("alloc") /\ Last(e) = Rx("copyout")  BY <1>5 DEF e
    <2>2. <<Last(e), Now(SetDefault("rx"))>> \in Edges("Recv")  BY <1>2, <1>3, <2>1
    <2>3. QED BY <1>3, <1>6, <2>1, <2>2, Joined
  <1>8. RecvScript = l \o RecvBody  BY DEF RecvScript, l
  <1>9. /\ IsPath("Recv", RecvScript) /\ Now(RecvScript) = Rx("lock")
        /\ Last(RecvScript) = Rx("poll")
    <2>1. <<Last(l), Now(RecvBody)>> \in Edges("Recv")  BY <1>1, <1>2, <1>7
    <2>2. QED BY <1>1, <1>7, <1>8, <2>1, Joined
  <1>10. QED BY <1>2, <1>9, PathIsRest DEF IsPath

LEMMA ScriptOfDirectSend ==
  /\ IsRest("DirectSend", DirectSendScript) /\ Now(DirectSendScript) = Tx("lock")
  /\ DirectSendScript # <<>>
  <1> DEFINE a == << <<"lock", "tx">>, <<"alloc", "tx">>, <<"start", "tx">>,
                     <<"check", "tx">>, <<"fill", "tx">> >>
             c == << <<"sent", "tx">> >>
  <1>1. /\ IsPath("DirectSend", a) /\ Now(a) = Tx("lock") /\ Last(a) = Tx("fill")
        /\ IsPath("DirectSend", c) /\ Now(c) = Tx("sent") /\ Last(c) = Tx("sent")
    BY DEF IsPath, Edges, Owning, Last, Now, Sends, Stages, Channels, Tx, Rx
  <1>2. /\ IsPath("DirectSend", DirectLaunch("tx")) /\ Now(DirectLaunch("tx")) = Tx("length")
        /\ Last(DirectLaunch("tx")) = Tx("ack")
    BY DEF IsPath, DirectLaunch, Edges, Owning, Last, Now, Sends, Stages, Channels, Tx, Rx
  <1>3. /\ <<Tx("fill"), Tx("length")>> \in Edges("DirectSend")
        /\ <<Tx("ack"), Tx("sent")>> \in Edges("DirectSend")
        /\ Tx("sent") \in Lasts("DirectSend") /\ "DirectSend" \in Ops
    BY DEF Edges, Owning, Lasts, Sends, Ops, OnTx
  <1> HIDE DEF a, c
  <1> DEFINE d == a \o DirectLaunch("tx")
  <1>4. IsPath("DirectSend", d) /\ Now(d) = Tx("lock") /\ Last(d) = Tx("ack")
    <2>1. <<Last(a), Now(DirectLaunch("tx"))>> \in Edges("DirectSend")  BY <1>1, <1>2, <1>3
    <2>2. QED BY <1>1, <1>2, <2>1, Joined
  <1>5. DirectSendScript = d \o c  BY DEF DirectSendScript, a, c
  <1> HIDE DEF d
  <1>6. /\ IsPath("DirectSend", DirectSendScript) /\ Now(DirectSendScript) = Tx("lock")
        /\ Last(DirectSendScript) = Tx("sent")
    <2>1. <<Last(d), Now(c)>> \in Edges("DirectSend")  BY <1>1, <1>3, <1>4
    <2>2. QED BY <1>1, <1>4, <1>5, <2>1, Joined
  <1>7. QED BY <1>3, <1>6, PathIsRest DEF IsPath

LEMMA ScriptOfDirectRecv ==
  /\ IsRest("DirectManualRecv", DirectManualRecvScript)
  /\ Now(DirectManualRecvScript) = Rx("lock") /\ DirectManualRecvScript # <<>>
  /\ IsRest("DirectRecv", DirectRecvScript) /\ Now(DirectRecvScript) = Rx("alloc")
  /\ DirectRecvScript # <<>>
  <1> DEFINE O == {"DirectRecv", "DirectManualRecv"}
             a == << <<"lock", "rx">>, <<"pending", "rx">>, <<"start", "rx">>, <<"check", "rx">> >>
             b == << <<"alloc", "rx">> >>
             c == << <<"copyout", "rx">> >>
  <1>1. ASSUME NEW o \in O
        PROVE  /\ IsPath(o, a) /\ Now(a) = Rx("lock") /\ Last(a) = Rx("check")
               /\ IsPath(o, b) /\ Now(b) = Rx("alloc") /\ Last(b) = Rx("alloc")
               /\ IsPath(o, c) /\ Now(c) = Rx("copyout") /\ Last(c) = Rx("copyout")
    <2>1. \A i \in 1..3 : <<a[i], a[i + 1]>> \in Edges(o)  BY DEF Edges, Rx
    <2>2. a \in Seq(Stages \X Channels) /\ Len(a) = 4 /\ a # <<>>  BY DEF Stages, Channels
    <2>3. Now(a) = Rx("lock") /\ Last(a) = Rx("check")  BY DEF Now, Last, Rx
    <2>4. Rx("alloc") \in Stages \X Channels /\ Rx("copyout") \in Stages \X Channels
          /\ b = <<Rx("alloc")>> /\ c = <<Rx("copyout")>>
      BY DEF Stages, Channels, Rx
    <2> HIDE DEF a, b, c
    <2>5. \A i \in 1..Len(a) : i < Len(a) => i \in 1..3  BY <2>2
    <2>6. IsPath(o, a)  BY <2>1, <2>2, <2>5 DEF IsPath
    <2>7. QED BY <2>3, <2>4, <2>6, PathOne
  <1>2. ASSUME NEW o \in O
        PROVE  /\ IsPath(o, DirectLaunch("rx")) /\ Now(DirectLaunch("rx")) = Rx("length")
               /\ Last(DirectLaunch("rx")) = Rx("ack")
    <2> DEFINE d == DirectLaunch("rx")
    <2>1. \A i \in 1..3 : <<d[i], d[i + 1]>> \in Edges(o)  BY DEF DirectLaunch, Edges, Rx
    <2>2. d \in Seq(Stages \X Channels) /\ Len(d) = 4 /\ d # <<>>
      BY DEF DirectLaunch, Stages, Channels
    <2>3. Now(d) = Rx("length") /\ Last(d) = Rx("ack")  BY DEF DirectLaunch, Now, Last, Rx
    <2> HIDE DEF d
    <2>4. \A i \in 1..Len(d) : i < Len(d) => i \in 1..3  BY <2>2
    <2>5. IsPath(o, d)  BY <2>1, <2>2, <2>4 DEF IsPath
    <2>6. QED BY <2>3, <2>5 DEF d
  <1>3. ASSUME NEW o \in O
        PROVE  /\ <<Rx("check"), Rx("length")>> \in Edges(o)
               /\ <<Rx("ack"), Rx("copyout")>> \in Edges(o)
               /\ <<Rx("alloc"), Rx("lock")>> \in Edges(o)
               /\ Rx("copyout") \in Lasts(o) /\ o \in Ops
    BY DEF Edges, Owning, Lasts, Sends, Ops, OnRx
  <1> HIDE DEF O, a, b, c
  <1> DEFINE d == a \o DirectLaunch("rx")
  <1>4. ASSUME NEW o \in O
        PROVE  IsPath(o, d) /\ Now(d) = Rx("lock") /\ Last(d) = Rx("ack")
    <2>1. <<Last(a), Now(DirectLaunch("rx"))>> \in Edges(o)  BY <1>1, <1>2, <1>3
    <2>2. QED BY <1>1, <1>2, <2>1, Joined
  <1> HIDE DEF d
  <1>5. DirectManualRecvScript = d \o c  BY DEF DirectManualRecvScript, a, c, d
  <1>6. ASSUME NEW o \in O
        PROVE  /\ IsPath(o, DirectManualRecvScript) /\ Now(DirectManualRecvScript) = Rx("lock")
               /\ Last(DirectManualRecvScript) = Rx("copyout")
    <2>1. <<Last(d), Now(c)>> \in Edges(o)  BY <1>1, <1>3, <1>4
    <2>2. QED BY <1>1, <1>4, <1>5, <2>1, Joined
  <1>7. ASSUME NEW o \in O
        PROVE  /\ IsPath(o, DirectRecvScript) /\ Now(DirectRecvScript) = Rx("alloc")
               /\ Last(DirectRecvScript) = Rx("copyout")
    <2>1. <<Last(b), Now(DirectManualRecvScript)>> \in Edges(o)  BY <1>1, <1>3, <1>6
    <2>2. DirectRecvScript = b \o DirectManualRecvScript  BY DEF DirectRecvScript, b
    <2>3. QED BY <1>1, <1>6, <2>1, <2>2, Joined
  <1>8. "DirectRecv" \in O /\ "DirectManualRecv" \in O  BY DEF O
  <1>9. QED BY <1>3, <1>6, <1>7, <1>8, PathIsRest DEF IsPath

LEMMA ScriptOfRun ==
  /\ IsRest("end", ResetChannels) /\ IsRest("Transf", ResetChannels)
  /\ Now(ResetChannels) = Tx("reset") /\ ResetChannels # <<>>
  /\ Last(ResetChannels) = Rx("poll")
  /\ IsRest("run", RunScript) /\ Now(RunScript) = Tx("reset") /\ RunScript # <<>>
  /\ IsRest("Send_repeat", SetDefault("tx")) /\ Now(SetDefault("tx")) = Tx("reset")
  /\ SetDefault("tx") # <<>>
  <1>1. Rx("poll") \in Lasts("end") /\ Rx("poll") \in Lasts("Transf") /\ Rx("up") \in Lasts("run")
        /\ Tx("poll") \in Lasts("Send_repeat")
        /\ "end" \in Ops /\ "Transf" \in Ops /\ "run" \in Ops /\ "Send_repeat" \in Ops
        /\ <<Rx("poll"), Rx("up")>> \in Edges("run") /\ Rx("up") \in Stages \X Channels
        /\ Rx("up") = <<"up", "rx">>
    BY DEF Lasts, Ops, OnTx, Sends, Owning, Edges, Stages, Channels, Rx, Tx
  <1>2. /\ IsPath("run", ResetChannels) /\ Now(ResetChannels) = Tx("reset")
        /\ Last(ResetChannels) = Rx("poll")
        /\ IsPath("end", ResetChannels) /\ IsPath("Transf", ResetChannels)
    BY PathResets
  <1>3. IsPath("run", <<Rx("up")>>) /\ Now(<<Rx("up")>>) = Rx("up") /\ Last(<<Rx("up")>>) = Rx("up")
    BY <1>1, PathOne
  <1>4. RunScript = ResetChannels \o <<Rx("up")>>  BY <1>1 DEF RunScript
  <1>5. IsPath("run", RunScript) /\ Now(RunScript) = Tx("reset") /\ Last(RunScript) = Rx("up")
    <2>1. <<Last(ResetChannels), Now(<<Rx("up")>>)>> \in Edges("run")  BY <1>1, <1>2, <1>3
    <2>2. QED BY <1>2, <1>3, <1>4, <2>1, Joined
  <1>6. /\ IsPath("Send_repeat", SetDefault("tx")) /\ Now(SetDefault("tx")) = Tx("reset")
        /\ Last(SetDefault("tx")) = Tx("poll")
    BY PathReset
  <1>7. QED BY <1>1, <1>2, <1>5, <1>6, PathIsRest DEF IsPath

LEMMA ScriptOfTransf ==
  /\ IsRest("Transf", TransfScript) /\ Now(TransfScript) = Tx("lock")
  /\ Last(TransfScript) = Rx("copyout") /\ TransfScript # <<>>
  <1> DEFINE l == << <<"lock", "tx">> >>
             a == << <<"alloc", "tx">>, <<"alloc", "rx">>, <<"fill", "tx">>, <<"fill", "rx">>,
                     <<"chain", "tx">>, <<"chain", "rx">>, <<"start", "tx">>, <<"start", "rx">>,
                     <<"check", "tx">>, <<"check", "rx">>, <<"tail", "rx">>, <<"tail", "tx">>,
                     <<"wait", "tx">>, <<"ack", "tx">>, <<"wait", "rx">>, <<"ack", "rx">>,
                     <<"process", "tx">>, <<"process", "rx">> >>
             c == << <<"copyout", "rx">> >>
  <1>1. /\ IsPath("Transf", l) /\ Now(l) = Tx("lock") /\ Last(l) = Tx("lock")
        /\ IsPath("Transf", c) /\ Now(c) = Rx("copyout") /\ Last(c) = Rx("copyout")
    BY DEF IsPath, Last, Now, Stages, Channels, Tx, Rx
  <1>2. IsPath("Transf", a) /\ Now(a) = Tx("alloc") /\ Last(a) = Rx("process")
    <2>1. a \in Seq(Stages \X Channels)  BY DEF Stages, Channels
    <2>2. Len(a) = 18 /\ a # <<>>  OBVIOUS
    <2>3. Now(a) = Tx("alloc") /\ Last(a) = Rx("process")  BY <2>2 DEF Now, Last, Tx, Rx
    <2>4. \A i \in 1..6 : <<a[i], a[i + 1]>> \in Edges("Transf")
      BY DEF Edges, Owning, Sends, Tx, Rx
    <2>5. \A i \in 7..12 : <<a[i], a[i + 1]>> \in Edges("Transf")
      BY DEF Edges, Owning, Sends, Tx, Rx
    <2>6. \A i \in 13..17 : <<a[i], a[i + 1]>> \in Edges("Transf")
      BY DEF Edges, Owning, Sends, Tx, Rx
    <2> HIDE DEF a
    <2>7. \A i \in 1..Len(a) : i < Len(a) => i \in 1..6 \/ i \in 7..12 \/ i \in 13..17  BY <2>2
    <2>8. QED BY <2>1, <2>2, <2>3, <2>4, <2>5, <2>6, <2>7 DEF IsPath
  <1>3. /\ <<Tx("lock"), Tx("alloc")>> \in Edges("Transf")
        /\ <<Rx("process"), Tx("reset")>> \in Edges("Transf")
        /\ <<Rx("poll"), Rx("copyout")>> \in Edges("Transf")
        /\ Rx("copyout") \in Lasts("Transf") /\ "Transf" \in Ops
    BY DEF Edges, Owning, Lasts, Sends, Ops, OnTx
  <1>4. /\ IsPath("Transf", ResetChannels) /\ Now(ResetChannels) = Tx("reset")
        /\ Last(ResetChannels) = Rx("poll")
    BY PathResets
  <1> DEFINE b == a \o ResetChannels
  <1>5. TransfBody = b \o c  BY DEF TransfBody
  <1> HIDE DEF l, a, c
  <1>6. IsPath("Transf", b) /\ Now(b) = Tx("alloc") /\ Last(b) = Rx("poll")
    <2>1. <<Last(a), Now(ResetChannels)>> \in Edges("Transf")  BY <1>2, <1>3, <1>4
    <2>2. QED BY <1>2, <1>4, <2>1, Joined
  <1> HIDE DEF b
  <1>7. /\ IsPath("Transf", TransfBody) /\ Now(TransfBody) = Tx("alloc")
        /\ Last(TransfBody) = Rx("copyout")
    <2>1. <<Last(b), Now(c)>> \in Edges("Transf")  BY <1>1, <1>3, <1>6
    <2>2. QED BY <1>1, <1>5, <1>6, <2>1, Joined
  <1>8. TransfScript = l \o TransfBody  BY DEF TransfScript, l
  <1>9. /\ IsPath("Transf", TransfScript) /\ Now(TransfScript) = Tx("lock")
        /\ Last(TransfScript) = Rx("copyout")
    <2>1. <<Last(l), Now(TransfBody)>> \in Edges("Transf")  BY <1>1, <1>3, <1>7
    <2>2. QED BY <1>1, <1>7, <1>8, <2>1, Joined
  <1>10. QED BY <1>3, <1>9, PathIsRest DEF IsPath

LEMMA ScriptIs ==
  ASSUME NEW o \in Ops
  PROVE  /\ IsRest(o, Script(o))
         /\ Script(o) # <<>> =>
              /\ o \in OnTx \cup OnRx => (o \in SgOps <=> isSg) /\ Now(Script(o)) \in Before(o)
              /\ o \in Owning => Now(Script(o)) = Tx("reset")
              /\ o = "Transf" => Last(Script(o)) = Rx("copyout")
  <1>1. CASE Script(o) = <<>>  BY <1>1, NothingLeft
  <1>2. CASE Script(o) # <<>>
    <2>1. o \notin (IF isSg THEN DirectOps ELSE SgOps)  BY <1>2 DEF Script
    <2>2. o \in OnTx \cup OnRx => (o \in SgOps <=> isSg)
      BY <2>1 DEF OnTx, OnRx, Sends, SgOps, DirectOps
    <2>3. CASE o \in Sends
      <3>1. Script(o) = IF o = "Send" THEN SendRepeat \o SetDefault("tx") ELSE SendRepeat
        BY <2>1, <2>3 DEF Script, Sends
      <3>2. QED BY <2>2, <2>3, <3>1, ScriptOfSends DEF Sends, OnTx, Owning, Before
    <2>4. CASE o = "Transf"
      <3>1. Script(o) = TransfScript  BY <2>1, <2>4 DEF Script
      <3>2. QED BY <2>2, <2>4, <3>1, ScriptOfTransf DEF OnTx, Owning, Before
    <2>5. CASE o = "Recv"
      <3>1. Script(o) = RecvScript  BY <2>1, <2>5 DEF Script
      <3>2. QED BY <2>2, <2>5, <3>1, ScriptOfRecv DEF OnTx, Sends, Owning, Before
    <2>6. CASE o = "DirectSend"
      <3>1. Script(o) = DirectSendScript  BY <2>1, <2>6 DEF Script
      <3>2. QED BY <2>2, <2>6, <3>1, ScriptOfDirectSend DEF OnTx, Owning, Before
    <2>7. CASE o \in {"DirectRecv", "DirectManualRecv"}
      <3>1. Script(o) = IF o = "DirectRecv" THEN DirectRecvScript ELSE DirectManualRecvScript
        BY <2>1, <2>7 DEF Script
      <3>2. QED BY <2>2, <2>7, <3>1, ScriptOfDirectRecv DEF OnTx, Sends, Owning, Before
    <2>8. CASE o \in Owning
      <3>1. Script(o) = IF o = "run" THEN RunScript ELSE ResetChannels
        BY <2>1, <2>8 DEF Script, Owning
      <3>2. QED BY <2>8, <3>1, ScriptOfRun DEF Owning, OnTx, OnRx, Sends
    <2>9. QED BY <2>3, <2>4, <2>5, <2>6, <2>7, <2>8 DEF Ops, OnTx, OnRx, Owning
  <1>3. QED BY <1>1, <1>2

LEMMA CleanUpIs ==
  ASSUME NEW o, NEW stage
  PROVE  /\ IsRest(o, CleanUp(o, stage))
         /\ CleanUp(o, stage) # <<>> =>
              /\ stage \in {"ack", "process"} /\ o \in {"Send_repeat", "Transf"}
              /\ Now(CleanUp(o, stage)) = Tx("reset")
              /\ o = "Transf" => Last(CleanUp(o, stage)) = Rx("poll")
  <1>1. CASE stage = "ack" /\ o = "Send_repeat"
    <2>1. CleanUp(o, stage) = SetDefault("tx")  BY <1>1 DEF CleanUp
    <2>2. QED BY <1>1, <2>1, ScriptOfRun
  <1>2. CASE stage \in {"ack", "process"} /\ o = "Transf"
    <2>1. CleanUp(o, stage) = ResetChannels  BY <1>2 DEF CleanUp
    <2>2. QED BY <1>2, <2>1, ScriptOfRun
  <1>3. CASE ~(stage = "ack" /\ o = "Send_repeat") /\ ~(stage \in {"ack", "process"} /\ o = "Transf")
    <2>1. CleanUp(o, stage) = <<>>  BY <1>3 DEF CleanUp
    <2>2. QED BY <2>1, NothingLeft
  <1>4. QED BY <1>1, <1>2, <1>3

LEMMA UnresetIs ==
  ASSUME NEW o, NEW s, IsRest(o, s), s # <<>>
  PROVE  /\ IsRest(o, Unreset(s))
         /\ Unreset(s) # <<>> => /\ Now(Unreset(s)) = Rx("copyout") /\ Last(s) = Rx("copyout")
                                 /\ Last(Unreset(s)) = Rx("copyout")
  <1>1. CASE Last(s) = Rx("copyout")
    <2>1. Unreset(s) = <<Rx("copyout")>>  BY <1>1 DEF Unreset, Last, Rx
    <2>2. Rx("copyout") \in Lasts(o) /\ o \in Ops /\ Rx("copyout") \in Stages \X Channels
      BY <1>1, Pairs DEF IsRest, Stages
    <2>3. QED BY <1>1, <2>1, <2>2, OneLeft
  <1>2. CASE Last(s) # Rx("copyout")
    <2>1. Unreset(s) = <<>>  BY <1>2 DEF Unreset, Last, Rx
    <2>2. QED BY <2>1, NothingLeft
  <1>3. QED BY <1>1, <1>2

(* Which mutex a stage is behind, and the stages of run() and of the        *)
(* destructor.                                                              *)
LEMMA EdgeLock ==
  ASSUME NEW o \in OnTx \cup OnRx, NEW x, NEW y, <<x, y>> \in Edges(o)
  PROVE  /\ x[1] = "lock" <=> x = <<"lock", Mutex(o)>>
         /\ x[1] = "lock" => x \in Before(o) /\ y \notin Before(o)
         /\ x[1] # "lock" => (y \in Before(o) <=> x \in Before(o))
         /\ x \in Before(o) => x[1] \in {"lock", "alloc"}
         /\ x[1] # "up" /\ y[1] # "up" /\ y # Done
  <1>1. CASE o \in Sends  BY <1>1 DEF Edges, Owning, Before, Mutex, OnTx, OnRx, Sends, Tx, Rx, Done
  <1>2. CASE o = "Transf"  BY <1>2 DEF Edges, Owning, Before, Mutex, OnTx, OnRx, Sends, Tx, Rx, Done
  <1>3. CASE o = "DirectSend"  BY <1>3 DEF Edges, Owning, Before, Mutex, OnTx, OnRx, Sends, Tx, Rx, Done
  <1>4. CASE o = "Recv"  BY <1>4 DEF Edges, Owning, Before, Mutex, OnTx, OnRx, Sends, Tx, Rx, Done
  <1>5. CASE o \in {"DirectRecv", "DirectManualRecv"}
    BY <1>5 DEF Edges, Owning, Before, Mutex, OnTx, OnRx, Sends, Tx, Rx, Done
  <1>6. QED BY <1>1, <1>2, <1>3, <1>4, <1>5 DEF OnTx, OnRx

LEMMA LastLock ==
  ASSUME NEW o \in OnTx \cup OnRx, NEW x \in Lasts(o)
  PROVE  x[1] \notin {"lock", "up"} /\ x \notin Before(o)
  BY DEF Lasts, Before, OnTx, OnRx, Sends, Tx, Rx

LEMMA EdgeOwning ==
  ASSUME NEW o \in Owning, NEW x
  PROVE  /\ x \in Lasts(o) => x[1] \in {"poll", "up"}
         /\ \A y : <<x, y>> \in Edges(o) => x[1] \in {"reset", "poll"}
  BY DEF Lasts, Edges, Owning, Sends, Tx, Rx

LEMMA PendingEdge ==
  ASSUME NEW o \in Ops, NEW x, x[1] = "pending",
         x \in Lasts(o) \/ \E y : <<x, y>> \in Edges(o)
  PROVE  o \in {"DirectRecv", "DirectManualRecv"} /\ x = Rx("pending")
  <1>1. CASE o \in Sends  BY <1>1 DEF Edges, Owning, Lasts, Sends, Tx, Rx
  <1>2. CASE o = "Transf"  BY <1>2 DEF Edges, Owning, Lasts, Sends, Tx, Rx
  <1>3. CASE o = "DirectSend"  BY <1>3 DEF Edges, Owning, Lasts, Sends, Tx, Rx
  <1>4. CASE o = "Recv"  BY <1>4 DEF Edges, Owning, Lasts, Sends, Tx, Rx
  <1>5. CASE o \in {"DirectRecv", "DirectManualRecv"}  BY <1>5 DEF Edges, Owning, Lasts, Sends, Tx, Rx
  <1>6. CASE o \in Owning  BY <1>6 DEF Edges, Lasts, Sends, Owning, Tx, Rx
  <1>7. QED BY <1>1, <1>2, <1>3, <1>4, <1>5, <1>6 DEF Ops, OnTx, OnRx

-------------------------------------------------------------------------------
(* The threads.                                                             *)

Typed == TypeOK /\ mem \in [Places -> Nat]

LEMMA AtStage ==
  ASSUME Control, NEW t \in Threads, NEW stage, NEW w, At(t, stage, w)
  PROVE  /\ script[t] # <<>> /\ Now(script[t]) = <<stage, w>> /\ Now(script[t])[1] = stage
         /\ IsRest(op[t], script[t]) /\ op[t] \in Ops
         /\ w \in Channels /\ stage \in Stages
  <1>1. script[t] # <<>> /\ Head(script[t]) = <<stage, w>> /\ IsRest(op[t], script[t])
    BY DEF At, Control
  <1>2. Now(script[t]) = Head(script[t]) /\ op[t] \in Ops /\ Head(script[t]) \in Stages \X Channels
    BY <1>1, StepOn
  <1>3. QED BY <1>1, <1>2

(* What may be left of the script of t after a stage other than "lock".     *)
Leaves(t, stage, r) ==
  \/ r = Tail(script[t])
  \/ r = Unreset(script[t]) /\ stage = "poll"
  \/ r = << <<"copyout", Head(script[t])[2]>> >> /\ stage = "pending"
  \/ \E st : r = CleanUp(op[t], st) /\ (stage = "alloc" => st = "alloc")

LEMMA LeavesRest ==
  ASSUME Control, NEW t \in Threads, NEW stage, NEW w, At(t, stage, w), stage # "lock",
         NEW r, Leaves(t, stage, r)
  PROVE  /\ IsRest(op[t], r)
         /\ op[t] \in OnTx \cup OnRx /\ r # <<>> =>
              (Now(r) \in Before(op[t]) <=> Now(script[t]) \in Before(op[t]))
  <1> DEFINE s == script[t]
             o == op[t]
             x == Now(script[t])
  <1>1. s # <<>> /\ x = <<stage, w>> /\ x[1] = stage /\ IsRest(o, s) /\ o \in Ops  BY AtStage
  <1>2. x = s[1]  BY <1>1 DEF Now
  <1> HIDE DEF s, o, x
  <1>3. CASE r = Tail(script[t])
    <2>1. IsRest(o, Tail(s)) /\ (Tail(s) # <<>> => <<x, Now(Tail(s))>> \in Edges(o))
      BY <1>1, <1>2, StepOn
    <2>2. o \in OnTx \cup OnRx /\ Tail(s) # <<>> => (Now(Tail(s)) \in Before(o) <=> x \in Before(o))
      BY <1>1, <2>1, EdgeLock
    <2>3. QED BY <1>3, <2>1, <2>2 DEF s, o, x
  <1>4. o \in OnTx \cup OnRx /\ stage \notin {"lock", "alloc"} => x \notin Before(o)
    <2>1. x \in Lasts(o) \/ \E y : <<x, y>> \in Edges(o)  BY <1>1, <1>2, StepOn
    <2>2. QED BY <1>1, <2>1, EdgeLock, LastLock
  <1>5. CASE r = Unreset(script[t]) /\ stage = "poll"
    <2>1. IsRest(o, r) /\ (r # <<>> => Now(r) = Rx("copyout"))
      BY <1>1, <1>5, UnresetIs DEF s
    <2>2. o \in OnTx \cup OnRx => Rx("copyout") \notin Before(o)
      BY DEF Before, OnTx, OnRx, Sends, Rx, Tx
    <2>3. QED BY <1>4, <1>5, <2>1, <2>2 DEF o, x
  <1>6. CASE \E st : r = CleanUp(op[t], st) /\ (stage = "alloc" => st = "alloc")
    <2>1. PICK st : r = CleanUp(o, st) /\ (stage = "alloc" => st = "alloc")  BY <1>6 DEF o
    <2>2. /\ IsRest(o, r)
          /\ r # <<>> => st \in {"ack", "process"} /\ Now(r) = Tx("reset")
      BY <2>1, CleanUpIs
    <2>3. o \in OnTx \cup OnRx => Tx("reset") \notin Before(o)
      BY DEF Before, OnTx, OnRx, Sends, Rx, Tx
    <2>4. r # <<>> => stage \notin {"lock", "alloc"}  BY <2>1, <2>2
    <2>5. QED BY <1>4, <2>2, <2>3, <2>4 DEF o, x
  <1>7. CASE r = << <<"copyout", Head(script[t])[2]>> >> /\ stage = "pending"
    <2>1. x \in Lasts(o) \/ \E y : <<x, y>> \in Edges(o)  BY <1>1, <1>2, StepOn
    <2>2. o \in {"DirectRecv", "DirectManualRecv"} /\ x = Rx("pending")
      BY <1>1, <1>7, <2>1, PendingEdge
    <2>3. Head(script[t]) = x  BY <1>1, <1>2, StepOn DEF s
    <2>4. r = <<Rx("copyout")>>  BY <1>7, <2>2, <2>3 DEF Rx
    <2>5. Rx("copyout") \in Lasts(o) /\ Rx("copyout") \in Stages \X Channels
          /\ Rx("copyout") \notin Before(o)
      BY <2>2 DEF Lasts, Before, Sends, Stages, Channels, Rx
    <2>6. IsRest(o, r) /\ Now(r) = Rx("copyout")  BY <1>1, <2>4, <2>5, OneLeft
    <2>7. QED BY <1>4, <1>7, <2>5, <2>6 DEF o, x
  <1>8. QED BY <1>3, <1>5, <1>6, <1>7 DEF Leaves

LEMMA MoveControl ==
  ASSUME Typed, Control, NEW t \in Threads, NEW stage, NEW w, At(t, stage, w),
         stage \notin {"lock", "up"}, NEW r, Leaves(t, stage, r),
         script' = [script EXCEPT ![t] = r], UNCHANGED <<isSg, up, op, call, calls, owner>>
  PROVE  Control'
  <1>1. /\ script[t] # <<>> /\ IsRest(op[t], r)
        /\ op[t] \in OnTx \cup OnRx /\ r # <<>> =>
             (Now(r) \in Before(op[t]) <=> Now(script[t]) \in Before(op[t]))
    BY AtStage, LeavesRest
  <1>2. /\ script'[t] = r
        /\ \A u \in Threads : u # t => script'[u] = script[u]
        /\ UNCHANGED <<isSg, up, op, call, calls, owner>>
    BY DEF Typed, TypeOK
  <1>3. ASSUME NEW u \in Threads
        PROVE  /\ IsRest(op[u], script'[u])
               /\ op[u] = "none" => script'[u] = <<>>
               /\ op[u] \in Owning /\ script'[u] # <<>> => ~up
               /\ op[u] \in OnTx \cup OnRx /\ script'[u] # <<>> =>
                    /\ op[u] \in SgOps <=> isSg
                    /\ Holds(u) <=> Now(script'[u]) \notin Before(op[u])
    <2>1. CASE u # t  BY <1>2, <2>1 DEF Control
    <2>2. CASE u = t
      <3>1. op[t] # "none"  BY <1>1 DEF Control
      <3>2. QED BY <1>1, <1>2, <2>2, <3>1 DEF Control
    <2>3. QED BY <2>1, <2>2
  <1>4. \A u \in Threads : Holds(u)' = Holds(u)  BY <1>2 DEF Holds
  <1>5. QED BY <1>2, <1>3, <1>4 DEF Control

(* The stages that only move a thread on in its script.                     *)
Moving(t, w) ==
  \/ InitDescriptors(t, w) \/ AllocBufferMem(t, w) \/ FillBuffer(t, w) \/ Start(t, w)
  \/ CheckHalt(t, w) \/ SetTailDesc(t, w) \/ WaitComplete(t, w) \/ AckIRQ(t, w)
  \/ ProcessDescriptors(t, w) \/ SetLength(t, w) \/ Pending(t, w) \/ WaitDirectComplete(t, w)
  \/ ReturnTxLength(t, w) \/ Reset(t, w) \/ PollReset(t, w) \/ CopyOut(t, w)

LEMMA Moves ==
  ASSUME NEW t \in Threads, NEW w \in Channels, Moving(t, w)
  PROVE  /\ UNCHANGED <<case, isSg, up, op, call, calls, owner>>
         /\ \E stage \in Stages \ {"lock", "up"} : \E r :
              At(t, stage, w) /\ Leaves(t, stage, r) /\ script' = [script EXCEPT ![t] = r]
  <1>1. CASE InitDescriptors(t, w)
    BY <1>1 DEF InitDescriptors, Advance, Fail, Leaves, Stages
  <1>2. CASE AllocBufferMem(t, w)
    BY <1>2 DEF AllocBufferMem, Advance, Fail, Leaves, Stages
  <1>3. CASE FillBuffer(t, w)  BY <1>3 DEF FillBuffer, Advance, Leaves, Stages
  <1>4. CASE Start(t, w)  BY <1>4 DEF Start, Advance, Leaves, Stages
  <1>5. CASE CheckHalt(t, w)  BY <1>5 DEF CheckHalt, Advance, Fail, Leaves, Stages
  <1>6. CASE SetTailDesc(t, w)  BY <1>6 DEF SetTailDesc, Advance, Leaves, Stages
  <1>7. CASE WaitComplete(t, w)  BY <1>7 DEF WaitComplete, Advance, Fail, Leaves, Stages
  <1>8. CASE AckIRQ(t, w)  BY <1>8 DEF AckIRQ, Advance, Fail, Leaves, Stages
  <1>9. CASE ProcessDescriptors(t, w)
    BY <1>9 DEF ProcessDescriptors, Advance, Fail, Leaves, Stages
  <1>10. CASE SetLength(t, w)  BY <1>10 DEF SetLength, Advance, Leaves, Stages
  <1>11. CASE Pending(t, w)
    <2>1. At(t, "pending", w) /\ UNCHANGED <<case, isSg, up, op, call, calls, owner>>
      BY <1>11 DEF Pending
    <2>2. Head(script[t])[2] = w /\ "pending" \in Stages \ {"lock", "up"}
      BY <2>1 DEF At, Stages
    <2>3. \/ script' = [script EXCEPT ![t] = << <<"copyout", w>> >>]
          \/ script' = [script EXCEPT ![t] = Tail(script[t])]
      BY <1>11 DEF Pending, Advance
    <2>4. QED BY <2>1, <2>2, <2>3 DEF Leaves
  <1>12. CASE WaitDirectComplete(t, w)
    BY <1>12 DEF WaitDirectComplete, Advance, Fail, Leaves, Stages
  <1>13. CASE ReturnTxLength(t, w)  BY <1>13 DEF ReturnTxLength, Advance, Leaves, Stages
  <1>14. CASE Reset(t, w)  BY <1>14 DEF Reset, Advance, Leaves, Stages
  <1>15. CASE PollReset(t, w)  BY <1>15 DEF PollReset, Advance, Leaves, Stages
  <1>16. CASE CopyOut(t, w)  BY <1>16 DEF CopyOut, Advance, Leaves, Stages
  <1>17. QED BY <1>1, <1>2, <1>3, <1>4, <1>5, <1>6, <1>7, <1>8, <1>9, <1>10, <1>11, <1>12,
                <1>13, <1>14, <1>15, <1>16 DEF Moving

LEMMA LockControl ==
  ASSUME Typed, Control, NEW t \in Threads, NEW w \in Channels, Lock(t, w)
  PROVE  Control' /\ op[t] \in OnTx \cup OnRx /\ w = Mutex(op[t])
  <1> DEFINE s == script[t]
             x == Now(script[t])
             o == op[t]
  <1>1. /\ s # <<>> /\ x = <<"lock", w>> /\ x[1] = "lock" /\ IsRest(o, s) /\ o \in Ops
        /\ At(t, "lock", w)
    BY AtStage DEF Lock
  <1>2. x = s[1] /\ x[2] = w  BY <1>1 DEF Now
  <1>3. /\ owner' = [owner EXCEPT ![w] = t] /\ owner[w] = Free
        /\ script' = [script EXCEPT ![t] = Tail(s)]
        /\ UNCHANGED <<isSg, up, op, call, calls>>
    BY DEF Lock, Advance
  <1> HIDE DEF s, x, o
  <1>4. /\ IsRest(o, Tail(s))
        /\ Tail(s) = <<>> => x \in Lasts(o)
        /\ Tail(s) # <<>> => <<x, Now(Tail(s))>> \in Edges(o)
    BY <1>1, <1>2, StepOn
  <1>5. o \in OnTx \cup OnRx
    <2>1. o \notin Owning  BY <1>1, <1>4, EdgeOwning
    <2>2. QED BY <1>1, <2>1 DEF Ops
  <1>6. Tail(s) # <<>>  BY <1>1, <1>4, <1>5, LastLock
  <1>7. w = Mutex(o) /\ Now(Tail(s)) \notin Before(o)
    <2>1. x = <<"lock", Mutex(o)>> /\ Now(Tail(s)) \notin Before(o)
      BY <1>1, <1>4, <1>5, <1>6, EdgeLock
    <2>2. QED BY <1>1, <2>1
  <1>8. /\ script'[t] = Tail(s) /\ owner'[w] = t
        /\ \A u \in Threads : u # t => script'[u] = script[u]
        /\ \A v \in Channels : v # w => owner'[v] = owner[v]
        /\ UNCHANGED <<isSg, up, op, call, calls>>
    BY <1>3 DEF Typed, TypeOK
  <1>9. \A u \in Threads : Mutex(op[u]) \in Channels  BY DEF Mutex, Channels
  <1>10. \A u \in Threads : u # t => (Holds(u)' <=> Holds(u))
    <2>1. TAKE u \in Threads
    <2>2. HAVE u # t
    <2>3. CASE Mutex(op[u]) = w
      <3>1. u # Free  BY AxiDmaAssumption
      <3>2. QED BY <1>3, <1>8, <2>2, <2>3, <3>1 DEF Holds
    <2>4. CASE Mutex(op[u]) # w  BY <1>8, <1>9, <2>4 DEF Holds
    <2>5. QED BY <2>3, <2>4
  <1>11. Holds(t)'  BY <1>7, <1>8 DEF Holds, o
  <1>12. ~(~up /\ op[t] # "none") /\ op[t] # "none" /\ op[t] \notin Owning
    BY <1>5 DEF Control, OnTx, OnRx, Sends, Owning, o
  <1>13. ASSUME NEW u \in Threads
         PROVE  /\ IsRest(op[u], script'[u])
                /\ op[u] = "none" => script'[u] = <<>>
                /\ op[u] \in OnTx \cup OnRx /\ script'[u] # <<>> =>
                     /\ op[u] \in SgOps <=> isSg
                     /\ Holds(u)' <=> Now(script'[u]) \notin Before(op[u])
                /\ op[u] \in Owning /\ script'[u] # <<>> => ~up
    <2>1. CASE u # t  BY <1>8, <1>10, <2>1 DEF Control
    <2>2. CASE u = t
      BY <1>1, <1>4, <1>7, <1>8, <1>11, <1>12, <2>2 DEF Control, s, o
    <2>3. QED BY <2>1, <2>2
  <1>14. \A v \in Channels : owner'[v] # Free =>
           op[owner'[v]] \in OnTx \cup OnRx /\ Mutex(op[owner'[v]]) = v
    BY <1>5, <1>7, <1>8 DEF Control, o
  <1>15. QED BY <1>5, <1>7, <1>8, <1>13, <1>14 DEF Control, o

LEMMA UpControl ==
  ASSUME Typed, Control, NEW t \in Threads, NEW w \in Channels, SetUp(t, w)
  PROVE  /\ Control' /\ op[t] = "run" /\ w = "rx" /\ ~up /\ script'[t] = <<>>
         /\ \A u \in Threads : u # t => op[u] = "none"
  <1> DEFINE s == script[t]
             x == Now(script[t])
             o == op[t]
  <1>1. s # <<>> /\ x = <<"up", w>> /\ x[1] = "up" /\ IsRest(o, s) /\ o \in Ops
    BY AtStage DEF SetUp
  <1>2. x = s[1]  BY <1>1 DEF Now
  <1>3. /\ script' = [script EXCEPT ![t] = Tail(s)] /\ up' = TRUE
        /\ UNCHANGED <<isSg, op, call, calls, owner>>
    BY DEF SetUp, Advance
  <1> HIDE DEF s, x, o
  <1>4. /\ IsRest(o, Tail(s))
        /\ Tail(s) = <<>> => x \in Lasts(o)
        /\ Tail(s) # <<>> => <<x, Now(Tail(s))>> \in Edges(o)
    BY <1>1, <1>2, StepOn
  <1>5. o \in Owning
    <2>1. o \notin OnTx \cup OnRx  BY <1>1, <1>4, EdgeLock, LastLock
    <2>2. QED BY <1>1, <2>1 DEF Ops
  <1>6. Tail(s) = <<>>  BY <1>1, <1>4, <1>5, EdgeOwning
  <1>7. o = "run" /\ w = "rx"
    BY <1>1, <1>4, <1>5, <1>6 DEF Lasts, Owning, Sends, Tx, Rx
  <1>8. ~up /\ \A u \in Threads : u # t => op[u] = "none"
    BY <1>1, <1>5 DEF Control, s, o, Owning
  <1>9. /\ script'[t] = <<>> /\ up'
        /\ \A u \in Threads : u # t => script'[u] = script[u]
        /\ UNCHANGED <<isSg, op, call, calls, owner>>
    BY <1>3, <1>6 DEF Typed, TypeOK
  <1>10. op[t] \notin OnTx \cup OnRx  BY <1>7 DEF OnTx, OnRx, Sends, o
  <1>11. \A u \in Threads : u # t => script[u] = <<>>  BY <1>8 DEF Control
  <1>12. \A u \in Threads : script'[u] = <<>>  BY <1>9, <1>11
  <1>13. \A u \in Threads : IsRest(op[u], script'[u])  BY <1>12, NothingLeft
  <1>14. \A u \in Threads : op[u] \notin OnTx \cup OnRx
    BY <1>8, <1>10 DEF OnTx, OnRx, Sends
  <1>15. Control'  BY <1>9, <1>12, <1>13, <1>14 DEF Control
  <1>16. QED BY <1>7, <1>8, <1>9, <1>15 DEF o

LEMMA ReturnControl ==
  ASSUME Typed, Control, NEW t \in Threads, Return(t)
  PROVE  Control'
  <1>1. /\ op[t] # "none" /\ script[t] = <<>>
        /\ op'[t] = "none" /\ \A u \in Threads : u # t => op'[u] = op[u]
        /\ owner' = [w \in Channels |-> IF owner[w] = t THEN Free ELSE owner[w]]
        /\ UNCHANGED <<isSg, up, call, calls, script>>
    BY DEF Return, Typed, TypeOK
  <1>2. \A u \in Threads : Mutex(op[u]) \in Channels  BY DEF Mutex, Channels
  <1>3. \A u \in Threads : u # t => (Holds(u)' <=> Holds(u))
    <2>1. TAKE u \in Threads
    <2>2. HAVE u # t
    <2>3. u # Free /\ op'[u] = op[u]  BY <1>1, <2>2, AxiDmaAssumption
    <2>4. owner'[Mutex(op[u])] = IF owner[Mutex(op[u])] = t THEN Free ELSE owner[Mutex(op[u])]
      BY <1>1, <1>2
    <2>5. QED BY <2>2, <2>3, <2>4 DEF Holds
  <1>4. ASSUME NEW u \in Threads
        PROVE  /\ IsRest(op'[u], script[u])
               /\ op'[u] = "none" => script[u] = <<>>
               /\ op'[u] \in OnTx \cup OnRx =>
                    /\ call[u] \in 1..calls
                    /\ script[u] # <<>> => (op'[u] \in SgOps <=> isSg)
                    /\ script[u] # <<>> => (Holds(u)' <=> Now(script[u]) \notin Before(op'[u]))
               /\ op'[u] \in Owning /\ script[u] # <<>> => ~up
               /\ ~up /\ op'[u] # "none" =>
                    op'[u] \in Owning /\ \A v \in Threads : v # u => op'[v] = "none"
    <2>1. CASE u # t  BY <1>1, <1>3, <2>1 DEF Control
    <2>2. CASE u = t
      <3>1. "none" \notin OnTx \cup OnRx /\ "none" \notin Owning
        BY DEF OnTx, OnRx, Sends, Owning
      <3>2. QED BY <1>1, <2>2, <3>1, NothingLeft
    <2>3. QED BY <2>1, <2>2
  <1>5. \A w \in Channels : owner'[w] # Free =>
          op'[owner'[w]] \in OnTx \cup OnRx /\ Mutex(op'[owner'[w]]) = w
    BY <1>1 DEF Control, Typed, TypeOK
  <1>6. QED BY <1>1, <1>4, <1>5 DEF Control

LEMMA OwnControl ==
  ASSUME Typed, Control, NEW t \in Threads, NEW o \in Owning, Own(t, o)
  PROVE  /\ Control' /\ IsRest(o, Script(o))
         /\ Script(o) # <<>> => Now(Script(o)) = Tx("reset")
  <1>1. /\ \A u \in Threads : op[u] = "none"
        /\ up' = FALSE
        /\ op'[t] = o /\ \A u \in Threads : u # t => op'[u] = op[u]
        /\ script'[t] = Script(o) /\ \A u \in Threads : u # t => script'[u] = script[u]
        /\ UNCHANGED <<isSg, call, calls, owner>>
    BY DEF Own, Typed, TypeOK
  <1>2. o \in Ops /\ o \notin OnTx \cup OnRx /\ "none" \notin OnTx \cup OnRx /\ o # "none"
        /\ "none" \notin Owning
    BY DEF Ops, OnTx, OnRx, Sends, Owning
  <1>3. IsRest(o, Script(o)) /\ (Script(o) # <<>> => Now(Script(o)) = Tx("reset"))
    BY <1>2, ScriptIs
  <1>4. \A w \in Channels : owner[w] = Free
    BY <1>1, <1>2 DEF Control, Typed, TypeOK
  <1>5. \A u \in Threads : script[u] = <<>>  BY <1>1 DEF Control
  <1>6. QED BY <1>1, <1>2, <1>3, <1>4, <1>5, NothingLeft DEF Control

LEMMA CallControl ==
  ASSUME Typed, Control, NEW t \in Threads, NEW o \in case.ops, Call(t, o)
  PROVE  /\ Control' /\ o \in OnTx \cup OnRx /\ IsRest(o, Script(o))
         /\ Script(o) # <<>> => Now(Script(o)) \in Before(o)
         /\ o = "Transf" /\ Script(o) # <<>> => Last(Script(o)) = Rx("copyout")
  <1>1. o \in SgOps \cup DirectOps  BY AxiDmaAssumption DEF Typed, TypeOK, Case
  <1>2. o \in Ops /\ o \in OnTx \cup OnRx /\ "none" \notin OnTx \cup OnRx /\ o \notin Owning
        /\ o # "none"
    BY <1>1 DEF SgOps, DirectOps, Ops, OnTx, OnRx, Sends, Owning
  <1>3. /\ IsRest(o, Script(o))
        /\ Script(o) # <<>> => (o \in SgOps <=> isSg) /\ Now(Script(o)) \in Before(o)
        /\ o = "Transf" /\ Script(o) # <<>> => Last(Script(o)) = Rx("copyout")
    BY <1>2, ScriptIs
  <1>4. /\ up /\ op[t] = "none" /\ calls' = calls + 1 /\ calls \in Nat
        /\ op'[t] = o /\ \A u \in Threads : u # t => op'[u] = op[u]
        /\ script'[t] = Script(o) /\ \A u \in Threads : u # t => script'[u] = script[u]
        /\ call'[t] = calls + 1 /\ \A u \in Threads : u # t => call'[u] = call[u]
        /\ UNCHANGED <<isSg, up, owner>>
    BY DEF Call, Typed, TypeOK
  <1>5. owner[Mutex(o)] # t
    <2>1. Mutex(o) \in Channels /\ t # Free  BY AxiDmaAssumption DEF Mutex, Channels
    <2>2. QED BY <1>2, <1>4, <2>1 DEF Control
  <1>6. \A u \in Threads : u # t => (Holds(u)' <=> Holds(u))  BY <1>4 DEF Holds
  <1>7. ~Holds(t)'  BY <1>4, <1>5 DEF Holds
  <1>8. ASSUME NEW u \in Threads
        PROVE  /\ IsRest(op'[u], script'[u])
               /\ op'[u] = "none" => script'[u] = <<>>
               /\ op'[u] \in OnTx \cup OnRx =>
                    /\ call'[u] \in 1..calls'
                    /\ script'[u] # <<>> => (op'[u] \in SgOps <=> isSg)
                    /\ script'[u] # <<>> => (Holds(u)' <=> Now(script'[u]) \notin Before(op'[u]))
               /\ op'[u] \in Owning /\ script'[u] # <<>> => ~up
    <2>1. CASE u # t
      <3>1. op[u] \in OnTx \cup OnRx => call[u] \in 1..calls  BY DEF Control
      <3>2. op[u] \in OnTx \cup OnRx => call[u] \in 1..(calls + 1)  BY <1>4, <3>1
      <3>3. QED BY <1>4, <1>6, <2>1, <3>2 DEF Control
    <2>2. CASE u = t
      <3>1. calls + 1 \in 1..(calls + 1)  BY <1>4
      <3>2. QED BY <1>2, <1>3, <1>4, <1>7, <2>2, <3>1
    <2>3. QED BY <2>1, <2>2
  <1>9. \A w \in Channels : owner[w] # Free =>
          op'[owner[w]] \in OnTx \cup OnRx /\ Mutex(op'[owner[w]]) = w
    <2>1. TAKE w \in Channels
    <2>2. HAVE owner[w] # Free
    <2>3. owner[w] \in Threads /\ op[owner[w]] \in OnTx \cup OnRx /\ Mutex(op[owner[w]]) = w
      BY <2>2 DEF Control, Typed, TypeOK
    <2>4. owner[w] # t  BY <1>2, <1>4, <2>3
    <2>5. QED BY <1>4, <2>3, <2>4
  <1>10. QED BY <1>2, <1>3, <1>4, <1>8, <1>9 DEF Control

LEMMA ControlStep ==
  ASSUME Typed, Control, [Next]_vars
  PROVE  Control'
  <1>1. ASSUME NEW t \in Threads, NEW w \in Channels, Moving(t, w)  PROVE Control'
    BY <1>1, Moves, MoveControl
  <1>2. ASSUME UNCHANGED threads  PROVE Control'
    BY <1>2 DEF threads, Control, Holds
  <1>3. CASE Engine  BY <1>2, <1>3 DEF Engine, Progress
  <1>4. CASE UNCHANGED vars  BY <1>2, <1>4 DEF vars
  <1>5. ASSUME NEW t \in Threads, Stage(t)  PROVE Control'
    BY <1>1, <1>5, LockControl, UpControl, ReturnControl DEF Stage, Moving
  <1>6. ASSUME NEW t \in Threads, Own(t, "run") \/ Own(t, "end")  PROVE Control'
    BY <1>6, OwnControl DEF Owning
  <1>7. ASSUME NEW t \in Threads, NEW o \in case.ops, Call(t, o)  PROVE Control'
    BY <1>7, CallControl
  <1>8. QED BY <1>3, <1>4, <1>5, <1>6, <1>7 DEF Next

(* Only run() and the destructor reset the channels without a mutex.        *)
LEMMA InCall ==
  ASSUME Control, NEW t \in Threads, NEW stage, NEW w, At(t, stage, w),
         stage \notin {"reset", "poll", "up"}
  PROVE  op[t] \in OnTx \cup OnRx /\ call[t] \in 1..calls
  <1>1. /\ script[t] # <<>> /\ Now(script[t]) = <<stage, w>> /\ Now(script[t])[1] = stage
        /\ IsRest(op[t], script[t]) /\ op[t] \in Ops
    BY AtStage
  <1>2. Now(script[t]) = script[t][1]  BY <1>1 DEF Now
  <1>3. Now(script[t]) \in Lasts(op[t]) \/ \E y : <<Now(script[t]), y>> \in Edges(op[t])
    BY <1>1, <1>2, StepOn
  <1>4. op[t] \notin Owning  BY <1>1, <1>3, EdgeOwning
  <1>5. QED BY <1>1, <1>4 DEF Ops, Control

(* The types of what the engine and the callers share.                      *)
ChanType(n) == [run : BOOLEAN, halted : BOOLEAN, failed : BOOLEAN, resetting : BOOLEAN,
                irq : SUBSET {"ioc", "err"}, job : (0..n) \cup {Old}, dst : Places \ {"tx"}]
ChainType(n) == [call : (0..n) \cup {Old}, done : BOOLEAN]

SharedType ==
  /\ chan \in [Channels -> ChanType(calls)]
  /\ chain \in [Channels -> ChainType(calls)]
  /\ arrived \in 0..MaxPackets
  /\ mem \in [Places -> Nat]
  /\ mem["tx"] \in (0..calls) \cup {Old}
  /\ \A p \in Places \ {"tx"} : mem[p] \in 0..arrived
  /\ wire \subseteq [call : (1..calls) \cup {Old}, data : (0..calls) \cup {Old}]
  /\ reported \subseteq 1..calls
  /\ got \subseteq [call : 1..calls, packet : 0..arrived]
  /\ abandoned \subseteq Channels

LEMMA PlacesAre ==
  /\ "tx" \in Channels /\ "rx" \in Channels /\ Channels \subseteq Places
  /\ Threads \subseteq Places \ {"tx"} /\ "rx" \in Places \ {"tx"} /\ "rx" \notin Threads
  /\ "tx" \in Places /\ \A w \in Channels : w # "tx" => w = "rx"
  /\ MaxCalls \in Nat /\ Old \in Nat /\ MaxPackets \in Nat
  BY AxiDmaAssumption DEF Channels, Places, Old

LEMMA TypedIs ==
  Typed <=> /\ SharedType
            /\ case \in Cases /\ isSg \in BOOLEAN /\ up \in BOOLEAN
            /\ op \in [Threads -> case.ops \cup {"none", "run", "end"}]
            /\ calls \in 0..MaxCalls
            /\ call \in [Threads -> 0..calls]
            /\ script \in [Threads -> Seq(Stages \X Channels)]
            /\ seen \in [Threads -> SUBSET {"ioc", "err"}]
            /\ owner \in [Channels -> Threads \cup {Free}]
            /\ \A w \in Channels : owner[w] # Free => op[owner[w]] # "none"
  BY DEF Typed, TypeOK, SharedType, ChanType, ChainType

(* The engine.                                                              *)
LEMMA EngineType ==
  ASSUME Typed, Engine
  PROVE  SharedType'
  <1>1. /\ SharedType /\ calls \in Nat /\ calls' = calls /\ arrived \in Nat
        /\ UNCHANGED <<reported, got, abandoned>>
    BY TypedIs DEF Engine, Progress, threads, history, Typed, TypeOK
  <1> USE DEF SharedType
  <1>2. ASSUME NEW w \in Channels, Starts(w)  PROVE SharedType'
    <2>1. [chan[w] EXCEPT !.halted = FALSE] \in ChanType(calls)  BY <1>1 DEF ChanType
    <2>2. chan' = [chan EXCEPT ![w] = [chan[w] EXCEPT !.halted = FALSE]]  BY <1>1, <1>2 DEF Starts
    <2> HIDE DEF SharedType
    <2>3. chan' \in [Channels -> ChanType(calls)]  BY <1>1, <2>1, <2>2 DEF SharedType
    <2>4. UNCHANGED <<chain, mem, wire, arrived>>  BY <1>2 DEF Starts
    <2>5. QED BY <1>1, <2>3, <2>4 DEF SharedType, ChainType
  <1>3. ASSUME NEW w \in Channels, ResetEnds(w)  PROVE SharedType'
    <2>1. ResetState \in ChanType(calls)
      BY <1>1, PlacesAre DEF ResetState, ChanType, None
    <2>2. chan' = [chan EXCEPT ![w] = ResetState]  BY <1>3 DEF ResetEnds
    <2> HIDE DEF SharedType
    <2>3. chan' \in [Channels -> ChanType(calls)]  BY <1>1, <2>1, <2>2 DEF SharedType
    <2>4. UNCHANGED <<chain, mem, wire, arrived>>  BY <1>3 DEF ResetEnds
    <2>5. QED BY <1>1, <2>3, <2>4 DEF SharedType, ChainType
  <1>4. ASSUME NEW w \in Channels, EngineError(w)  PROVE SharedType'
    <2> DEFINE i == chan[w].irq \cup {"err"}
    <2>1. chan[w] \in ChanType(calls) /\ i \in SUBSET {"ioc", "err"} /\ 0 \in 0..calls
      BY <1>1 DEF ChanType
    <2> HIDE DEF i
    <2> DEFINE c == [chan[w] EXCEPT !.run = FALSE, !.halted = TRUE, !.failed = TRUE,
                                    !.irq = i, !.job = 0]
    <2>2. c \in ChanType(calls)  BY <2>1 DEF ChanType
    <2>3. chan' = [chan EXCEPT ![w] = c]  BY <1>1, <1>4 DEF EngineError, None, i
    <2> HIDE DEF c
    <2>4. chan' \in [Channels -> ChanType(calls)]  BY <1>1, <2>2, <2>3
    <2>5. QED BY <1>1, <1>4, <2>4 DEF EngineError
  <1>5. ASSUME NEW w \in Channels, Finish(w)
        PROVE  chan' \in [Channels -> ChanType(calls)] /\ chain' \in [Channels -> ChainType(calls)]
    <2> DEFINE i == chan[w].irq \cup {"ioc"}
    <2>1. /\ chan[w] \in ChanType(calls) /\ chain[w] \in ChainType(calls)
          /\ i \in SUBSET {"ioc", "err"} /\ 0 \in 0..calls
      BY <1>1 DEF ChanType
    <2> HIDE DEF i
    <2> DEFINE c == [chan[w] EXCEPT !.job = 0, !.irq = i]
    <2>2. c \in ChanType(calls)  BY <2>1 DEF ChanType
    <2>3. [chain[w] EXCEPT !.done = TRUE] \in ChainType(calls)  BY <2>1 DEF ChainType
    <2>4. chan' = [chan EXCEPT ![w] = c]  BY <1>1, <1>5 DEF Finish, None, i
    <2>5. chain' = [chain EXCEPT ![w] = [chain[w] EXCEPT !.done = TRUE]]  BY <1>1, <1>5 DEF Finish
    <2> HIDE DEF c
    <2>6. QED BY <1>1, <2>2, <2>3, <2>4, <2>5
  <1>6. CASE Transmit
    <2>1. chan["tx"].job \in (1..calls) \cup {Old} /\ mem["tx"] \in (0..calls) \cup {Old}
      BY <1>1, <1>6, PlacesAre DEF Transmit, Busy, None, ChanType
    <2>2. wire' \subseteq [call : (1..calls) \cup {Old}, data : (0..calls) \cup {Old}]
      BY <1>1, <1>6, <2>1 DEF Transmit
    <2>3. QED BY <1>1, <1>5, <1>6, <2>2, PlacesAre DEF Transmit
  <1>7. CASE Arrive
    <2>1. UNCHANGED wire /\ Finish("rx")  BY <1>7 DEF Arrive
    <2>2. CASE UNCHANGED <<mem, arrived>>  BY <1>1, <1>5, <2>1, <2>2, PlacesAre
    <2>3. CASE /\ arrived < MaxPackets /\ mem' = [mem EXCEPT ![chan["rx"].dst] = arrived + 1]
               /\ arrived' = arrived + 1
      <3>1. chan["rx"].dst \in Places \ {"tx"}  BY <1>1, PlacesAre DEF ChanType
      <3>2. arrived' \in 0..MaxPackets /\ arrived + 1 \in Nat /\ arrived + 1 \in 0..(arrived + 1)
            /\ 0..arrived \subseteq 0..(arrived + 1)
        BY <1>1, <2>3, PlacesAre
      <3>3. mem' \in [Places -> Nat] /\ mem'["tx"] = mem["tx"]
            /\ \A p \in Places \ {"tx"} : mem'[p] \in 0..(arrived + 1)
        BY <1>1, <2>3, <3>1, <3>2
      <3>4. got' \subseteq [call : 1..calls, packet : 0..(arrived + 1)]
        BY <1>1, <3>2
      <3>5. QED BY <1>1, <1>5, <2>1, <2>3, <3>2, <3>3, <3>4, PlacesAre
    <2>4. QED BY <1>7, <2>2, <2>3 DEF Arrive
  <1>8. QED BY <1>2, <1>3, <1>4, <1>6, <1>7 DEF Engine, Progress

(* The stages that move a thread on.                                        *)
LEMMA MovingType ==
  ASSUME Typed, Control, NEW t \in Threads, NEW w \in Channels, Moving(t, w)
  PROVE  SharedType' /\ seen' \in [Threads -> SUBSET {"ioc", "err"}]
  <1>1. /\ SharedType /\ calls \in Nat /\ calls' = calls /\ arrived \in Nat
        /\ seen \in [Threads -> SUBSET {"ioc", "err"}] /\ call[t] \in 0..calls
        /\ chan[w] \in ChanType(calls) /\ chain[w] \in ChainType(calls)
    BY TypedIs, Moves DEF Typed, TypeOK, SharedType
  <1> DEFINE Goal == SharedType' /\ seen' \in [Threads -> SUBSET {"ioc", "err"}]
  <1> USE DEF SharedType
  <1>2. ASSUME UNCHANGED <<chan, chain, mem, wire, arrived, reported, got, abandoned, seen>>
        PROVE  Goal
    BY <1>1, <1>2
  <1>3. ASSUME NEW c \in ChanType(calls), chan' = [chan EXCEPT ![w] = c],
               UNCHANGED <<chain, mem, wire, arrived, reported, got, abandoned, seen>>
        PROVE  Goal
    BY <1>1, <1>3
  <1>4. CASE InitDescriptors(t, w)
    <2>1. [call |-> call[t], done |-> FALSE] \in ChainType(calls)  BY <1>1 DEF ChainType
    <2>2. chain' \in [Channels -> ChainType(calls)]
      BY <1>1, <1>4, <2>1 DEF InitDescriptors
    <2>3. QED BY <1>1, <1>4, <2>2 DEF InitDescriptors, history
  <1>5. CASE AllocBufferMem(t, w)  BY <1>2, <1>5 DEF AllocBufferMem, engine, history
  <1>6. CASE FillBuffer(t, w)
    <2>1. w \in Places  BY PlacesAre
    <2>2. mem' = [mem EXCEPT ![w] = IF w = "tx" THEN call[t] ELSE 0]  BY <1>6 DEF FillBuffer
    <2>3. mem' \in [Places -> Nat]  BY <1>1, <2>1, <2>2
    <2>4. mem'["tx"] \in (0..calls) \cup {Old}  BY <1>1, <2>2, PlacesAre
    <2>5. \A p \in Places \ {"tx"} : mem'[p] \in 0..arrived  BY <1>1, <2>2
    <2>6. QED BY <1>1, <1>6, <2>3, <2>4, <2>5 DEF FillBuffer, history
  <1>7. CASE Start(t, w)
    <2>1. [chan[w] EXCEPT !.run = TRUE] \in ChanType(calls)  BY <1>1 DEF ChanType
    <2>2. QED BY <1>2, <1>3, <1>7, <2>1 DEF Start, history
  <1>8. CASE CheckHalt(t, w)  BY <1>2, <1>8 DEF CheckHalt, engine, history
  <1>9. CASE SetTailDesc(t, w)
    <2>1. [chan[w] EXCEPT !.job = call[t]] \in ChanType(calls)  BY <1>1 DEF ChanType
    <2>2. QED BY <1>2, <1>3, <1>9, <2>1 DEF SetTailDesc, history
  <1>10. CASE WaitComplete(t, w)
    <2>1. chan[w].irq \in SUBSET {"ioc", "err"}  BY <1>1 DEF ChanType
    <2>2. seen' \in [Threads -> SUBSET {"ioc", "err"}]
      BY <1>1, <1>10, <2>1 DEF WaitComplete
    <2>3. abandoned' \subseteq Channels  BY <1>1, <1>10 DEF WaitComplete, Abandon
    <2>4. QED BY <1>1, <1>10, <2>2, <2>3 DEF WaitComplete, engine
  <1>11. CASE AckIRQ(t, w)
    <2>1. [chan[w] EXCEPT !.irq = @ \ seen[t]] \in ChanType(calls)  BY <1>1 DEF ChanType
    <2>2. QED BY <1>3, <1>11, <2>1 DEF AckIRQ, history
  <1>12. CASE ProcessDescriptors(t, w)
    <2>1. At(t, "process", w)  BY <1>12 DEF ProcessDescriptors
    <2>2. call[t] \in 1..calls  BY <2>1, InCall
    <2>3. chain' \in [Channels -> ChainType(calls)]
      BY <1>1, <1>12 DEF ProcessDescriptors, ChainType
    <2>4. reported' \subseteq 1..calls  BY <1>1, <1>12, <2>2 DEF ProcessDescriptors
    <2>5. QED BY <1>1, <1>12, <2>3, <2>4 DEF ProcessDescriptors
  <1>13. CASE SetLength(t, w)
    <2> DEFINE d == IF op[t] = "DirectManualRecv" THEN t ELSE "rx"
               c == [chan[w] EXCEPT !.job = call[t], !.dst = d]
    <2>1. d \in Places \ {"tx"}  BY PlacesAre
    <2> HIDE DEF d
    <2>2. c \in ChanType(calls)  BY <1>1, <2>1 DEF ChanType
    <2>3. \/ chan' = chan
          \/ chan' = [chan EXCEPT ![w].job = call[t], ![w].dst = d]
      BY <1>13 DEF SetLength, d
    <2>4. \/ chan' = chan
          \/ chan' = [chan EXCEPT ![w] = c]
      BY <1>1, <2>3
    <2> HIDE DEF c
    <2>5. QED BY <1>2, <1>3, <1>13, <2>2, <2>4 DEF SetLength, history
  <1>14. CASE Pending(t, w)
    <2>1. [chan[w] EXCEPT !.irq = {}] \in ChanType(calls)  BY <1>1 DEF ChanType
    <2>2. QED BY <1>3, <1>14, <2>1 DEF Pending, history
  <1>15. CASE WaitDirectComplete(t, w)
    <2>1. abandoned' \subseteq Channels  BY <1>1, <1>15 DEF WaitDirectComplete, Abandon
    <2>2. QED BY <1>1, <1>15, <2>1 DEF WaitDirectComplete, engine
  <1>16. CASE ReturnTxLength(t, w)
    <2>1. At(t, "sent", w)  BY <1>16 DEF ReturnTxLength
    <2>2. call[t] \in 1..calls  BY <2>1, InCall
    <2>3. reported' \subseteq 1..calls  BY <1>1, <1>16, <2>2 DEF ReturnTxLength
    <2>4. QED BY <1>1, <1>16, <2>3 DEF ReturnTxLength, engine
  <1>17. CASE Reset(t, w)
    <2>1. \A v \in Channels : [chan[v] EXCEPT !.resetting = TRUE] \in ChanType(calls)
      BY <1>1 DEF ChanType
    <2>2. chan' \in [Channels -> ChanType(calls)]  BY <1>1, <1>17, <2>1 DEF Reset
    <2>3. QED BY <1>1, <1>17, <2>2 DEF Reset, history
  <1>18. CASE PollReset(t, w)  BY <1>2, <1>18 DEF PollReset, engine, history
  <1>19. CASE CopyOut(t, w)
    <2> DEFINE p == IF op[t] = "DirectManualRecv" THEN t ELSE "rx"
    <2>1. At(t, "copyout", w)  BY <1>19 DEF CopyOut
    <2>2. call[t] \in 1..calls  BY <2>1, InCall
    <2>3. p \in Places \ {"tx"}  BY PlacesAre
    <2>4. mem[p] \in 0..arrived  BY <1>1, <2>3
    <2>5. got' = got \cup {[call |-> call[t], packet |-> mem[p]]}  BY <1>19 DEF CopyOut
    <2> HIDE DEF p
    <2>6. got' \subseteq [call : 1..calls, packet : 0..arrived]  BY <1>1, <2>2, <2>4, <2>5
    <2>7. QED BY <1>1, <1>19, <2>6 DEF CopyOut, engine
  <1>20. QED BY <1>4, <1>5, <1>6, <1>7, <1>8, <1>9, <1>10, <1>11, <1>12, <1>13, <1>14, <1>15,
                <1>16, <1>17, <1>18, <1>19 DEF Moving

LEMMA TypeStep ==
  ASSUME Typed, Control, [Next]_vars
  PROVE  Typed'
  <1>1. Control'  BY ControlStep
  <1>2. calls \in Nat /\ SharedType  BY TypedIs DEF Typed, TypeOK
  <1>3. Typed' <=>
          /\ SharedType'
          /\ case' \in Cases /\ isSg' \in BOOLEAN /\ up' \in BOOLEAN
          /\ op' \in [Threads -> case'.ops \cup {"none", "run", "end"}]
          /\ calls' \in 0..MaxCalls
          /\ call' \in [Threads -> 0..calls']
          /\ script' \in [Threads -> Seq(Stages \X Channels)]
          /\ seen' \in [Threads -> SUBSET {"ioc", "err"}]
          /\ owner' \in [Channels -> Threads \cup {Free}]
          /\ \A w \in Channels : owner'[w] # Free => op'[owner'[w]] # "none"
    BY DEF Typed, TypeOK, SharedType, ChanType, ChainType
  <1>4. script' \in [Threads -> Seq(Stages \X Channels)] =>
          (Typed' <=>
             /\ SharedType'
             /\ case' \in Cases /\ isSg' \in BOOLEAN /\ up' \in BOOLEAN
             /\ op' \in [Threads -> case'.ops \cup {"none", "run", "end"}]
             /\ calls' \in 0..MaxCalls
             /\ call' \in [Threads -> 0..calls']
             /\ seen' \in [Threads -> SUBSET {"ioc", "err"}]
             /\ owner' \in [Channels -> Threads \cup {Free}])
    <2>1. "none" \notin OnTx \cup OnRx  BY DEF OnTx, OnRx, Sends
    <2>2. \A w \in Channels : owner'[w] # Free => op'[owner'[w]] # "none"
      BY <1>1, <2>1 DEF Control
    <2>3. QED BY <1>3, <2>2
  <1>5. ASSUME NEW t \in Threads, NEW r, IsRest(op'[t], r)
        PROVE  [script EXCEPT ![t] = r] \in [Threads -> Seq(Stages \X Channels)]
    <2>1. script \in [Threads -> Seq(Stages \X Channels)]  BY TypedIs
    <2>2. QED BY <1>5, <2>1 DEF IsRest
  <1>6. ASSUME UNCHANGED <<chan, chain, mem, wire, arrived, reported, got, abandoned, calls>>
        PROVE  SharedType'
    BY <1>2, <1>6 DEF SharedType, ChanType, ChainType
  <1>7. /\ case \in Cases /\ isSg \in BOOLEAN /\ up \in BOOLEAN
        /\ op \in [Threads -> case.ops \cup {"none", "run", "end"}]
        /\ calls \in 0..MaxCalls
        /\ call \in [Threads -> 0..calls]
        /\ script \in [Threads -> Seq(Stages \X Channels)]
        /\ seen \in [Threads -> SUBSET {"ioc", "err"}]
        /\ owner \in [Channels -> Threads \cup {Free}]
    BY TypedIs
  <1>8. CASE Engine
    <2>1. UNCHANGED threads  BY <1>8 DEF Engine, Progress
    <2>2. SharedType'  BY <1>8, EngineType
    <2>3. QED BY <1>4, <1>7, <2>1, <2>2 DEF threads
  <1>9. CASE UNCHANGED vars
    <2>1. SharedType'  BY <1>6, <1>9 DEF vars, threads, engine, history
    <2>2. QED BY <1>4, <1>7, <1>9, <2>1 DEF vars, threads
  <1>10. ASSUME NEW t \in Threads, NEW w \in Channels, Moving(t, w)
         PROVE  Typed'
    <2>1. UNCHANGED <<case, isSg, up, op, call, calls, owner>>  BY <1>10, Moves
    <2>2. PICK r : script' = [script EXCEPT ![t] = r]  BY <1>10, Moves
    <2>3. IsRest(op'[t], r)  BY <1>1, <1>7, <2>2 DEF Control
    <2>4. SharedType' /\ seen' \in [Threads -> SUBSET {"ioc", "err"}]  BY <1>10, MovingType
    <2>5. QED BY <1>4, <1>5, <1>7, <2>1, <2>2, <2>3, <2>4
  <1>11. ASSUME NEW t \in Threads, NEW w \in Channels, Lock(t, w) \/ SetUp(t, w)
         PROVE  Typed'
    <2>1. script' = [script EXCEPT ![t] = Tail(script[t])]  BY <1>11 DEF Lock, SetUp, Advance
    <2>2. IsRest(op'[t], Tail(script[t]))  BY <1>1, <1>7, <2>1 DEF Control
    <2>3. SharedType'  BY <1>6, <1>11 DEF Lock, SetUp, engine, history
    <2>4. QED BY <1>4, <1>5, <1>7, <1>11, <2>1, <2>2, <2>3 DEF Lock, SetUp
  <1>12. ASSUME NEW t \in Threads, Return(t)
         PROVE  Typed'
    <2>1. SharedType'  BY <1>6, <1>12 DEF Return, engine, history
    <2>2. QED BY <1>4, <1>7, <1>12, <2>1 DEF Return
  <1>13. ASSUME NEW t \in Threads, NEW o \in Owning, Own(t, o)
         PROVE  Typed'
    <2>1. script' = [script EXCEPT ![t] = Script(o)] /\ op' = [op EXCEPT ![t] = o]
      BY <1>13 DEF Own
    <2>2. IsRest(op'[t], Script(o))  BY <1>13, <1>7, <2>1, OwnControl
    <2>3. SharedType'  BY <1>6, <1>13 DEF Own, engine, history
    <2>4. op' \in [Threads -> case.ops \cup {"none", "run", "end"}]
      BY <1>7, <2>1 DEF Owning
    <2>5. UNCHANGED <<case, isSg, call, seen, calls, owner>> /\ up' = FALSE  BY <1>13 DEF Own
    <2>6. script' \in [Threads -> Seq(Stages \X Channels)]  BY <1>5, <2>1, <2>2
    <2>7. QED BY <1>4, <1>7, <2>3, <2>4, <2>5, <2>6
  <1>14. ASSUME NEW t \in Threads, NEW o \in case.ops, Call(t, o)
         PROVE  Typed'
    <2>1. /\ script' = [script EXCEPT ![t] = Script(o)] /\ op' = [op EXCEPT ![t] = o]
          /\ calls' = calls + 1 /\ call' = [call EXCEPT ![t] = calls + 1]
          /\ calls < case.depth
          /\ UNCHANGED <<case, isSg, up, seen, owner, chan, chain, wire, arrived, history>>
      BY <1>14 DEF Call
    <2>2. IsRest(op'[t], Script(o))  BY <1>14, <1>7, <2>1, CallControl
    <2>3. calls' \in 0..MaxCalls /\ 0..calls \subseteq 0..calls' /\ 1..calls \subseteq 1..calls'
          /\ calls + 1 \in 0..calls'
      <3>1. case.depth \in 0..MaxCalls  BY <1>7, AxiDmaAssumption DEF Case
      <3>2. QED BY <1>2, <2>1, <3>1, PlacesAre
    <2>4. SharedType'
      <3>1. mem' \in [Places -> Nat] /\ mem'["tx"] = mem["tx"]
            /\ \A p \in Places \ {"tx"} : mem'[p] \in 0..arrived
        BY <1>2, <1>14, PlacesAre DEF Call, SharedType, None
      <3>2. ChanType(calls) \subseteq ChanType(calls') /\ ChainType(calls) \subseteq ChainType(calls')
        BY <2>3 DEF ChanType, ChainType
      <3>3. chan' \in [Channels -> ChanType(calls')] /\ chain' \in [Channels -> ChainType(calls')]
        BY <1>2, <2>1, <3>2 DEF SharedType
      <3>4. /\ wire' \subseteq [call : (1..calls') \cup {Old}, data : (0..calls') \cup {Old}]
            /\ reported' \subseteq 1..calls'
            /\ got' \subseteq [call : 1..calls', packet : 0..arrived']
            /\ abandoned' \subseteq Channels
        BY <1>2, <2>1, <2>3 DEF SharedType, history
      <3>5. QED BY <1>2, <2>1, <2>3, <3>1, <3>3, <3>4 DEF SharedType, ChanType, ChainType
    <2>5. op' \in [Threads -> case.ops \cup {"none", "run", "end"}] /\ call' \in [Threads -> 0..calls']
      BY <1>7, <1>14, <2>1, <2>3
    <2>6. QED BY <1>4, <1>5, <1>7, <2>1, <2>2, <2>3, <2>4, <2>5
  <1>15. ASSUME NEW t \in Threads, Stage(t)  PROVE Typed'
    BY <1>10, <1>11, <1>12, <1>15 DEF Stage, Moving
  <1>16. ASSUME NEW t \in Threads, Own(t, "run") \/ Own(t, "end")  PROVE Typed'
    BY <1>13, <1>16 DEF Owning
  <1>17. QED BY <1>8, <1>9, <1>14, <1>15, <1>16 DEF Next

LEMMA InitTyped ==
  ASSUME Init
  PROVE  Typed /\ Control
  <1>1. Leftover \subseteq ChanType(0)
    <2>1. ResetState \in ChanType(0)  BY PlacesAre DEF ResetState, ChanType, None
    <2>2. /\ {"err"} \in SUBSET {"ioc", "err"} /\ {} \in SUBSET {"ioc", "err"}
          /\ {"ioc"} \in SUBSET {"ioc", "err"}
          /\ 0 \in (0..0) \cup {Old} /\ Old \in (0..0) \cup {Old} /\ "rx" \in Places \ {"tx"}
      BY PlacesAre
    <2>3. [ResetState EXCEPT !.failed = TRUE, !.irq = {"err"}] \in ChanType(0)
      BY <2>1, <2>2 DEF ChanType
    <2>4. [run : {TRUE}, halted : {FALSE}, failed : {FALSE}, resetting : {FALSE},
           irq : {{}, {"ioc"}}, job : {None, Old}, dst : {"rx"}] \subseteq ChanType(0)
      BY <2>2 DEF ChanType, None
    <2>5. QED BY <2>1, <2>3, <2>4 DEF Leftover
  <1>2. SharedType
    <2>1. chan \in [Channels -> ChanType(0)]  BY <1>1 DEF Init
    <2>2. chain \in [Channels -> ChainType(0)]  BY DEF Init, ChainType
    <2>3. /\ mem \in [Places -> Nat] /\ mem["tx"] = Old
          /\ \A p \in Places \ {"tx"} : mem[p] = 0
      BY PlacesAre DEF Init, None
    <2>4. /\ wire = {} /\ reported = {} /\ got = {} /\ abandoned = {} /\ arrived = 0 /\ calls = 0
      BY DEF Init
    <2>5. QED BY <2>1, <2>2, <2>3, <2>4, PlacesAre DEF SharedType
  <1>3. Typed
    <2>1. <<>> \in Seq(Stages \X Channels)  OBVIOUS
    <2>2. script \in [Threads -> Seq(Stages \X Channels)]  BY <2>1 DEF Init
    <2>3. case \in Cases /\ isSg \in BOOLEAN /\ up \in BOOLEAN /\ calls \in 0..MaxCalls
      <3>1. case \in Cases /\ isSg \in BOOLEAN /\ up = FALSE  BY Zenon DEF Init
      <3>2. calls \in 0..MaxCalls  BY PlacesAre DEF Init
      <3>3. QED BY <3>1, <3>2
    <2>4. /\ op \in [Threads -> case.ops \cup {"none", "run", "end"}]
          /\ call \in [Threads -> 0..calls]
          /\ seen \in [Threads -> SUBSET {"ioc", "err"}]
      BY DEF Init
    <2>5. /\ owner \in [Channels -> Threads \cup {Free}]
          /\ \A w \in Channels : owner[w] = Free
      BY DEF Init
    <2>6. QED BY <1>2, <2>2, <2>3, <2>4, <2>5, TypedIs
  <1>4. "none" \notin OnTx \cup OnRx /\ "none" \notin Owning
    BY DEF OnTx, OnRx, Sends, Owning
  <1>5. Control  BY <1>4, NothingLeft DEF Init, Control
  <1>6. QED BY <1>3, <1>5

(* Every state has its types, and every thread in a call holds the mutex of *)
(* that call from its lock_guard on (AxiDMA.cpp:63, 133, 205, 277).         *)
THEOREM TypeCorrect == Spec => []TypeOK
  <1> DEFINE Inv == Typed /\ Control
  <1>1. Init => Inv  BY InitTyped
  <1>2. Inv /\ [Next]_vars => Inv'  BY TypeStep, ControlStep
  <1>3. Inv => TypeOK  BY DEF Typed
  <1>4. QED BY <1>1, <1>2, <1>3, PTL DEF Spec

-------------------------------------------------------------------------------
(* The stages of a call, one after another.                                 *)

(* A stage of a call is on a channel of that call, and in its mode.         *)
StageOf(o, x) == x \in Lasts(o) \/ \E y : <<x, y>> \in Edges(o)

LEMMA StageIs ==
  ASSUME NEW o \in OnTx \cup OnRx, NEW stage, NEW w \in Channels, StageOf(o, <<stage, w>>)
  PROVE  /\ Mutex(o) = w \/ o = "Transf"
         /\ stage \in {"length", "idle", "pending", "sent"} => o \in DirectOps
         /\ stage \in {"chain", "tail", "process", "reset", "poll"} => o \in SgOps
         /\ stage = "sent" => o = "DirectSend"
         /\ stage \in {"pending", "length", "idle"} /\ w = "rx"
              => o \in {"DirectRecv", "DirectManualRecv"}
         /\ stage \notin {"lock", "alloc"} => <<stage, w>> \notin Before(o)
  <1>1. CASE o \in Sends
    BY <1>1 DEF StageOf, Lasts, Edges, Owning, Before, Mutex, OnTx, SgOps, DirectOps, Sends, Tx, Rx
  <1>2. CASE o = "Transf"
    BY <1>2 DEF StageOf, Lasts, Edges, Owning, Before, Mutex, OnTx, SgOps, DirectOps, Sends, Tx, Rx
  <1>3. CASE o = "DirectSend"
    BY <1>3 DEF StageOf, Lasts, Edges, Owning, Before, Mutex, OnTx, SgOps, DirectOps, Sends, Tx, Rx
  <1>4. CASE o = "Recv"
    BY <1>4 DEF StageOf, Lasts, Edges, Owning, Before, Mutex, OnTx, SgOps, DirectOps, Sends, Tx, Rx
  <1>5. CASE o \in {"DirectRecv", "DirectManualRecv"}
    BY <1>5 DEF StageOf, Lasts, Edges, Owning, Before, Mutex, OnTx, SgOps, DirectOps, Sends, Tx, Rx
  <1>6. QED BY <1>1, <1>2, <1>3, <1>4, <1>5 DEF OnTx, OnRx

LEMMA EdgeFly ==
  ASSUME NEW o \in OnTx \cup OnRx, NEW x, NEW y, <<x, y>> \in Edges(o), NEW w \in Channels
  PROVE  /\ WaitingAt(o, y, w) => WaitingAt(o, x, w) \/ x \in {<<"tail", w>>, <<"length", w>>}
         /\ FlyingAt(o, x, w) => FlyingAt(o, y, w) \/ x \in {<<"ack", w>>, <<"reset", w>>}
         /\ x \in {<<"tail", w>>, <<"length", w>>} => FlyingAt(o, y, w) /\ ~FlyingAt(o, x, w)
         /\ y = <<"ack", w>> => x = <<"wait", w>>
         /\ y = <<"idle", w>> => x = <<"length", w>>
         /\ y = <<"length", w>> => x = <<"check", w>> \/ (x = <<"fill", w>> /\ o = "DirectSend")
         /\ o = "DirectSend" /\ y = <<"fill", w>> => x = <<"check", w>>
         /\ x[1] = "lock" => y[1] \in {"chain", "alloc", "pending"}
         /\ y[1] = "length" => o \in DirectOps
  <1>0. w = "tx" \/ w = "rx"  BY DEF Channels
  <1>1. CASE o \in Sends
    BY <1>0, <1>1 DEF WaitingAt, FlyingAt, Edges, Owning, Sends, DirectOps, Tx, Rx
  <1>2. CASE o = "Transf"
    BY <1>0, <1>2 DEF WaitingAt, FlyingAt, Edges, Owning, Sends, DirectOps, Tx, Rx
  <1>3. CASE o = "DirectSend"
    BY <1>0, <1>3 DEF WaitingAt, FlyingAt, Edges, Owning, Sends, DirectOps, Tx, Rx
  <1>4. CASE o = "Recv"
    BY <1>0, <1>4 DEF WaitingAt, FlyingAt, Edges, Owning, Sends, DirectOps, Tx, Rx
  <1>5. CASE o \in {"DirectRecv", "DirectManualRecv"}
    BY <1>0, <1>5 DEF WaitingAt, FlyingAt, Edges, Owning, Sends, DirectOps, Tx, Rx
  <1>6. QED BY <1>1, <1>2, <1>3, <1>4, <1>5 DEF OnTx, OnRx

LEMMA LastFly ==
  ASSUME NEW o \in OnTx \cup OnRx, NEW x \in Lasts(o), NEW w \in Channels
  PROVE  ~FlyingAt(o, x, w) /\ ~WaitingAt(o, x, w)
  BY DEF WaitingAt, FlyingAt, Lasts, OnTx, OnRx, Sends, Channels, Tx, Rx

-------------------------------------------------------------------------------
(* The thread that moves, and the others.                                   *)

LEMMA Advanced ==
  ASSUME Typed, Control, NEW t \in Threads, NEW stage, NEW w, At(t, stage, w), Advance(t)
  PROVE  \/ script'[t] = <<>> /\ <<stage, w>> \in Lasts(op[t])
         \/ /\ script'[t] # <<>> /\ <<<<stage, w>>, Now(script'[t])>> \in Edges(op[t])
            /\ Last(script'[t]) = Last(script[t])
  <1>1. script[t] # <<>> /\ Now(script[t]) = <<stage, w>> /\ IsRest(op[t], script[t])
    BY AtStage
  <1>2. script'[t] = Tail(script[t])  BY DEF Advance, Typed, TypeOK
  <1>3. Now(script[t]) = script[t][1]  BY <1>1 DEF Now
  <1>4. QED BY <1>1, <1>2, <1>3, StepOn

LEMMA Failed ==
  ASSUME Typed, NEW t \in Threads, NEW stage, Fail(t, stage)
  PROVE  \/ script'[t] = <<>>
         \/ /\ script'[t] # <<>> /\ Now(script'[t]) = Tx("reset")
            /\ stage \in {"ack", "process"} /\ op[t] \in {"Send_repeat", "Transf"}
            /\ op[t] = "Transf" => Last(script'[t]) = Rx("poll")
  <1>1. script'[t] = CleanUp(op[t], stage)  BY DEF Fail, Typed, TypeOK
  <1>2. QED BY <1>1, CleanUpIs

(* A thread that has come to a stage behind its mutex works on the channel. *)
LEMMA Works ==
  ASSUME Control, NEW t \in Threads, NEW stage, NEW w, At(t, stage, w),
         stage \notin {"lock", "alloc"}, op[t] \in OnTx \cup OnRx
  PROVE  Uses(t, w) /\ up /\ (isSg <=> op[t] \in SgOps) /\ StageOf(op[t], <<stage, w>>)
  <1>1. /\ script[t] # <<>> /\ Now(script[t]) = <<stage, w>> /\ IsRest(op[t], script[t])
        /\ w \in Channels
    BY AtStage
  <1>2. StageOf(op[t], <<stage, w>>)
    <2>1. Now(script[t]) = script[t][1]  BY <1>1 DEF Now
    <2>2. QED BY <1>1, <2>1, StepOn DEF StageOf
  <1>3. (Mutex(op[t]) = w \/ op[t] = "Transf") /\ <<stage, w>> \notin Before(op[t])
    BY <1>1, <1>2, StageIs
  <1>4. Holds(t) /\ (isSg <=> op[t] \in SgOps)  BY <1>1, <1>3 DEF Control
  <1>5. up  BY DEF Control, OnTx, OnRx, Sends, Owning
  <1>6. QED BY <1>1, <1>2, <1>3, <1>4, <1>5 DEF Uses

(* One thread works on a channel.                                           *)
LEMMA Unique ==
  ASSUME Typed, Control, NEW t \in Threads, NEW u \in Threads, NEW w \in Channels,
         Uses(t, w), Uses(u, w), w = "rx" => Separate
  PROVE  t = u
  <1>1. CASE Mutex(op[t]) = Mutex(op[u])  BY <1>1 DEF Uses, Holds
  <1>2. ASSUME NEW a \in Threads, NEW b \in Threads, Uses(a, w), Uses(b, w),
               op[a] = "Transf", Mutex(op[b]) = w, Mutex(op[a]) # Mutex(op[b])
        PROVE  FALSE
    <2>1. Mutex(op[a]) = "tx" /\ w = "rx"  BY <1>2 DEF Mutex, OnTx, Channels
    <2>2. isSg  BY <1>2 DEF Control, Uses, SgOps
    <2>3. op[b] \in OnRx /\ op[b] \in SgOps
      BY <1>2, <2>1, <2>2 DEF Control, Uses, Mutex
    <2>4. op[b] = "Recv"  BY <2>3 DEF OnRx, SgOps
    <2>5. "Transf" \in case.ops /\ "Recv" \in case.ops
      BY <1>2, <2>4 DEF Typed, TypeOK
    <2>6. QED BY <2>1, <2>2, <2>5 DEF Separate
  <1>3. CASE Mutex(op[t]) # Mutex(op[u])
    <2>1. \/ op[t] = "Transf" /\ Mutex(op[u]) = w
          \/ op[u] = "Transf" /\ Mutex(op[t]) = w
      BY <1>3 DEF Uses
    <2>2. QED BY <1>2, <1>3, <2>1
  <1>4. QED BY <1>1, <1>3

(* What does not change.                                                    *)
LEMMA Others ==
  ASSUME Typed, NEW t \in Threads, NEW w \in Channels, Moving(t, w)
  PROVE  /\ UNCHANGED <<case, isSg, up, op, call, calls, owner>>
         /\ abandoned \subseteq abandoned'
         /\ \A u \in Threads : u # t => /\ script'[u] = script[u] /\ seen'[u] = seen[u]
                                        /\ \A v \in Channels : Uses(u, v)' <=> Uses(u, v)
         /\ \A v \in Channels : Uses(t, v) /\ script'[t] # <<>> => Uses(t, v)'
         /\ \A v \in Channels : Uses(t, v)' => Uses(t, v)
         /\ \A v \in Channels : Fine(v)' => Fine(v)
  <1>1. UNCHANGED <<case, isSg, up, op, call, calls, owner>>  BY Moves
  <1>2. \A u \in Threads : u # t => script'[u] = script[u]
    <2>1. PICK r : script' = [script EXCEPT ![t] = r]  BY Moves
    <2>2. QED BY <2>1 DEF Typed, TypeOK
  <1>3. script[t] # <<>>  BY Moves DEF At
  <1>4. \A u \in Threads : u # t => seen'[u] = seen[u]
    <2>1. CASE WaitComplete(t, w)  BY <2>1 DEF WaitComplete, Typed, TypeOK
    <2>2. CASE ~WaitComplete(t, w)
      <3>1. UNCHANGED seen
        BY <2>2 DEF Moving, InitDescriptors, AllocBufferMem, FillBuffer, Start, CheckHalt,
                    SetTailDesc, AckIRQ, ProcessDescriptors, SetLength, Pending,
                    WaitDirectComplete, ReturnTxLength, Reset, PollReset, CopyOut
      <3>2. QED BY <3>1
    <2>3. QED BY <2>1, <2>2
  <1>5. abandoned \subseteq abandoned'
    BY DEF Moving, InitDescriptors, AllocBufferMem, FillBuffer, Start, CheckHalt,
           SetTailDesc, AckIRQ, ProcessDescriptors, SetLength, Pending, WaitComplete, Abandon,
           WaitDirectComplete, ReturnTxLength, Reset, PollReset, CopyOut, history
  <1>6. QED BY <1>1, <1>2, <1>3, <1>4, <1>5 DEF Uses, Holds, Fine, Separate

(* What a move of t writes to the registers of a channel.                   *)
Written(t, w, v) ==
  LET c == chan[v] IN
  \/ chan'[v] = c
  \/ v = w /\ At(t, "start", w) /\ chan'[v] = [c EXCEPT !.run = TRUE]
  \/ /\ v = w /\ At(t, "tail", w) /\ ~c.halted /\ ~c.resetting
     /\ chan'[v] = [c EXCEPT !.job = call[t]]
  \/ /\ v = w /\ At(t, "length", w) /\ ~c.halted /\ ~c.resetting
     /\ chan'[v] = [c EXCEPT !.job = call[t], !.dst = Target(t)]
  \/ v = w /\ At(t, "ack", w) /\ chan'[v] = [c EXCEPT !.irq = c.irq \ seen[t]]
  \/ v = w /\ At(t, "pending", w) /\ chan'[v] = [c EXCEPT !.irq = {}]
  \/ /\ At(t, "reset", w) /\ (v = w \/ case.sharedReset)
     /\ chan'[v] = [c EXCEPT !.resetting = TRUE]

LEMMA Writes ==
  ASSUME Typed, NEW t \in Threads, NEW w \in Channels, Moving(t, w), NEW v \in Channels
  PROVE  /\ Written(t, w, v)
         /\ At(t, "ack", w) => chan'[w] = [chan[w] EXCEPT !.irq = chan[w].irq \ seen[t]]
         /\ At(t, "pending", w) => chan'[w] = [chan[w] EXCEPT !.irq = {}]
         /\ At(t, "reset", w) => chan'[w] = [chan[w] EXCEPT !.resetting = TRUE]
         /\ At(t, "tail", w) \/ At(t, "length", w) =>
              IF chan[w].halted \/ chan[w].resetting THEN chan'[w] = chan[w]
              ELSE chan'[w].job = call[t] /\ (At(t, "length", w) => chan'[w].dst = Target(t))
  <1>1. chan \in [Channels -> ChanType(calls)]  BY TypedIs DEF SharedType
  <1>2. ASSUME NEW a, NEW b, At(t, a, w), At(t, b, w)  PROVE a = b
    BY <1>2 DEF At
  <1> DEFINE Goal == /\ Written(t, w, v)
                     /\ At(t, "ack", w) => chan'[w] = [chan[w] EXCEPT !.irq = chan[w].irq \ seen[t]]
                     /\ At(t, "pending", w) => chan'[w] = [chan[w] EXCEPT !.irq = {}]
                     /\ At(t, "reset", w) => chan'[w] = [chan[w] EXCEPT !.resetting = TRUE]
                     /\ At(t, "tail", w) \/ At(t, "length", w) =>
                          IF chan[w].halted \/ chan[w].resetting THEN chan'[w] = chan[w]
                          ELSE /\ chan'[w].job = call[t]
                               /\ At(t, "length", w) => chan'[w].dst = Target(t)
  <1>3. ASSUME NEW a, At(t, a, w), a \notin {"ack", "pending", "reset", "tail", "length"},
               UNCHANGED chan
        PROVE  Goal
    BY <1>2, <1>3 DEF Written
  <1>4. CASE InitDescriptors(t, w)  BY <1>3, <1>4 DEF InitDescriptors
  <1>5. CASE AllocBufferMem(t, w)  BY <1>3, <1>5 DEF AllocBufferMem, engine
  <1>6. CASE FillBuffer(t, w)  BY <1>3, <1>6 DEF FillBuffer
  <1>7. CASE Start(t, w)
    <2>1. At(t, "start", w)  BY <1>7 DEF Start
    <2>2. ~At(t, "ack", w) /\ ~At(t, "pending", w) /\ ~At(t, "reset", w) /\ ~At(t, "tail", w)
          /\ ~At(t, "length", w)
      BY <1>2, <2>1
    <2>3. chan'[v] = chan[v] \/ (v = w /\ chan'[v] = [chan[v] EXCEPT !.run = TRUE])
      BY <1>1, <1>7 DEF Start
    <2>4. QED BY <2>1, <2>2, <2>3 DEF Written
  <1>8. CASE CheckHalt(t, w)  BY <1>3, <1>8 DEF CheckHalt, engine
  <1>9. CASE SetTailDesc(t, w)
    <2>1. At(t, "tail", w)  BY <1>9 DEF SetTailDesc
    <2>2. ~At(t, "ack", w) /\ ~At(t, "pending", w) /\ ~At(t, "reset", w) /\ ~At(t, "length", w)
      BY <1>2, <2>1
    <2>3. CASE chan[w].halted \/ chan[w].resetting
      BY <1>9, <2>1, <2>2, <2>3 DEF SetTailDesc, Written
    <2>4. CASE ~chan[w].halted /\ ~chan[w].resetting
      <3>1. chan' = [chan EXCEPT ![w].job = call[t]]  BY <1>9, <2>4 DEF SetTailDesc
      <3>2. chan'[w] = [chan[w] EXCEPT !.job = call[t]] /\ (v # w => chan'[v] = chan[v])
        BY <1>1, <3>1
      <3>3. chan'[w].job = call[t]  BY <1>1, <3>2 DEF ChanType
      <3>4. QED BY <2>1, <2>2, <2>4, <3>2, <3>3 DEF Written
    <2>5. QED BY <2>3, <2>4
  <1>10. CASE WaitComplete(t, w)  BY <1>3, <1>10 DEF WaitComplete, engine
  <1>11. CASE AckIRQ(t, w)
    <2>1. At(t, "ack", w)  BY <1>11 DEF AckIRQ
    <2>2. ~At(t, "pending", w) /\ ~At(t, "reset", w) /\ ~At(t, "tail", w) /\ ~At(t, "length", w)
      BY <1>2, <2>1
    <2>3. /\ chan'[w] = [chan[w] EXCEPT !.irq = chan[w].irq \ seen[t]]
          /\ v # w => chan'[v] = chan[v]
      BY <1>1, <1>11 DEF AckIRQ
    <2>4. QED BY <2>1, <2>2, <2>3 DEF Written
  <1>12. CASE ProcessDescriptors(t, w)  BY <1>3, <1>12 DEF ProcessDescriptors
  <1>13. CASE SetLength(t, w)
    <2>1. At(t, "length", w)  BY <1>13 DEF SetLength
    <2>2. ~At(t, "ack", w) /\ ~At(t, "pending", w) /\ ~At(t, "reset", w)  BY <1>2, <2>1
    <2>3. CASE chan[w].halted \/ chan[w].resetting
      BY <1>13, <2>1, <2>2, <2>3 DEF SetLength, Written
    <2>4. CASE ~chan[w].halted /\ ~chan[w].resetting
      <3>1. chan' = [chan EXCEPT ![w].job = call[t], ![w].dst = Target(t)]
        BY <1>13, <2>4 DEF SetLength, Target
      <3>2. /\ chan'[w] = [chan[w] EXCEPT !.job = call[t], !.dst = Target(t)]
            /\ v # w => chan'[v] = chan[v]
        BY <1>1, <3>1
      <3>3. chan'[w].job = call[t] /\ chan'[w].dst = Target(t)  BY <1>1, <3>2 DEF ChanType
      <3>4. QED BY <2>1, <2>2, <2>4, <3>2, <3>3 DEF Written
    <2>5. QED BY <2>3, <2>4
  <1>14. CASE Pending(t, w)
    <2>1. At(t, "pending", w)  BY <1>14 DEF Pending
    <2>2. ~At(t, "ack", w) /\ ~At(t, "reset", w) /\ ~At(t, "tail", w) /\ ~At(t, "length", w)
      BY <1>2, <2>1
    <2>3. chan'[w] = [chan[w] EXCEPT !.irq = {}] /\ (v # w => chan'[v] = chan[v])
      BY <1>1, <1>14 DEF Pending
    <2>4. QED BY <2>1, <2>2, <2>3 DEF Written
  <1>15. CASE WaitDirectComplete(t, w)  BY <1>3, <1>15 DEF WaitDirectComplete, engine
  <1>16. CASE ReturnTxLength(t, w)  BY <1>3, <1>16 DEF ReturnTxLength, engine
  <1>17. CASE Reset(t, w)
    <2>1. At(t, "reset", w)  BY <1>17 DEF Reset
    <2>2. ~At(t, "ack", w) /\ ~At(t, "pending", w) /\ ~At(t, "tail", w) /\ ~At(t, "length", w)
      BY <1>2, <2>1
    <2>3. /\ chan'[v] = IF v = w \/ case.sharedReset
                        THEN [chan[v] EXCEPT !.resetting = TRUE] ELSE chan[v]
          /\ chan'[w] = [chan[w] EXCEPT !.resetting = TRUE]
      BY <1>17 DEF Reset
    <2>4. QED BY <2>1, <2>2, <2>3 DEF Written
  <1>18. CASE PollReset(t, w)  BY <1>3, <1>18 DEF PollReset, engine
  <1>19. CASE CopyOut(t, w)  BY <1>3, <1>19 DEF CopyOut, engine
  <1>20. Goal
    BY <1>4, <1>5, <1>6, <1>7, <1>8, <1>9, <1>10, <1>11, <1>12, <1>13, <1>14, <1>15, <1>16,
       <1>17, <1>18, <1>19 DEF Moving
  <1>21. QED BY <1>20

(* A thread whose transfer is under way goes on with it, ends it, resets    *)
(* the channel or gives it up when nothing is under way any more.           *)
LEMMA Lands ==
  ASSUME Typed, Control, NEW t \in Threads, NEW w \in Channels, Moving(t, w),
         NEW v \in Channels, Uses(t, v), Flying(t, v), Fine(v)'
  PROVE  \/ Uses(t, v)' /\ Flying(t, v)'
         \/ v = w /\ (At(t, "ack", v) \/ At(t, "reset", v))
         \/ /\ v = w /\ (At(t, "wait", v) \/ At(t, "idle", v)) /\ chan[v].job = None
            /\ At(t, "wait", v) => chan[v].irq = {}
            /\ At(t, "idle", v) => chan[v].failed
  <1>1. op[t] \in OnTx \cup OnRx /\ op'[t] = op[t]  BY Others DEF Uses
  <1>2. v = "tx" \/ v = "rx"  BY DEF Channels
  <1>3. ASSUME NEW a, At(t, a, w)
        PROVE  /\ Now(script[t]) = <<a, w>> /\ a = Now(script[t])[1] /\ w = Now(script[t])[2]
               /\ FlyingAt(op[t], <<a, w>>, v)
               /\ a \in {"wait", "idle", "ack", "reset", "tail", "poll"}
    <2>1. Now(script[t]) = <<a, w>>  BY <1>3, AtStage
    <2>2. QED BY <2>1 DEF Flying, FlyingAt, WaitingAt, Tx, Rx
  <1>4. ASSUME NEW a, At(t, a, w), Advance(t), ~(v = w /\ a \in {"ack", "reset"})
        PROVE  Uses(t, v)' /\ Flying(t, v)'
    <2>1. FlyingAt(op[t], <<a, w>>, v)  BY <1>3, <1>4
    <2>2. <<a, w>> \notin Lasts(op[t])  BY <1>1, <2>1, LastFly
    <2>3. script'[t] # <<>> /\ <<<<a, w>>, Now(script'[t])>> \in Edges(op[t])
      BY <1>4, <2>2, Advanced
    <2>4. FlyingAt(op[t], Now(script'[t]), v)  BY <1>1, <1>4, <2>1, <2>3, EdgeFly
    <2>5. QED BY <1>1, <2>3, <2>4, Others DEF Flying
  <1>5. ASSUME Fail(t, "ack"), script'[t] # <<>>
        PROVE  Uses(t, v)' /\ Flying(t, v)'
    <2>1. Now(script'[t]) = Tx("reset") /\ op[t] \in {"Send_repeat", "Transf"}
      BY <1>5, Failed
    <2>2. Uses(t, v)'  BY <1>5, Others
    <2>3. v = "tx" \/ op[t] = "Transf"  BY <1>2, <2>1 DEF Uses, Mutex, OnTx, Sends
    <2>4. FlyingAt(op[t], Tx("reset"), v)  BY <1>2, <2>3 DEF FlyingAt, Tx, Rx
    <2>5. QED BY <1>1, <2>1, <2>2, <2>4 DEF Flying
  <1>6. ASSUME Fail(t, "ack"), op[t] = "Transf"  PROVE script'[t] # <<>>
    <2>1. script'[t] = ResetChannels  BY <1>6 DEF Fail, CleanUp, Typed, TypeOK
    <2>2. QED BY <2>1, ScriptOfRun
  <1>7. ASSUME NEW a \in {"wait", "idle"}, At(t, a, w), Fail(t, "ack"), Abandon(t, w),
               a = "wait" => chan[w].irq = {},
               a = "idle" => w = "tx" /\ (chan[w].job = None => chan[w].failed)
        PROVE  \/ Uses(t, v)' /\ Flying(t, v)'
               \/ /\ v = w /\ (At(t, "wait", v) \/ At(t, "idle", v)) /\ chan[v].job = None
                  /\ At(t, "wait", v) => chan[v].irq = {}
                  /\ At(t, "idle", v) => chan[v].failed
    <2>1. CASE script'[t] # <<>>  BY <1>5, <1>7, <2>1
    <2>2. CASE script'[t] = <<>>
      <3>1. op[t] # "Transf"  BY <1>6, <1>7, <2>2
      <3>2. op[t] # "Send_repeat"
        <4>1. CleanUp("Send_repeat", "ack") = SetDefault("tx")  BY DEF CleanUp
        <4>2. op[t] = "Send_repeat" => script'[t] = SetDefault("tx")
          BY <1>7, <4>1 DEF Fail, Typed, TypeOK
        <4>3. QED BY <2>2, <4>2, ScriptOfRun
      <3>3. op[t] \in {"Send", "Recv"} \cup DirectOps
        BY <1>1, <3>1, <3>2 DEF OnTx, OnRx, Sends, DirectOps
      <3>4. v = w
        <4>1. Now(script[t]) = <<a, w>> /\ FlyingAt(op[t], <<a, w>>, v)  BY <1>3, <1>7
        <4>2. QED BY <3>1, <4>1 DEF FlyingAt, WaitingAt
      <3>5. chan[w].job = None
        <4>1. w \notin abandoned'  BY <3>4 DEF Fine
        <4>2. QED BY <1>7, <3>3, <4>1 DEF Abandon
      <3>6. At(t, "wait", v) => a = "wait"  BY <1>7, <3>4 DEF At
      <3>7. At(t, "idle", v) => a = "idle"  BY <1>7, <3>4 DEF At
      <3>8. QED BY <1>7, <3>4, <3>5, <3>6, <3>7
    <2>3. QED BY <2>1, <2>2
  <1>8. CASE Start(t, w) \/ FillBuffer(t, w) \/ CheckHalt(t, w) \/ InitDescriptors(t, w)
             \/ AllocBufferMem(t, w) \/ ProcessDescriptors(t, w) \/ SetLength(t, w)
             \/ Pending(t, w) \/ ReturnTxLength(t, w) \/ CopyOut(t, w)
    <2>1. PICK a \in {"start", "fill", "check", "chain", "alloc", "process", "length",
                      "pending", "sent", "copyout"} : At(t, a, w)
      BY <1>8, Zenon DEF Start, FillBuffer, CheckHalt, InitDescriptors, AllocBufferMem,
         ProcessDescriptors, SetLength, Pending, ReturnTxLength, CopyOut
    <2>2. a \in {"wait", "idle", "ack", "reset", "tail", "poll"}  BY <1>3, <2>1
    <2>3. QED BY <2>1, <2>2
  <1>9. CASE SetTailDesc(t, w)  BY <1>4, <1>9 DEF SetTailDesc
  <1>10. CASE WaitComplete(t, w)
    <2>1. At(t, "wait", w)  BY <1>10 DEF WaitComplete
    <2>2. CASE Advance(t)  BY <1>4, <2>1, <2>2
    <2>3. CASE ~Advance(t)
      <3>1. Fail(t, "ack") /\ Abandon(t, w) /\ chan[w].irq = {}  BY <1>10, <2>3 DEF WaitComplete
      <3>2. QED BY <1>7, <2>1, <3>1
    <2>4. QED BY <2>2, <2>3
  <1>11. CASE WaitDirectComplete(t, w)
    <2>1. At(t, "idle", w)  BY <1>11 DEF WaitDirectComplete
    <2>2. CASE Advance(t)  BY <1>4, <2>1, <2>2
    <2>3. CASE ~Advance(t)
      <3>1. /\ Fail(t, "ack") /\ Abandon(t, w) /\ w = "tx"
            /\ chan[w].job = None => chan[w].failed
        BY <1>11, <2>3, PlacesAre DEF WaitDirectComplete
      <3>2. QED BY <1>7, <2>1, <3>1
    <2>4. QED BY <2>2, <2>3
  <1>12. CASE AckIRQ(t, w)
    <2>1. At(t, "ack", w) /\ (Advance(t) \/ Fail(t, "ack"))  BY <1>12 DEF AckIRQ
    <2>2. CASE v = w  BY <2>1, <2>2
    <2>3. CASE v # w /\ Advance(t)  BY <1>4, <2>1, <2>3
    <2>4. CASE v # w /\ Fail(t, "ack")
      <3>1. FlyingAt(op[t], <<"ack", w>>, v)  BY <1>3, <2>1
      <3>2. op[t] = "Transf"  BY <2>4, <3>1 DEF FlyingAt, WaitingAt
      <3>3. QED BY <1>5, <1>6, <2>4, <3>2
    <2>5. QED BY <2>1, <2>2, <2>3, <2>4
  <1>13. CASE Reset(t, w)
    <2>1. At(t, "reset", w) /\ Advance(t)  BY <1>13 DEF Reset
    <2>2. QED BY <1>4, <2>1
  <1>14. CASE PollReset(t, w)
    <2>1. At(t, "poll", w)  BY <1>14 DEF PollReset
    <2>2. FlyingAt(op[t], <<"poll", w>>, v)  BY <1>3, <2>1
    <2>3. v = "rx" /\ op[t] = "Transf"  BY <2>2 DEF FlyingAt, WaitingAt
    <2>4. isSg  BY <2>3 DEF Uses, Control, SgOps
    <2>5. "Transf" \in case.ops  BY <2>3 DEF Typed, TypeOK
    <2>6. "slowreset" \notin case.faults  BY <2>3, <2>4, <2>5, Others DEF Fine
    <2>7. Advance(t)  BY <1>14, <2>6 DEF PollReset
    <2>8. QED BY <1>4, <2>1, <2>7
  <1>15. QED BY <1>8, <1>9, <1>10, <1>11, <1>12, <1>13, <1>14 DEF Moving

(* The same, one field after another.                                       *)
LEMMA WrittenIs ==
  ASSUME Typed, NEW t \in Threads, NEW w \in Channels, Moving(t, w), NEW v \in Channels
  PROVE  /\ chan'[v].halted = chan[v].halted /\ chan'[v].failed = chan[v].failed
         /\ chan[v].resetting => chan'[v].resetting
         /\ chan'[v].resetting => chan[v].resetting \/ At(t, "reset", w)
         /\ chan'[v].resetting /\ ~case.sharedReset => chan[v].resetting \/ v = w
         /\ chan'[v].job # chan[v].job =>
              /\ v = w /\ (At(t, "tail", w) \/ At(t, "length", w))
              /\ ~chan[v].halted /\ ~chan[v].resetting /\ chan'[v].job = call[t]
         /\ chan'[v].irq # chan[v].irq => v = w /\ (At(t, "ack", w) \/ At(t, "pending", w))
         /\ At(t, "ack", v) => chan'[v].irq = chan[v].irq \ seen[t]
         /\ At(t, "pending", v) => chan'[v].irq = {}
         /\ At(t, "reset", v) => chan'[v].resetting
         /\ chan'[v].dst # chan[v].dst => v = w /\ At(t, "length", w) /\ chan'[v].dst = Target(t)
         /\ At(t, "tail", v) \/ At(t, "length", v) =>
              IF chan[v].halted \/ chan[v].resetting THEN chan'[v] = chan[v]
              ELSE chan'[v].job = call[t] /\ (At(t, "length", v) => chan'[v].dst = Target(t))
  <1>1. chan[v] \in ChanType(calls)  BY TypedIs DEF SharedType
  <1>2. Written(t, w, v)  BY Writes
  <1>3. ASSUME NEW a, At(t, a, v)  PROVE v = w
    <2>1. PICK b : At(t, b, w)  BY Moves
    <2>2. QED BY <1>3, <2>1 DEF At
  <1>4. /\ At(t, "ack", v) => chan'[v].irq = chan[v].irq \ seen[t]
        /\ At(t, "pending", v) => chan'[v].irq = {}
        /\ At(t, "reset", v) => chan'[v].resetting
    <2>1. ASSUME At(t, "ack", v)  PROVE chan'[v].irq = chan[v].irq \ seen[t]
      <3>1. chan'[v] = [chan[v] EXCEPT !.irq = chan[v].irq \ seen[t]]  BY <1>3, <2>1, Writes
      <3>2. QED BY <1>1, <3>1 DEF ChanType
    <2>2. ASSUME At(t, "pending", v)  PROVE chan'[v].irq = {}
      <3>1. chan'[v] = [chan[v] EXCEPT !.irq = {}]  BY <1>3, <2>2, Writes
      <3>2. QED BY <1>1, <3>1 DEF ChanType
    <2>3. ASSUME At(t, "reset", v)  PROVE chan'[v].resetting
      <3>1. v = w  BY <1>3, <2>3
      <3>2. chan'[w] = [chan[w] EXCEPT !.resetting = TRUE]  BY <2>3, <3>1, Writes
      <3>3. QED BY <1>1, <3>1, <3>2 DEF ChanType
    <2>4. QED BY <2>1, <2>2, <2>3
  <1>5. At(t, "tail", v) \/ At(t, "length", v) =>
          IF chan[v].halted \/ chan[v].resetting THEN chan'[v] = chan[v]
          ELSE chan'[v].job = call[t] /\ (At(t, "length", v) => chan'[v].dst = Target(t))
    BY <1>3, Writes
  <1> DEFINE c == chan[v]
             d == chan'[v]
             Goal == /\ d.halted = c.halted /\ d.failed = c.failed
                     /\ c.resetting => d.resetting
                     /\ d.resetting => c.resetting \/ At(t, "reset", w)
                     /\ d.resetting /\ ~case.sharedReset => c.resetting \/ v = w
                     /\ d.job # c.job => /\ v = w /\ (At(t, "tail", w) \/ At(t, "length", w))
                                         /\ ~c.halted /\ ~c.resetting /\ d.job = call[t]
                     /\ d.irq # c.irq => v = w /\ (At(t, "ack", w) \/ At(t, "pending", w))
                     /\ d.dst # c.dst => v = w /\ At(t, "length", w) /\ d.dst = Target(t)
  <1>6. c \in ChanType(calls)  BY <1>1
  <1>7. \/ d = c
        \/ v = w /\ At(t, "start", w) /\ d = [c EXCEPT !.run = TRUE]
        \/ /\ v = w /\ At(t, "tail", w) /\ ~c.halted /\ ~c.resetting
           /\ d = [c EXCEPT !.job = call[t]]
        \/ /\ v = w /\ At(t, "length", w) /\ ~c.halted /\ ~c.resetting
           /\ d = [c EXCEPT !.job = call[t], !.dst = Target(t)]
        \/ v = w /\ At(t, "ack", w) /\ d = [c EXCEPT !.irq = c.irq \ seen[t]]
        \/ v = w /\ At(t, "pending", w) /\ d = [c EXCEPT !.irq = {}]
        \/ /\ At(t, "reset", w) /\ (v = w \/ case.sharedReset)
           /\ d = [c EXCEPT !.resetting = TRUE]
    BY <1>2 DEF Written
  <1> HIDE DEF c, d
  <1>8. ASSUME d = c
        PROVE  Goal
    BY <1>8
  <1>9. ASSUME v = w /\ At(t, "start", w) /\ d = [c EXCEPT !.run = TRUE]
        PROVE  Goal
    BY <1>6, <1>9 DEF ChanType
  <1>10. ASSUME /\ v = w /\ At(t, "tail", w) /\ ~c.halted /\ ~c.resetting
              /\ d = [c EXCEPT !.job = call[t]]
        PROVE  Goal
    BY <1>6, <1>10 DEF ChanType
  <1>11. ASSUME /\ v = w /\ At(t, "length", w) /\ ~c.halted /\ ~c.resetting
              /\ d = [c EXCEPT !.job = call[t], !.dst = Target(t)]
        PROVE  Goal
    BY <1>6, <1>11 DEF ChanType
  <1>12. ASSUME v = w /\ At(t, "ack", w) /\ d = [c EXCEPT !.irq = c.irq \ seen[t]]
        PROVE  Goal
    BY <1>6, <1>12 DEF ChanType
  <1>13. ASSUME v = w /\ At(t, "pending", w) /\ d = [c EXCEPT !.irq = {}]
        PROVE  Goal
    BY <1>6, <1>13 DEF ChanType
  <1>14. ASSUME /\ At(t, "reset", w) /\ (v = w \/ case.sharedReset)
              /\ d = [c EXCEPT !.resetting = TRUE]
        PROVE  Goal
    BY <1>6, <1>14 DEF ChanType
  <1>15. Goal  BY <1>7, <1>8, <1>9, <1>10, <1>11, <1>12, <1>13, <1>14
  <1>16. QED BY <1>4, <1>5, <1>15 DEF c, d

(* What the engine does to the registers of a channel.                      *)
EngineDoes(v) ==
  LET c == chan[v]
      d == chan'[v] IN
  \/ d = c
  \/ /\ c.halted /\ ~c.failed /\ ~c.resetting
     /\ ~d.halted /\ ~d.failed /\ ~d.resetting
     /\ d.irq = c.irq /\ d.job = c.job /\ d.dst = c.dst
  \/ /\ Busy(v) /\ d.job = None /\ ~d.resetting /\ d.halted = c.halted /\ d.failed = c.failed
     /\ d.irq = c.irq \cup {"ioc"} /\ d.dst = c.dst
  \/ /\ Busy(v) /\ "error" \in case.faults /\ d.job = None /\ ~d.resetting /\ d.halted /\ d.failed
     /\ d.irq = c.irq \cup {"err"} /\ d.dst = c.dst
  \/ c.resetting /\ d = ResetState

LEMMA EngineIs ==
  ASSUME Typed, Engine, NEW v \in Channels
  PROVE  /\ UNCHANGED threads /\ UNCHANGED history
         /\ EngineDoes(v)
         /\ chain'[v] # chain[v] => /\ Busy(v) /\ chain'[v] = [chain[v] EXCEPT !.done = TRUE]
                                    /\ chan'[v].job = None
  <1>1. UNCHANGED threads /\ UNCHANGED history  BY DEF Engine, Progress
  <1>2. /\ chan \in [Channels -> ChanType(calls)] /\ chain \in [Channels -> ChainType(calls)]
    BY TypedIs DEF SharedType
  <1> DEFINE Goal == /\ EngineDoes(v)
                     /\ chain'[v] # chain[v] =>
                          /\ Busy(v) /\ chain'[v] = [chain[v] EXCEPT !.done = TRUE]
                          /\ chan'[v].job = None
  <1>3. ASSUME NEW w \in Channels, Starts(w)  PROVE Goal
    <2>1. CASE w = v
      <3>1. chan'[v] = [chan[v] EXCEPT !.halted = FALSE] /\ chain' = chain
            /\ chan[v].halted /\ ~chan[v].failed /\ ~chan[v].resetting
        BY <1>2, <1>3, <2>1 DEF Starts
      <3>2. QED BY <1>2, <3>1 DEF EngineDoes, ChanType
    <2>2. CASE w # v  BY <1>2, <1>3, <2>2 DEF Starts, EngineDoes
    <2>3. QED BY <2>1, <2>2
  <1>4. ASSUME NEW w \in Channels, ResetEnds(w)  PROVE Goal
    <2>1. CASE w = v  BY <1>2, <1>4, <2>1 DEF ResetEnds, EngineDoes
    <2>2. CASE w # v  BY <1>2, <1>4, <2>2 DEF ResetEnds, EngineDoes
    <2>3. QED BY <2>1, <2>2
  <1>5. ASSUME NEW w \in Channels, EngineError(w)  PROVE Goal
    <2>1. CASE w = v
      <3>1. /\ chan'[v] = [chan[v] EXCEPT !.run = FALSE, !.halted = TRUE, !.failed = TRUE,
                                          !.irq = chan[v].irq \cup {"err"}, !.job = None]
            /\ chain' = chain /\ Busy(v) /\ "error" \in case.faults
        BY <1>2, <1>5, <2>1 DEF EngineError
      <3>2. /\ chan'[v].halted /\ chan'[v].failed /\ chan'[v].job = None
            /\ chan'[v].irq = chan[v].irq \cup {"err"}
            /\ chan'[v].resetting = chan[v].resetting /\ chan'[v].dst = chan[v].dst
        BY <1>2, <3>1 DEF ChanType
      <3>3. ~chan[v].resetting  BY <3>1 DEF Busy
      <3>4. QED BY <3>1, <3>2, <3>3 DEF EngineDoes
    <2>2. CASE w # v  BY <1>2, <1>5, <2>2 DEF EngineError, EngineDoes
    <2>3. QED BY <2>1, <2>2
  <1>6. ASSUME NEW w \in Channels, Busy(w), Finish(w)  PROVE Goal
    <2>1. CASE w = v
      <3>1. /\ chan'[v] = [chan[v] EXCEPT !.job = None, !.irq = chan[v].irq \cup {"ioc"}]
            /\ chain'[v] = [chain[v] EXCEPT !.done = TRUE]
        BY <1>2, <1>6, <2>1 DEF Finish
      <3>2. /\ chan'[v].halted = chan[v].halted /\ chan'[v].failed = chan[v].failed
            /\ chan'[v].job = None
            /\ chan'[v].irq = chan[v].irq \cup {"ioc"}
            /\ chan'[v].resetting = chan[v].resetting /\ chan'[v].dst = chan[v].dst
        BY <1>2, <3>1 DEF ChanType
      <3>3. ~chan[v].resetting  BY <1>6, <2>1 DEF Busy
      <3>4. QED BY <1>6, <2>1, <3>1, <3>2, <3>3 DEF EngineDoes
    <2>2. CASE w # v  BY <1>2, <1>6, <2>2 DEF Finish, EngineDoes
    <2>3. QED BY <2>1, <2>2
  <1>7. Goal
    BY <1>3, <1>4, <1>5, <1>6, PlacesAre DEF Engine, Progress, Transmit, Arrive
  <1>8. QED BY <1>1, <1>7

LEMMA EdgeRun ==
  ASSUME NEW o \in Owning, NEW x, NEW y, <<x, y>> \in Edges(o)
  PROVE  /\ y = Tx("poll") => x = Tx("reset")
         /\ y = Rx("reset") => x = Tx("poll")
         /\ y = Rx("poll") => x = Rx("reset")
         /\ y = Rx("up") => x = Rx("poll")
  BY DEF Edges, Owning, Sends, Tx, Rx

(* The action of a stage.                                                   *)
LEMMA Which ==
  ASSUME NEW t \in Threads, NEW w \in Channels, Moving(t, w), NEW a, At(t, a, w)
  PROVE  /\ a = "chain" => InitDescriptors(t, w)
         /\ a = "alloc" => AllocBufferMem(t, w)
         /\ a = "fill" => FillBuffer(t, w)
         /\ a = "start" => Start(t, w)
         /\ a = "check" => CheckHalt(t, w)
         /\ a = "tail" => SetTailDesc(t, w)
         /\ a = "wait" => WaitComplete(t, w)
         /\ a = "ack" => AckIRQ(t, w)
         /\ a = "process" => ProcessDescriptors(t, w)
         /\ a = "length" => SetLength(t, w)
         /\ a = "pending" => Pending(t, w)
         /\ a = "idle" => WaitDirectComplete(t, w)
         /\ a = "sent" => ReturnTxLength(t, w)
         /\ a = "reset" => Reset(t, w)
         /\ a = "poll" => PollReset(t, w)
         /\ a = "copyout" => CopyOut(t, w)
  <1>1. \A b : At(t, b, w) => a = b  BY DEF At
  <1>2. /\ InitDescriptors(t, w) => a = "chain"
        /\ AllocBufferMem(t, w) => a = "alloc"
        /\ FillBuffer(t, w) => a = "fill"
        /\ Start(t, w) => a = "start"
    BY <1>1, Zenon DEF InitDescriptors, AllocBufferMem, FillBuffer, Start
  <1>3. /\ CheckHalt(t, w) => a = "check"
        /\ SetTailDesc(t, w) => a = "tail"
        /\ WaitComplete(t, w) => a = "wait"
        /\ AckIRQ(t, w) => a = "ack"
    BY <1>1, Zenon DEF CheckHalt, SetTailDesc, WaitComplete, AckIRQ
  <1>4. /\ ProcessDescriptors(t, w) => a = "process"
        /\ SetLength(t, w) => a = "length"
        /\ Pending(t, w) => a = "pending"
        /\ WaitDirectComplete(t, w) => a = "idle"
    BY <1>1, Zenon DEF ProcessDescriptors, SetLength, Pending, WaitDirectComplete
  <1>5. /\ ReturnTxLength(t, w) => a = "sent"
        /\ Reset(t, w) => a = "reset"
        /\ PollReset(t, w) => a = "poll"
        /\ CopyOut(t, w) => a = "copyout"
    BY <1>1, Zenon DEF ReturnTxLength, Reset, PollReset, CopyOut
  <1>6. QED BY <1>2, <1>3, <1>4, <1>5 DEF Moving

(* Where a thread comes to: to the next stage, to the reset of its clean-up, *)
(* to the copy of the data, or to the end.                                  *)
LEMMA Onward ==
  ASSUME Typed, Control, NEW t \in Threads, NEW w \in Channels, Moving(t, w)
  PROVE  \E a \in Stages \ {"lock", "up"} :
           /\ At(t, a, w) /\ Now(script[t]) = <<a, w>> /\ script[t] # <<>>
           /\ \/ script'[t] = <<>>
              \/ /\ Now(script'[t]) = Tx("reset") /\ op[t] \in {"Send_repeat", "Transf"}
                 /\ a \in {"wait", "idle", "ack", "process"}
                 /\ op[t] = "Transf" => Last(script'[t]) = Rx("poll")
              \/ /\ Now(script'[t]) = Rx("copyout") /\ Last(script'[t]) = Rx("copyout")
                 /\ \/ a = "poll" /\ Last(script[t]) = Rx("copyout")
                       /\ "slowreset" \in case.faults
                    \/ a = "pending" /\ chan[w].irq = {"ioc"}
              \/ /\ <<<<a, w>>, Now(script'[t])>> \in Edges(op[t])
                 /\ Last(script'[t]) = Last(script[t])
  <1> DEFINE Goal(a) ==
           \/ script'[t] = <<>>
           \/ /\ Now(script'[t]) = Tx("reset") /\ op[t] \in {"Send_repeat", "Transf"}
              /\ a \in {"wait", "idle", "ack", "process"}
              /\ op[t] = "Transf" => Last(script'[t]) = Rx("poll")
           \/ /\ Now(script'[t]) = Rx("copyout") /\ Last(script'[t]) = Rx("copyout")
              /\ \/ a = "poll" /\ Last(script[t]) = Rx("copyout")
                    /\ "slowreset" \in case.faults
                 \/ a = "pending" /\ chan[w].irq = {"ioc"}
           \/ /\ <<<<a, w>>, Now(script'[t])>> \in Edges(op[t])
              /\ Last(script'[t]) = Last(script[t])
  <1>1. PICK a \in Stages \ {"lock", "up"} : At(t, a, w)  BY Moves
  <1>2. /\ Now(script[t]) = <<a, w>> /\ script[t] # <<>> /\ IsRest(op[t], script[t])
        /\ op[t] \in Ops /\ Now(script[t])[1] = a
    BY <1>1, AtStage
  <1>3. Advance(t) => Goal(a)  BY <1>1, Advanced
  <1>4. ASSUME NEW st, Fail(t, st), st \in {"ack", "process"} => a \in {"wait", "idle", "ack", "process"}
        PROVE  Goal(a)
    BY <1>4, Failed
  <1>5. CASE a \in {"chain", "alloc", "fill", "start", "check", "tail", "length"}
    <2>1. Advance(t) \/ Fail(t, "chain") \/ Fail(t, "alloc") \/ Fail(t, "check")
      BY <1>1, <1>5, Which DEF InitDescriptors, AllocBufferMem, FillBuffer, Start, CheckHalt,
         SetTailDesc, SetLength
    <2>2. QED BY <1>1, <1>2, <1>3, <1>4, <2>1
  <1>6. CASE a \in {"wait", "idle", "ack", "process"}
    <2>1. Advance(t) \/ Fail(t, "ack") \/ Fail(t, "process")
      BY <1>1, <1>6, Which DEF WaitComplete, WaitDirectComplete, AckIRQ, ProcessDescriptors
    <2>2. QED BY <1>1, <1>2, <1>3, <1>4, <1>6, <2>1
  <1>7. CASE a \in {"sent", "reset", "copyout"}
    <2>1. Advance(t)  BY <1>1, <1>7, Which DEF ReturnTxLength, Reset, CopyOut
    <2>2. QED BY <1>1, <1>2, <1>3, <2>1
  <1>8. CASE a = "poll"
    <2>1. \/ Advance(t)
          \/ "slowreset" \in case.faults /\ script' = [script EXCEPT ![t] = Unreset(script[t])]
      BY <1>1, <1>8, Which DEF PollReset
    <2>2. CASE "slowreset" \in case.faults /\ script' = [script EXCEPT ![t] = Unreset(script[t])]
      <3>1. script'[t] = Unreset(script[t])  BY <2>2 DEF Typed, TypeOK
      <3>2. QED BY <1>1, <1>2, <1>8, <2>2, <3>1, UnresetIs
    <2>3. QED BY <1>1, <1>2, <1>3, <2>1, <2>2
  <1>9. CASE a = "pending"
    <2>1. Pending(t, w)  BY <1>1, <1>9, Which
    <2>2. CASE chan[w].irq = {"ioc"}
      <3>1. script' = [script EXCEPT ![t] = << <<"copyout", w>> >>]  BY <2>1, <2>2 DEF Pending
      <3>2. script'[t] = << <<"copyout", w>> >>  BY <3>1 DEF Typed, TypeOK
      <3>3. Now(script[t]) = script[t][1]  BY <1>2 DEF Now
      <3>4. Now(script[t]) \in Lasts(op[t]) \/ \E y : <<Now(script[t]), y>> \in Edges(op[t])
        BY <1>2, <3>3, StepOn
      <3>5. Now(script[t]) = Rx("pending")  BY <1>2, <1>9, <3>4, PendingEdge
      <3>6. script'[t] = <<Rx("copyout")>>  BY <1>2, <3>2, <3>5 DEF Rx
      <3>7. Now(script'[t]) = Rx("copyout") /\ Last(script'[t]) = Rx("copyout")
        BY <3>6 DEF Now, Last
      <3>8. QED BY <1>1, <1>2, <1>9, <2>2, <3>7
    <2>3. CASE chan[w].irq # {"ioc"}
      <3>1. Advance(t)  BY <2>1, <2>3 DEF Pending
      <3>2. QED BY <1>1, <1>2, <1>3, <3>1
    <2>4. QED BY <2>2, <2>3
  <1>10. QED BY <1>5, <1>6, <1>7, <1>8, <1>9 DEF Stages

(* The steps of a thread other than its moves.                              *)
Outside(t) ==
  \/ \E w \in Channels : Lock(t, w) \/ SetUp(t, w)
  \/ Return(t)
  \/ \E o \in Owning : Own(t, o)
  \/ \E o \in case.ops : Call(t, o)

LEMMA NextIs ==
  Next => Engine \/ \E t \in Threads : Outside(t) \/ \E w \in Channels : Moving(t, w)
  <1>1. ASSUME NEW t \in Threads, Stage(t)
        PROVE  Outside(t) \/ \E w \in Channels : Moving(t, w)
    BY <1>1 DEF Stage, Outside, Moving
  <1>2. ASSUME NEW t \in Threads, Own(t, "run") \/ Own(t, "end")  PROVE Outside(t)
    BY <1>2 DEF Outside, Owning
  <1>3. ASSUME NEW t \in Threads, NEW o \in case.ops, Call(t, o)  PROVE Outside(t)
    BY <1>3 DEF Outside
  <1>4. QED BY <1>1, <1>2, <1>3 DEF Next

LEMMA OutsideIs ==
  ASSUME Typed, Control, NEW t \in Threads, Outside(t)
  PROVE  /\ UNCHANGED <<case, isSg, seen, chan, chain, wire, arrived, reported, got, abandoned>>
         /\ \A u \in Threads : u # t =>
              /\ op'[u] = op[u] /\ script'[u] = script[u] /\ call'[u] = call[u]
              /\ \A v \in Channels : Uses(u, v)' <=> Uses(u, v)
         /\ \A v \in Channels : ~Uses(t, v)
         /\ \A v \in Channels : Uses(t, v)' =>
              /\ op'[t] = op[t] /\ op[t] \in OnTx \cup OnRx
              /\ Now(script[t])[1] = "lock" /\ Now(script'[t])[1] \in {"chain", "alloc", "pending"}
              /\ Now(script[t]) = <<"lock", Mutex(op[t])>>
              /\ <<Now(script[t]), Now(script'[t])>> \in Edges(op[t])
              /\ Last(script'[t]) = Last(script[t])
         /\ up' => up \/ (op[t] = "run" /\ At1(t, Rx("up")) /\ script[t] # <<>>)
         /\ ~up' => ~up \/ \A u \in Threads : op[u] = "none"
         /\ op'[t] = "run" => \/ script'[t] = <<>> \/ Now(script'[t]) = Tx("reset")
         /\ mem' = mem \/ (op[t] = "none" /\ mem' = [mem EXCEPT ![t] = None])
         /\ Now(script'[t])[1] \notin {"poll", "copyout"}
         /\ Now(script[t])[1] # "poll" \/ script[t] = <<>>
         /\ op'[t] = "Transf" /\ At1(t, Tx("lock"))' => Last(script'[t]) = Rx("copyout")
  <1> DEFINE Goal ==
        /\ UNCHANGED <<case, isSg, seen, chan, chain, wire, arrived, reported, got, abandoned>>
        /\ \A u \in Threads : u # t =>
             /\ op'[u] = op[u] /\ script'[u] = script[u] /\ call'[u] = call[u]
             /\ Mutex(op[u]) \in Channels /\ (Holds(u)' <=> Holds(u))
        /\ \A v \in Channels : ~Uses(t, v)
        /\ \A v \in Channels : Uses(t, v)' =>
             /\ op'[t] = op[t] /\ op[t] \in OnTx \cup OnRx
             /\ Now(script[t])[1] = "lock" /\ Now(script'[t])[1] \in {"chain", "alloc", "pending"}
             /\ Now(script[t]) = <<"lock", Mutex(op[t])>>
             /\ <<Now(script[t]), Now(script'[t])>> \in Edges(op[t])
             /\ Last(script'[t]) = Last(script[t])
        /\ up' => up \/ (op[t] = "run" /\ At1(t, Rx("up")) /\ script[t] # <<>>)
        /\ ~up' => ~up \/ \A u \in Threads : op[u] = "none"
        /\ op'[t] = "run" => \/ script'[t] = <<>> \/ Now(script'[t]) = Tx("reset")
        /\ mem' = mem \/ (op[t] = "none" /\ mem' = [mem EXCEPT ![t] = None])
        /\ Now(script'[t])[1] \notin {"poll", "copyout"}
        /\ Now(script[t])[1] # "poll" \/ script[t] = <<>>
        /\ op'[t] = "Transf" /\ At1(t, Tx("lock"))' => Last(script'[t]) = Rx("copyout")
  <1>1. \A o : Mutex(o) \in Channels  BY DEF Mutex, Channels
  <1>2. Now(<<>>) = Done /\ Done[1] = "done" /\ Done # Tx("lock")  BY NothingLeft DEF Done, Tx
  <1>3. "none" \notin OnTx \cup OnRx /\ "run" \notin OnTx \cup OnRx /\ "end" \notin OnTx \cup OnRx
    BY DEF OnTx, OnRx, Sends
  <1>4. ASSUME NEW w \in Channels, Lock(t, w)  PROVE Goal
    <2> DEFINE x == Now(script[t])
               y == Now(script'[t])
    <2>1. /\ op[t] \in OnTx \cup OnRx /\ w = Mutex(op[t])  BY <1>4, LockControl
    <2>2. At(t, "lock", w) /\ Advance(t) /\ owner[w] = Free /\ owner' = [owner EXCEPT ![w] = t]
          /\ UNCHANGED <<case, isSg, up, op, call, seen, calls, engine, history>>
      BY <1>4 DEF Lock
    <2>3. x = <<"lock", w>> /\ x[1] = "lock" /\ script[t] # <<>>  BY <2>2, AtStage
    <2>4. \/ script'[t] = <<>> /\ <<"lock", w>> \in Lasts(op[t])
          \/ /\ script'[t] # <<>> /\ <<<<"lock", w>>, y>> \in Edges(op[t])
             /\ Last(script'[t]) = Last(script[t])
      BY <2>2, Advanced
    <2>5. <<"lock", w>> \notin Lasts(op[t])  BY <2>1, LastLock
    <2>6. /\ <<x, y>> \in Edges(op[t]) /\ Last(script'[t]) = Last(script[t])
          /\ y[1] \in {"chain", "alloc", "pending"}
      BY <2>1, <2>3, <2>4, <2>5, EdgeFly
    <2>7. \A u \in Threads : u # t => script'[u] = script[u]
      BY <2>2 DEF Advance, Typed, TypeOK
    <2>8. \A u \in Threads : u # t => (Holds(u)' <=> Holds(u))
      <3>1. ASSUME NEW u \in Threads, u # t  PROVE Holds(u)' <=> Holds(u)
        <4>1. owner'[Mutex(op[u])] = IF Mutex(op[u]) = w THEN t ELSE owner[Mutex(op[u])]
          BY <1>1, <2>2 DEF Typed, TypeOK
        <4>2. u # Free /\ op' = op  BY <2>2, AxiDmaAssumption
        <4>3. QED BY <2>2, <3>1, <4>1, <4>2 DEF Holds
      <3>2. QED BY <3>1
    <2>9. t # Free  BY AxiDmaAssumption
    <2>10. \A v \in Channels : ~Uses(t, v)  BY <2>1, <2>2, <2>9 DEF Uses, Holds
    <2>11. op[t] # "run"  BY <1>3, <2>1
    <2>12. y # Tx("lock")  BY <2>6 DEF Tx
    <2>13. y[1] \notin {"poll", "copyout"}  BY <2>6
    <2>14. UNCHANGED <<case, isSg, up, op, call, seen, chan, chain, mem, wire, arrived,
                       reported, got, abandoned>>
      BY <2>2 DEF engine, history
    <2> HIDE DEF x, y
    <2>15. QED
      BY <1>1, <2>1, <2>3, <2>6, <2>7, <2>8, <2>10, <2>11, <2>12, <2>13, <2>14 DEF At1, x, y
  <1>5. ASSUME NEW w \in Channels, SetUp(t, w)  PROVE Goal
    <2>1. op[t] = "run" /\ w = "rx" /\ script'[t] = <<>> /\ Control'  BY <1>5, UpControl
    <2>2. At(t, "up", w) /\ Advance(t) /\ up' = TRUE
          /\ UNCHANGED <<case, isSg, op, call, seen, calls, owner, engine, history>>
      BY <1>5 DEF SetUp
    <2>3. Now(script[t]) = Rx("up") /\ script[t] # <<>> /\ Now(script[t])[1] = "up"
      BY <2>1, <2>2, AtStage DEF Rx
    <2>4. \A u \in Threads : u # t => script'[u] = script[u]
      BY <2>2 DEF Advance, Typed, TypeOK
    <2>5. QED BY <1>1, <1>2, <1>3, <2>1, <2>2, <2>3, <2>4 DEF engine, history, At1, Uses, Holds
  <1>6. ASSUME Return(t)  PROVE Goal
    <2>1. /\ op[t] # "none" /\ script[t] = <<>>
          /\ op'[t] = "none" /\ \A u \in Threads : u # t => op'[u] = op[u]
          /\ owner' = [w \in Channels |-> IF owner[w] = t THEN Free ELSE owner[w]]
          /\ UNCHANGED <<case, isSg, up, call, script, seen, calls, engine, history>>
      BY <1>6 DEF Return, Typed, TypeOK
    <2>2. \A u \in Threads : u # t => (Holds(u)' <=> Holds(u))
      <3>1. ASSUME NEW u \in Threads, u # t  PROVE Holds(u)' <=> Holds(u)
        <4>1. u # Free /\ op'[u] = op[u]  BY <2>1, <3>1, AxiDmaAssumption
        <4>2. owner'[Mutex(op[u])] = IF owner[Mutex(op[u])] = t THEN Free ELSE owner[Mutex(op[u])]
          BY <1>1, <2>1
        <4>3. QED BY <3>1, <4>1, <4>2 DEF Holds
      <3>2. QED BY <3>1
    <2>3. QED BY <1>1, <1>2, <1>3, <2>1, <2>2 DEF engine, history, At1, Uses
  <1>7. ASSUME NEW o \in Owning, Own(t, o)  PROVE Goal
    <2>1. /\ \A u \in Threads : op[u] = "none"
          /\ op'[t] = o /\ \A u \in Threads : u # t => op'[u] = op[u]
          /\ script'[t] = Script(o) /\ \A u \in Threads : u # t => script'[u] = script[u]
          /\ UNCHANGED <<case, isSg, call, seen, calls, owner, engine, history>> /\ up' = FALSE
      BY <1>7 DEF Own, Typed, TypeOK
    <2>2. Script(o) # <<>> => Now(Script(o)) = Tx("reset")  BY <1>7, OwnControl
    <2>3. script[t] = <<>>  BY <2>1 DEF Control
    <2>4. o \notin OnTx \cup OnRx /\ o # "Transf"  BY DEF OnTx, OnRx, Sends, Owning
    <2>5. Now(Script(o))[1] \notin {"poll", "copyout"}  BY <1>2, <2>2 DEF Tx
    <2>6. QED BY <1>1, <2>1, <2>2, <2>3, <2>4, <2>5 DEF engine, history, Uses, Holds
  <1>8. ASSUME NEW o \in case.ops, Call(t, o)  PROVE Goal
    <2>1. /\ op[t] = "none" /\ up /\ up' = up
          /\ op'[t] = o /\ \A u \in Threads : u # t => op'[u] = op[u]
          /\ script'[t] = Script(o) /\ \A u \in Threads : u # t => script'[u] = script[u]
          /\ \A u \in Threads : u # t => call'[u] = call[u]
          /\ mem' = mem \/ mem' = [mem EXCEPT ![t] = None]
          /\ UNCHANGED <<case, isSg, seen, owner, chan, chain, wire, arrived, history>>
      BY <1>8 DEF Call, Typed, TypeOK
    <2>2. /\ Control' /\ o \in OnTx \cup OnRx
          /\ Script(o) # <<>> => Now(Script(o)) \in Before(o)
          /\ o = "Transf" /\ Script(o) # <<>> => Last(Script(o)) = Rx("copyout")
      BY <1>8, CallControl
    <2>3. script[t] = <<>>  BY <2>1 DEF Control
    <2>4. \A v \in Channels : ~Uses(t, v)'
      BY <2>1, <2>2 DEF Control, Uses
    <2>5. Now(Script(o))[1] \notin {"poll", "copyout"}
      BY <1>2, <2>2 DEF Before, Tx, Rx
    <2>6. op'[t] = "Transf" /\ At1(t, Tx("lock"))' => Last(script'[t]) = Rx("copyout")
      <3>1. Script(o) = <<>> => ~At1(t, Tx("lock"))'  BY <1>2, <2>1 DEF At1
      <3>2. QED BY <2>1, <2>2, <3>1
    <2>7. \A u \in Threads : u # t => Mutex(op[u]) \in Channels /\ (Holds(u)' <=> Holds(u))
      BY <1>1, <2>1 DEF Holds
    <2>8. \A v \in Channels : ~Uses(t, v)  BY <1>3, <2>1 DEF Uses
    <2>9. op'[t] # "run"  BY <1>3, <2>1, <2>2
    <2>10. UNCHANGED <<case, isSg, seen, chan, chain, wire, arrived, reported, got, abandoned>>
      BY <2>1 DEF history
    <2>11. mem' = mem \/ (op[t] = "none" /\ mem' = [mem EXCEPT ![t] = None])  BY <2>1
    <2>12. (up' => up) /\ Now(script'[t])[1] \notin {"poll", "copyout"}  BY <2>1, <2>5
    <2>13. QED BY <2>1, <2>3, <2>4, <2>6, <2>7, <2>8, <2>9, <2>10, <2>11, <2>12
  <1> HIDE DEF Goal
  <1>9. Goal  BY <1>4, <1>5, <1>6, <1>7, <1>8 DEF Outside
  <1>10. QED BY <1>9 DEF Goal, Uses

-------------------------------------------------------------------------------
(* The registers.                                                           *)

(* A thread that works on a channel it does not wait for finds it quiet.    *)
LEMMA FindsQuiet ==
  ASSUME Typed, Control, Registers, NEW t \in Threads, NEW w \in Channels,
         Uses(t, w), ~Flying(t, w), Fine(w)
  PROVE  Quiet(w) /\ up
  <1>1. up  BY DEF Control, Uses, OnTx, OnRx, Sends, Owning
  <1>2. \A u \in Threads : Uses(u, w) => u = t
    BY Unique DEF Fine
  <1>3. QED BY <1>1, <1>2 DEF Registers, Idle

(* Only run() and the destructor come to a stage without the mutex.         *)
LEMMA UpUses ==
  ASSUME Typed, Control, NEW t \in Threads, NEW a, NEW w, At(t, a, w), up,
         a \notin {"lock", "alloc"}
  PROVE  Uses(t, w) /\ op[t] \in OnTx \cup OnRx /\ (isSg <=> op[t] \in SgOps)
         /\ StageOf(op[t], <<a, w>>)
  <1>1. op[t] \in OnTx \cup OnRx  BY AtStage DEF Control, Ops
  <1>2. QED BY <1>1, Works

LEMMA MoveIdle ==
  ASSUME Typed, Control, Registers, NEW t \in Threads, NEW w \in Channels, Moving(t, w),
         NEW v \in Channels
  PROVE  Idle(v)'
  <1> SUFFICES ASSUME up', Fine(v)'
      PROVE  Quiet(v)' \/ \E u \in Threads : Uses(u, v)' /\ Flying(u, v)'
    BY DEF Idle
  <1>1. /\ UNCHANGED <<case, isSg, up, op, call, calls, owner>>
        /\ \A u \in Threads : u # t => script'[u] = script[u] /\ (Uses(u, v)' <=> Uses(u, v))
        /\ Fine(v)
    BY Others
  <1>2. chan[v].failed => chan[v].halted  BY DEF Registers
  <1>3. chan[v] \in ChanType(calls) /\ seen[t] \in SUBSET {"ioc", "err"}
    BY TypedIs DEF SharedType
  <1>4. PICK a \in Stages \ {"lock", "up"} : At(t, a, w)  BY Moves
  <1>5. \A b : At(t, b, w) => b = a  BY <1>4 DEF At
  <1>6. /\ op[t] \in OnTx \cup OnRx
        /\ a # "alloc" => /\ Uses(t, w) /\ (isSg <=> op[t] \in SgOps)
                          /\ StageOf(op[t], <<a, w>>)
    BY <1>1, <1>4, UpUses, AtStage DEF Control, Ops
  <1>7. ASSUME At(t, "reset", w), v = w  PROVE Quiet(v)'
    <2>1. isSg  BY <1>5, <1>6, <1>7, StageIs
    <2>2. QED BY <1>1, <1>7, <2>1, WrittenIs DEF Quiet
  <1>8. CASE Quiet(v)
    <2>1. CASE isSg /\ chan[v].resetting
      <3>1. chan'[v].resetting  BY <2>1, WrittenIs
      <3>2. QED BY <1>1, <2>1, <3>1 DEF Quiet
    <2>2. CASE Spent(v) /\ ~(isSg /\ chan[v].resetting)
      <3>1. CASE v = w /\ a \in {"tail", "length"}
        <4>1. Now(script[t]) = <<a, w>> /\ script[t] # <<>>  BY <1>4, AtStage
        <4>2. <<a, w>> \notin Lasts(op[t])
          BY <1>6, <3>1 DEF Lasts, Sends, Tx, Rx
        <4>3. Advance(t)  BY <1>4, <3>1, Which DEF SetTailDesc, SetLength
        <4>4. script'[t] # <<>> /\ <<<<a, w>>, Now(script'[t])>> \in Edges(op[t])
          BY <1>4, <4>2, <4>3, Advanced
        <4>5. FlyingAt(op[t], Now(script'[t]), w)  BY <1>6, <3>1, <4>4, EdgeFly
        <4>6. Uses(t, v)'  BY <1>6, <3>1, <4>4, Others
        <4>7. QED BY <1>1, <3>1, <4>5, <4>6 DEF Flying
      <3>2. CASE ~(v = w /\ a \in {"tail", "length"})
        <4>1. chan'[v].job = chan[v].job /\ chan'[v].failed = chan[v].failed
              /\ chan'[v].halted = chan[v].halted
          BY <1>5, <3>2, WrittenIs
        <4>2. CASE chan'[v].irq = chan[v].irq
          BY <1>1, <2>2, <4>1, <4>2 DEF Spent, Quiet
        <4>3. CASE v = w /\ a = "pending"
          <5>1. chan'[v].irq = {}  BY <1>4, <4>3, WrittenIs
          <5>2. QED BY <2>2, <4>1, <5>1 DEF Spent, Quiet
        <4>4. CASE v = w /\ a = "ack"
          <5>1. chan'[v].irq = chan[v].irq \ seen[t]  BY <1>4, <4>4, WrittenIs
          <5>2. At1(t, <<"ack", v>>)  BY <1>4, <4>4, AtStage DEF At1
          <5>3. chan[v].irq \subseteq seen[t]
            BY <1>1, <1>6, <2>2, <4>4, <5>2 DEF Registers, Flight
          <5>4. chan'[v].irq = {}  BY <5>1, <5>3
          <5>5. QED BY <2>2, <4>1, <5>4 DEF Spent, Quiet
        <4>5. QED BY <1>5, <4>2, <4>3, <4>4, WrittenIs
      <3>3. QED BY <3>1, <3>2
    <2>3. QED BY <1>8, <2>1, <2>2 DEF Quiet
  <1>9. CASE \E u \in Threads : Uses(u, v) /\ Flying(u, v)
    <2>1. PICK u \in Threads : Uses(u, v) /\ Flying(u, v)  BY <1>9
    <2>2. CASE u # t  BY <1>1, <2>1, <2>2 DEF Flying
    <2>3. CASE u = t
      <3>1. CASE Uses(t, v)' /\ Flying(t, v)'  BY <3>1
      <3>2. CASE v = w /\ At(t, "reset", v)  BY <1>7, <3>2
      <3>3. CASE v = w /\ At(t, "ack", v)
        <4>1. chan'[v].irq = chan[v].irq \ seen[t]  BY <3>3, WrittenIs
        <4>2. At1(t, <<"ack", v>>)  BY <3>3, AtStage DEF At1
        <4>3. \/ isSg /\ chan[v].resetting
              \/ chan[v].job = None /\ chan[v].irq \subseteq seen[t]
          BY <1>1, <2>1, <2>3, <4>2 DEF Registers, Flight
        <4>4. /\ chan'[v].job = chan[v].job
              /\ chan[v].resetting => chan'[v].resetting
          BY <1>5, <3>3, WrittenIs
        <4>5. CASE isSg /\ chan[v].resetting  BY <1>1, <4>4, <4>5 DEF Quiet
        <4>6. CASE chan[v].job = None /\ chan[v].irq \subseteq seen[t]
          <5>1. chan'[v].irq = {}  BY <4>1, <4>6
          <5>2. QED BY <4>4, <4>6, <5>1 DEF Quiet, Spent
        <4>7. QED BY <4>3, <4>5, <4>6
      <3>4. CASE /\ v = w /\ (At(t, "wait", v) \/ At(t, "idle", v)) /\ chan[v].job = None
                 /\ At(t, "wait", v) => chan[v].irq = {}
                 /\ At(t, "idle", v) => chan[v].failed
        <4>1. /\ chan'[v].job = chan[v].job /\ chan'[v].irq = chan[v].irq
              /\ chan'[v].failed = chan[v].failed /\ chan'[v].halted = chan[v].halted
          BY <1>5, <3>4, WrittenIs
        <4>2. CASE At(t, "wait", v)  BY <3>4, <4>1, <4>2 DEF Quiet, Spent
        <4>3. CASE At(t, "idle", v)
          <5>1. At1(t, <<"idle", v>>)  BY <4>3, AtStage DEF At1
          <5>2. "err" \in chan[v].irq
            BY <1>1, <2>1, <2>3, <3>4, <4>3, <5>1 DEF Registers, Flight
          <5>3. QED BY <1>2, <3>4, <4>1, <4>3, <5>2 DEF Quiet, Spent
        <4>4. QED BY <3>4, <4>2, <4>3
      <3>5. QED BY <2>1, <2>3, <3>1, <3>2, <3>3, <3>4, Lands
    <2>4. QED BY <2>2, <2>3
  <1>10. QED BY <1>1, <1>8, <1>9 DEF Registers, Idle

LEMMA MoveFlight ==
  ASSUME Typed, Control, Registers, NEW t \in Threads, NEW w \in Channels, Moving(t, w),
         NEW v \in Channels, NEW u \in Threads
  PROVE  Flight(u, v)'
  <1> SUFFICES ASSUME Uses(u, v)', Fine(v)'  PROVE Flight(u, v)'
    BY DEF Flight
  <1>1. /\ UNCHANGED <<case, isSg, up, op, call, calls, owner>>
        /\ Fine(v) /\ Uses(u, v)
        /\ u # t => script'[u] = script[u] /\ seen'[u] = seen[u]
    BY Others
  <1>2. chan[v] \in ChanType(calls) /\ seen[t] \in SUBSET {"ioc", "err"}
    BY TypedIs DEF SharedType
  <1>3. PICK a \in Stages \ {"lock", "up"} :
          /\ At(t, a, w) /\ Now(script[t]) = <<a, w>> /\ script[t] # <<>>
          /\ \/ script'[t] = <<>>
             \/ Now(script'[t]) = Tx("reset")
             \/ Now(script'[t]) = Rx("copyout")
             \/ <<<<a, w>>, Now(script'[t])>> \in Edges(op[t])
    BY Onward
  <1>4. \A b : At(t, b, w) => b = a  BY <1>3 DEF At
  <1>5. up /\ op[u] \in OnTx \cup OnRx
    BY <1>1 DEF Control, Uses, OnTx, OnRx, Sends, Owning
  <1>6. Flight(u, v)  BY DEF Registers
  <1>7. CASE u # t
    <2>1. a # "alloc" => v # w
      BY <1>1, <1>3, <1>5, <1>7, UpUses, Unique DEF Fine
    <2>2. /\ chan'[v].job = chan[v].job /\ chan'[v].irq = chan[v].irq
          /\ chan'[v].failed = chan[v].failed
          /\ chan[v].resetting => chan'[v].resetting
      BY <1>4, <2>1, WrittenIs
    <2>3. /\ Waiting(u, v)' <=> Waiting(u, v)
          /\ \A x : At1(u, x)' <=> At1(u, x)
      BY <1>1, <1>7 DEF Waiting, At1
    <2>4. Clear(v) => Clear(v)'  BY <2>2 DEF Clear
    <2>5. QED BY <1>1, <1>6, <1>7, <2>2, <2>3, <2>4 DEF Flight
  <1>8. CASE u = t
    <2> DEFINE y == Now(script'[t])
    <2>1. script'[t] # <<>>  BY <1>8 DEF Uses
    <2>2. CASE y = Tx("reset") \/ y = Rx("copyout")
      <3>1. ~WaitingAt(op[t], y, v)  BY <2>2 DEF WaitingAt, Tx, Rx
      <3>2. /\ y # <<"idle", v>> /\ y # <<"ack", v>> /\ y # <<"length", v>> /\ y # <<"fill", v>>
        BY <2>2 DEF Tx, Rx
      <3>3. QED BY <1>1, <1>8, <3>1, <3>2 DEF Flight, Waiting, At1
    <2>3. CASE <<<<a, w>>, y>> \in Edges(op[t])
      <3> HIDE DEF y
      <3>1. /\ WaitingAt(op[t], y, v) =>
                 WaitingAt(op[t], <<a, w>>, v) \/ (v = w /\ a \in {"tail", "length"})
            /\ v = w /\ a \in {"tail", "length"} => ~FlyingAt(op[t], <<a, w>>, v)
            /\ y = <<"ack", v>> => v = w /\ a = "wait"
            /\ y = <<"idle", v>> => v = w /\ a = "length"
            /\ y = <<"length", v>> =>
                 /\ v = w /\ (a = "check" \/ (a = "fill" /\ op[t] = "DirectSend"))
                 /\ op[t] \in DirectOps
            /\ op[t] = "DirectSend" /\ y = <<"fill", v>> => v = w /\ a = "check"
        <4>1. op[t] \in OnTx \cup OnRx  BY <1>5, <1>8
        <4>2. \A b : <<a, w>> = <<b, v>> <=> a = b /\ w = v  OBVIOUS
        <4>3. y = <<"length", v>> => y[1] = "length"  OBVIOUS
        <4>4. QED BY <2>3, <4>1, <4>2, <4>3, EdgeFly
      <3>2. Waiting(t, v) <=> WaitingAt(op[t], <<a, w>>, v)  BY <1>3 DEF Waiting
      <3>3. Flying(t, v) <=> FlyingAt(op[t], <<a, w>>, v)  BY <1>3 DEF Flying
      <3>4. ASSUME WaitingAt(op[t], y, v)
            PROVE  \/ isSg /\ chan'[v].resetting
                   \/ chan'[v].job = None
                   \/ chan'[v].job = call[t] /\ chan'[v].irq = {}
        <4>1. CASE v = w /\ a \in {"tail", "length"}
          <5>1. Quiet(v)  BY <1>1, <1>8, <3>1, <3>3, <4>1, FindsQuiet
          <5>2. chan'[v].irq = chan[v].irq  BY <1>4, <4>1, WrittenIs
          <5>3. IF chan[v].halted \/ chan[v].resetting THEN chan'[v] = chan[v]
                ELSE chan'[v].job = call[t]
            BY <1>3, <4>1, WrittenIs
          <5>4. QED BY <5>1, <5>2, <5>3 DEF Quiet, Spent
        <4>2. CASE ~(v = w /\ a \in {"tail", "length"})
          <5>1. WaitingAt(op[t], <<a, w>>, v)  BY <3>1, <3>4, <4>2
          <5>2. ~(v = w /\ a \in {"ack", "pending"})  BY <5>1 DEF WaitingAt, Tx
          <5>3. /\ chan'[v].job = chan[v].job /\ chan'[v].irq = chan[v].irq
                /\ chan[v].resetting => chan'[v].resetting
            BY <1>4, <4>2, <5>2, WrittenIs
          <5>4. QED BY <1>1, <1>6, <1>8, <3>2, <5>1, <5>3 DEF Flight
        <4>3. QED BY <4>1, <4>2
      <3>5. ASSUME y = <<"idle", v>>, chan'[v].failed  PROVE FALSE
        <4>1. At1(t, <<"length", v>>)  BY <1>3, <3>1, <3>5 DEF At1
        <4>2. ~chan[v].failed  BY <1>1, <1>6, <1>8, <4>1 DEF Flight, Clear
        <4>3. QED BY <3>5, <4>2, WrittenIs
      <3>6. ASSUME y = <<"ack", v>>
            PROVE  /\ seen'[t] # {}
                   /\ \/ isSg /\ chan'[v].resetting
                      \/ chan'[v].job = None /\ chan'[v].irq \subseteq seen'[t]
        <4>1. v = w /\ a = "wait" /\ WaitComplete(t, v)  BY <1>3, <3>1, <3>6, Which
        <4>2. Advance(t) \/ Fail(t, "ack")  BY <4>1 DEF WaitComplete
        <4>3. chan[v].irq # {} /\ seen'[t] = chan[v].irq /\ chan' = chan
          <5>1. ~Fail(t, "ack")
            <6>1. Fail(t, "ack") => y = Tx("reset")  BY <2>1, Failed DEF y
            <6>2. Tx("reset") # <<"ack", v>>  BY DEF Tx
            <6>3. QED BY <3>6, <6>1, <6>2
          <5>2. QED BY <4>1, <5>1 DEF WaitComplete, engine, Typed, TypeOK
        <4>4. WaitingAt(op[t], <<a, w>>, v)  BY <4>1 DEF WaitingAt
        <4>5. \/ isSg /\ chan[v].resetting
              \/ chan[v].job = None
              \/ chan[v].job = call[t] /\ chan[v].irq = {}
          BY <1>1, <1>6, <1>8, <3>2, <4>4 DEF Flight
        <4>6. QED BY <4>3, <4>5
      <3>7. ASSUME y = <<"length", v>> \/ (op[t] = "DirectSend" /\ y = <<"fill", v>>)
            PROVE  Clear(v)'
        <4>1. v = w /\ (a = "check" \/ (a = "fill" /\ op[t] = "DirectSend"))
          BY <3>1, <3>7
        <4>2. /\ chan'[v].job = chan[v].job /\ chan'[v].irq = chan[v].irq
              /\ chan'[v].failed = chan[v].failed
          BY <1>4, <4>1, WrittenIs
        <4>3. Clear(v)
          <5>1. CASE a = "fill" /\ op[t] = "DirectSend"
            BY <1>1, <1>3, <1>6, <1>8, <4>1, <5>1 DEF Flight, At1
          <5>2. CASE a = "check"
            <6>1. CheckHalt(t, v)  BY <1>3, <4>1, <5>2, Which
            <6>2. ~Fail(t, "check")
              <7>1. Fail(t, "check") => FALSE  BY <2>1, Failed
              <7>2. QED BY <7>1
            <6>3. ~chan[v].halted  BY <6>1, <6>2 DEF CheckHalt
            <6>4. op[t] \in DirectOps  BY <3>1, <3>7 DEF DirectOps
            <6>5. ~isSg
              BY <1>1, <1>8, <6>4 DEF Control, Uses, SgOps, DirectOps
            <6>6. ~Flying(t, v)  BY <3>3, <5>2 DEF FlyingAt, WaitingAt, Tx
            <6>7. Quiet(v)  BY <1>1, <1>8, <6>6, FindsQuiet
            <6>8. QED BY <6>3, <6>5, <6>7 DEF Quiet, Spent, Clear, Registers
          <5>3. QED BY <4>1, <5>1, <5>2
        <4>4. QED BY <4>2, <4>3 DEF Clear
      <3>8. QED BY <1>1, <1>8, <3>4, <3>5, <3>6, <3>7 DEF Flight, Waiting, At1, y
    <2>4. QED BY <1>3, <2>1, <2>2, <2>3
  <1>9. QED BY <1>7, <1>8

LEMMA MoveRunning ==
  ASSUME Typed, Control, Registers, NEW t \in Threads, NEW w \in Channels, Moving(t, w),
         NEW u \in Threads
  PROVE  Running(u)'
  <1>1. /\ UNCHANGED <<case, isSg, up, op, call, calls, owner>>
        /\ u # t => script'[u] = script[u]
    BY Others
  <1>2. PICK a \in Stages \ {"lock", "up"} :
          /\ At(t, a, w) /\ Now(script[t]) = <<a, w>> /\ script[t] # <<>>
          /\ \/ script'[t] = <<>>
             \/ Now(script'[t]) = Tx("reset")
             \/ Now(script'[t]) = Rx("copyout")
             \/ <<<<a, w>>, Now(script'[t])>> \in Edges(op[t])
    BY Onward
  <1>3. \A b : At(t, b, w) => b = a  BY <1>2 DEF At
  <1>4. CASE u # t
    <2>1. op[t] # "none"  BY <1>2 DEF Control
    <2>2. op[u] = "run" => up  BY <1>4, <2>1 DEF Control
    <2>3. op[u] = "run" => script[u] = <<>>  BY <2>2 DEF Control, Owning
    <2>4. Now(<<>>) = Done /\ Done \notin {Tx("poll"), Rx("reset"), Rx("poll"), Rx("up")}
      BY NothingLeft DEF Done, Tx, Rx
    <2>5. QED BY <1>1, <1>4, <2>3, <2>4 DEF Running, At1
  <1>5. CASE u = t /\ op[t] = "run"
    <2> DEFINE y == Now(script'[t])
    <2>1. Running(t)  BY DEF Registers
    <2>2. /\ \A x : At1(t, x) <=> x = <<a, w>>
          /\ \A x : At1(t, x)' <=> x = y
      BY <1>2 DEF At1
    <2>3. Clear("tx") /\ a \notin {"tail", "length", "ack", "pending"} => Clear("tx")'
      BY <1>3, PlacesAre, WrittenIs DEF Clear
    <2>4. Clear("rx") /\ a \notin {"tail", "length", "ack", "pending"} => Clear("rx")'
      BY <1>3, PlacesAre, WrittenIs DEF Clear
    <2>5. CASE script'[t] = <<>> \/ y = Tx("reset") \/ y = Rx("copyout")
      <3>1. y \notin {Tx("poll"), Rx("reset"), Rx("poll"), Rx("up")}
        BY <2>5, NothingLeft DEF Done, Tx, Rx
      <3>2. QED BY <1>5, <2>2, <3>1 DEF Running
    <2>6. CASE <<<<a, w>>, y>> \in Edges(op[t]) /\ script'[t] # <<>>
               /\ y # Tx("reset") /\ y # Rx("copyout")
      <3> HIDE DEF y
      <3>1. op[t] \in Owning  BY <1>5 DEF Owning
      <3>2. /\ y = Tx("poll") => <<a, w>> = Tx("reset")
            /\ y = Rx("reset") => <<a, w>> = Tx("poll")
            /\ y = Rx("poll") => <<a, w>> = Rx("reset")
            /\ y = Rx("up") => <<a, w>> = Rx("poll")
        BY <2>6, <3>1, EdgeRun
      <3>3. y = Tx("poll") => chan'["tx"].resetting
        BY <1>2, <3>2, PlacesAre, WrittenIs DEF Tx
      <3>4. y = Rx("poll") => chan'["rx"].resetting
        BY <1>2, <3>2, PlacesAre, WrittenIs DEF Rx
      <3>5. a = "poll" => ~chan[w].resetting
        <4>1. ASSUME a = "poll"  PROVE ~chan[w].resetting
          <5>1. PollReset(t, w)  BY <1>2, <4>1, Which
          <5>2. script' = [script EXCEPT ![t] = Unreset(script[t])] =>
                  script'[t] = Unreset(script[t])
            BY DEF Typed, TypeOK
          <5>3. IsRest(op[t], script[t])  BY DEF Control
          <5>4. Unreset(script[t]) = <<>> \/ Now(Unreset(script[t])) = Rx("copyout")
            BY <1>2, <5>3, UnresetIs
          <5>5. script' # [script EXCEPT ![t] = Unreset(script[t])]
            BY <2>6, <5>2, <5>4 DEF y
          <5>6. QED BY <5>1, <5>5 DEF PollReset
        <4>2. QED BY <4>1
      <3>6. /\ <<a, w>> = Tx("poll") => chan["tx"].resetting \/ Clear("tx")
            /\ <<a, w>> \in {Rx("reset"), Rx("poll"), Rx("up")} => Clear("tx")
            /\ <<a, w>> = Rx("poll") => chan["rx"].resetting \/ Clear("rx")
        BY <1>2, <1>5, <2>1, <2>2 DEF Running
      <3>7. \A st : /\ <<a, w>> = Tx(st) => a = st /\ w = "tx"
                    /\ <<a, w>> = Rx(st) => a = st /\ w = "rx"
        BY DEF Tx, Rx
      <3>8. y = Rx("reset") => Clear("tx")'
        <4>1. HAVE y = Rx("reset")
        <4>2. <<a, w>> = Tx("poll") /\ a = "poll" /\ w = "tx"  BY <3>2, <3>7, <4>1
        <4>3. QED BY <2>3, <3>5, <3>6, <4>2
      <3>9. y = Rx("poll") => Clear("tx")'
        <4>1. HAVE y = Rx("poll")
        <4>2. <<a, w>> = Rx("reset") /\ a = "reset"  BY <3>2, <3>7, <4>1
        <4>3. QED BY <2>3, <3>6, <4>2
      <3>10. y = Rx("up") => Clear("tx")' /\ Clear("rx")'
        <4>1. HAVE y = Rx("up")
        <4>2. <<a, w>> = Rx("poll") /\ a = "poll" /\ w = "rx"  BY <3>2, <3>7, <4>1
        <4>3. QED BY <2>3, <2>4, <3>5, <3>6, <4>2
      <3>11. /\ Tx("poll") \notin {Rx("reset"), Rx("poll"), Rx("up")}
             /\ Rx("poll") \notin {Rx("reset"), Rx("up")} /\ Rx("reset") # Rx("up")
        BY DEF Tx, Rx
      <3>12. Now(script[t])' = y  BY DEF y
      <3>13. QED BY <1>1, <1>5, <3>3, <3>4, <3>8, <3>9, <3>10, <3>12 DEF Running, At1
    <2>7. QED BY <1>2, <1>5, <2>5, <2>6
  <1>6. CASE u = t /\ op[t] # "run"  BY <1>1, <1>6 DEF Running
  <1>7. QED BY <1>4, <1>5, <1>6

LEMMA MoveRegisters ==
  ASSUME Typed, Control, Registers, NEW t \in Threads, NEW w \in Channels, Moving(t, w)
  PROVE  Registers'
  <1>1. ASSUME NEW v \in Channels
        PROVE  /\ chan'[v].failed => chan'[v].halted
               /\ isSg' => chan'[v].dst = "rx"
               /\ up' => chan'[v].job # Old
    <2>1. UNCHANGED <<isSg, up, calls>>  BY Others
    <2>2. /\ chan[v].failed => chan[v].halted
          /\ isSg => chan[v].dst = "rx"
          /\ up => chan[v].job # Old
      BY DEF Registers
    <2>3. At(t, "length", w) => ~isSg
      <3>1. ASSUME At(t, "length", w)  PROVE ~isSg
        <4>1. op[t] \in OnTx \cup OnRx  BY <3>1, InCall
        <4>2. StageOf(op[t], <<"length", w>>) /\ (isSg <=> op[t] \in SgOps)
          BY <3>1, <4>1, Works
        <4>3. op[t] \in DirectOps  BY <4>1, <4>2, StageIs
        <4>4. QED BY <4>2, <4>3 DEF SgOps, DirectOps
      <3>2. QED BY <3>1
    <2>4. call[t] # Old
      <3>1. call[t] \in 0..calls /\ calls \in 0..MaxCalls  BY TypedIs
      <3>2. QED BY <3>1, PlacesAre DEF Old
    <2>5. QED BY <2>1, <2>2, <2>3, <2>4, WrittenIs
  <1>2. QED BY <1>1, MoveIdle, MoveFlight, MoveRunning DEF Registers

LEMMA OutsideRegisters ==
  ASSUME Typed, Control, Registers, NEW t \in Threads, Outside(t)
  PROVE  Registers'
  <1>1. /\ UNCHANGED <<case, isSg, seen, chan, chain, wire, arrived, reported, got, abandoned>>
        /\ \A u \in Threads : u # t =>
             /\ op'[u] = op[u] /\ script'[u] = script[u] /\ call'[u] = call[u]
             /\ \A v \in Channels : Uses(u, v)' <=> Uses(u, v)
        /\ \A v \in Channels : ~Uses(t, v)
        /\ \A v \in Channels : Uses(t, v)' =>
             /\ op'[t] = op[t] /\ op[t] \in OnTx \cup OnRx
             /\ Now(script[t])[1] = "lock" /\ Now(script'[t])[1] \in {"chain", "alloc", "pending"}
             /\ <<Now(script[t]), Now(script'[t])>> \in Edges(op[t])
        /\ up' => up \/ (op[t] = "run" /\ At1(t, Rx("up")) /\ script[t] # <<>>)
        /\ op'[t] = "run" => \/ script'[t] = <<>> \/ Now(script'[t]) = Tx("reset")
    BY OutsideIs
  <1>2. op[t] = "run" /\ At1(t, Rx("up")) => Clear("tx") /\ Clear("rx")
    <2>1. Running(t)  BY DEF Registers
    <2>2. QED BY <2>1 DEF Running, At1
  <1>3. \A v \in Channels : v = "tx" \/ v = "rx"  BY DEF Channels
  <1>4. ASSUME NEW v \in Channels, up'
        PROVE  chan'[v].job # Old /\ Idle(v)'
    <2>1. CASE up
      <3>1. chan[v].job # Old /\ Idle(v)  BY <2>1 DEF Registers
      <3>2. \A u \in Threads : Uses(u, v) /\ Flying(u, v) => Uses(u, v)' /\ Flying(u, v)'
        BY <1>1 DEF Flying
      <3>3. Fine(v)' => Fine(v)  BY <1>1 DEF Fine, Separate
      <3>4. Quiet(v) => Quiet(v)'  BY <1>1 DEF Quiet, Spent
      <3>5. QED BY <1>1, <2>1, <3>1, <3>2, <3>3, <3>4 DEF Idle
    <2>2. CASE ~up
      <3>1. Clear(v)  BY <1>1, <1>2, <1>3, <1>4, <2>2
      <3>2. None # Old  BY PlacesAre DEF None, Old
      <3>3. QED BY <1>1, <3>1, <3>2 DEF Idle, Quiet, Spent, Clear
    <2>3. QED BY <2>1, <2>2
  <1>5. ASSUME NEW u \in Threads, NEW v \in Channels
        PROVE  Flight(u, v)'
    <2>1. CASE u # t
      <3>1. Flight(u, v)  BY DEF Registers
      <3>2. Fine(v)' <=> Fine(v)  BY <1>1 DEF Fine, Separate
      <3>3. Waiting(u, v)' <=> Waiting(u, v)  BY <1>1, <2>1 DEF Waiting
      <3>4. \A x : At1(u, x)' <=> At1(u, x)  BY <1>1, <2>1 DEF At1
      <3>5. Clear(v)' <=> Clear(v)  BY <1>1 DEF Clear
      <3>6. QED BY <1>1, <2>1, <3>1, <3>2, <3>3, <3>4, <3>5 DEF Flight
    <2>2. CASE u = t
      <3>1. SUFFICES ASSUME Uses(t, v)'  PROVE Flight(t, v)'  BY <2>2 DEF Flight
      <3> DEFINE y == Now(script'[t])
      <3>2. y[1] \in {"chain", "alloc", "pending"}  BY <1>1, <3>1
      <3>3. ~WaitingAt(op'[t], y, v)  BY <3>2 DEF WaitingAt, Tx
      <3>4. y \notin {<<"idle", v>>, <<"ack", v>>, <<"fill", v>>, <<"length", v>>}
        BY <3>2
      <3>5. QED BY <3>3, <3>4 DEF Flight, Waiting, At1
    <2>3. QED BY <2>1, <2>2
  <1>6. ASSUME NEW u \in Threads  PROVE Running(u)'
    <2>1. CASE u # t
      <3>1. Running(u)  BY DEF Registers
      <3>2. \A x : At1(u, x)' <=> At1(u, x)  BY <1>1, <2>1 DEF At1
      <3>3. (Clear("tx")' <=> Clear("tx")) /\ (Clear("rx")' <=> Clear("rx"))
        BY <1>1 DEF Clear
      <3>4. QED BY <1>1, <2>1, <3>1, <3>2, <3>3 DEF Running
    <2>2. CASE u = t
      <3>1. op'[t] = "run" =>
              Now(script'[t]) \notin {Tx("poll"), Rx("reset"), Rx("poll"), Rx("up")}
        BY <1>1, NothingLeft DEF Done, Tx, Rx
      <3>2. QED BY <2>2, <3>1 DEF Running, At1
    <2>3. QED BY <2>1, <2>2
  <1>7. \A v \in Channels : ~up' => Idle(v)'  BY DEF Idle
  <1>8. QED BY <1>1, <1>4, <1>5, <1>6, <1>7 DEF Registers

(* What the engine leaves alone.                                            *)
LEMMA EngineLeaves ==
  ASSUME Typed, Engine
  PROVE  /\ UNCHANGED <<case, isSg, up, op, call, script, seen, calls, owner>>
         /\ UNCHANGED <<reported, got, abandoned>>
         /\ \A v \in Channels : Fine(v)' <=> Fine(v)
         /\ \A u \in Threads : /\ \A x : At1(u, x)' <=> At1(u, x)
                               /\ \A v \in Channels : /\ Uses(u, v)' <=> Uses(u, v)
                                                      /\ Flying(u, v)' <=> Flying(u, v)
                                                      /\ Waiting(u, v)' <=> Waiting(u, v)
  <1>1. UNCHANGED threads /\ UNCHANGED history  BY EngineIs, PlacesAre
  <1>2. QED BY <1>1 DEF threads, history, Fine, Separate, At1, Uses, Holds, Flying, Waiting

LEMMA EngineRegisters ==
  ASSUME Typed, Control, Registers, Engine
  PROVE  Registers'
  <1>1. /\ UNCHANGED <<case, isSg, up, op, call, script, seen, calls, owner>>
        /\ \A v \in Channels : Fine(v)' <=> Fine(v)
        /\ \A u \in Threads : /\ \A x : At1(u, x)' <=> At1(u, x)
                              /\ \A v \in Channels : /\ Uses(u, v)' <=> Uses(u, v)
                                                     /\ Flying(u, v)' <=> Flying(u, v)
                                                     /\ Waiting(u, v)' <=> Waiting(u, v)
    BY EngineLeaves
  <1>2. \A v \in Channels : EngineDoes(v)  BY EngineIs
  <1>3. \A v \in Channels : chan[v].irq \in SUBSET {"ioc", "err"}
    BY TypedIs DEF SharedType, ChanType
  <1>4. None # Old  BY PlacesAre DEF None, Old
  <1> USE DEF ResetState
  <1>5. ASSUME NEW v \in Channels
        PROVE  /\ chan'[v].failed => chan'[v].halted
               /\ isSg' => chan'[v].dst = "rx"
               /\ up' => chan'[v].job # Old
               /\ Clear(v) => Clear(v)'
               /\ Quiet(v) => Quiet(v)'
    <2>1. /\ chan[v].failed => chan[v].halted
          /\ isSg => chan[v].dst = "rx"
          /\ up => chan[v].job # Old
      BY DEF Registers
    <2>2. EngineDoes(v)  BY <1>2
    <2>3. Clear(v) => Clear(v)'  BY <2>2 DEF EngineDoes, Busy, Clear
    <2>4. Quiet(v) => Quiet(v)'  BY <1>1, <2>2 DEF EngineDoes, Busy, Quiet, Spent
    <2>5. QED BY <1>1, <1>4, <2>1, <2>2, <2>3, <2>4 DEF EngineDoes
  <1>6. ASSUME NEW v \in Channels  PROVE Idle(v)'
    <2>1. Idle(v)  BY DEF Registers
    <2>2. QED BY <1>1, <1>5, <2>1 DEF Idle
  <1>7. ASSUME NEW u \in Threads, NEW v \in Channels  PROVE Flight(u, v)'
    <2>1. Flight(u, v) /\ (chan[v].failed => chan[v].halted)  BY DEF Registers
    <2>2. EngineDoes(v)  BY <1>2
    <2>3. ASSUME \/ isSg /\ chan[v].resetting
                 \/ chan[v].job = None
                 \/ chan[v].job = call[u] /\ chan[v].irq = {}
          PROVE  \/ isSg /\ chan'[v].resetting
                 \/ chan'[v].job = None
                 \/ chan'[v].job = call[u] /\ chan'[v].irq = {}
      BY <2>2, <2>3 DEF EngineDoes
    <2>4. ASSUME chan[v].failed => "err" \in chan[v].irq, chan'[v].failed
          PROVE  "err" \in chan'[v].irq
      <3>1. CASE chan'[v].irq = chan[v].irq \cup {"err"}  BY <3>1
      <3>2. CASE /\ chan'[v].failed = chan[v].failed
                 /\ chan'[v].irq = chan[v].irq \/ chan'[v].irq = chan[v].irq \cup {"ioc"}
        BY <2>4, <3>2
      <3>3. CASE chan'[v] = chan[v]  BY <2>4, <3>3
      <3>4. CASE chan'[v] = ResetState
        <4>1. ~chan'[v].failed  BY <3>4
        <4>2. QED BY <2>4, <4>1
      <3>5. CASE ~chan'[v].failed  BY <2>4, <3>5
      <3>6. QED BY <2>2, <3>1, <3>2, <3>3, <3>4, <3>5 DEF EngineDoes
    <2>5. ASSUME \/ isSg /\ chan[v].resetting
                 \/ chan[v].job = None /\ chan[v].irq \subseteq seen[u]
          PROVE  \/ isSg /\ chan'[v].resetting
                 \/ chan'[v].job = None /\ chan'[v].irq \subseteq seen[u]
      BY <2>2, <2>5 DEF EngineDoes, Busy
    <2>6. QED BY <1>1, <1>5, <2>1, <2>3, <2>4, <2>5 DEF Flight
  <1>8. ASSUME NEW u \in Threads  PROVE Running(u)'
    <2>1. Running(u)  BY DEF Registers
    <2>2. \A v \in Channels : chan[v].resetting \/ Clear(v) => chan'[v].resetting \/ Clear(v)'
      <3>1. TAKE v \in Channels
      <3>2. CASE Clear(v)  BY <1>5, <3>2
      <3>3. CASE chan[v].resetting
        BY <1>2, <3>3 DEF EngineDoes, Busy, Clear
      <3>4. QED BY <3>2, <3>3
    <2>3. QED BY <1>1, <1>5, <2>1, <2>2, PlacesAre DEF Running
  <1>9. QED BY <1>5, <1>6, <1>7, <1>8 DEF Registers

LEMMA RegistersStep ==
  ASSUME Typed, Control, Registers, [Next]_vars
  PROVE  Registers'
  <1>1. CASE UNCHANGED vars
    <2>1. /\ UNCHANGED <<case, isSg, up, op, call, script, seen, calls, owner>>
          /\ UNCHANGED <<chan, abandoned>>
      BY <1>1 DEF vars, threads, engine, history
    <2>2. QED BY <2>1 DEF Registers, Idle, Flight, Running, Quiet, Spent, Clear, Fine, Separate,
                 Uses, Holds, Flying, Waiting, At1
  <1>2. QED BY <1>1, NextIs, MoveRegisters, OutsideRegisters, EngineRegisters

LEMMA InitRegisters ==
  ASSUME Init
  PROVE  Registers
  <1>1. ASSUME NEW c \in Leftover  PROVE (c.failed => c.halted) /\ c.dst = "rx"
    <2>1. CASE c = ResetState  BY <2>1 DEF ResetState
    <2>2. CASE c = [ResetState EXCEPT !.failed = TRUE, !.irq = {"err"}]
      <3>1. c.halted /\ c.dst = "rx"  BY <2>2 DEF ResetState
      <3>2. QED BY <3>1
    <2>3. CASE c \in [run : {TRUE}, halted : {FALSE}, failed : {FALSE}, resetting : {FALSE},
                      irq : {{}, {"ioc"}}, job : {None, Old}, dst : {"rx"}]
      <3>1. c.failed = FALSE /\ c.dst = "rx"  BY <2>3
      <3>2. QED BY <3>1
    <2>4. QED BY <2>1, <2>2, <2>3 DEF Leftover
  <1>2. \A w \in Channels : chan[w] \in Leftover  BY DEF Init
  <1>3. up = FALSE /\ \A t \in Threads : op[t] = "none"  BY DEF Init
  <1>4. "none" \notin OnTx \cup OnRx /\ "none" # "run"  BY DEF OnTx, OnRx, Sends
  <1>5. \A t \in Threads : Running(t) /\ \A w \in Channels : Flight(t, w)
    BY <1>3, <1>4 DEF Running, Flight, Uses
  <1>6. \A w \in Channels : Idle(w)  BY <1>3 DEF Idle
  <1>7. QED BY <1>1, <1>2, <1>3, <1>5, <1>6 DEF Registers

-------------------------------------------------------------------------------
(* What is sent.                                                            *)

(* The stages of a call that sends: before it rewrites the chain or the     *)
(* buffer nothing is under way on mm2s, and what it wrote is there until it *)
(* starts its transfer.                                                     *)
LEMMA EdgeSend ==
  ASSUME NEW o \in OnTx \cup OnRx, NEW x, NEW y, <<x, y>> \in Edges(o)
  PROVE  /\ TxChained(o, y) => TxChained(o, x) \/ x = Tx("chain")
         /\ TxChained(o, x) => ~FlyingAt(o, x, "tx")
         /\ TxFilled(o, y) => TxFilled(o, x) \/ x = Tx("fill")
         /\ TxFilled(o, x) => ~FlyingAt(o, x, "tx")
         /\ x[2] = "tx" /\ x[1] \in {"chain", "fill"} => ~FlyingAt(o, x, "tx")
         /\ o \in SgOps /\ x = Tx("tail") => TxChained(o, x) /\ TxFilled(o, x)
         /\ x = Tx("length") => TxFilled(o, x)
         /\ o \in Sends /\ y \in {Tx("wait"), Tx("ack"), Tx("process")} =>
              x \in {Tx("tail"), Tx("wait"), Tx("ack")} /\ o \in SgOps
         /\ o = "DirectSend" =>
              /\ y \in {Tx("idle"), Tx("wait")} => x \in {Tx("length"), Tx("idle")}
              /\ y = Tx("ack") => x = Tx("wait")
              /\ y = Tx("sent") => x = Tx("ack")
  <1>1. CASE o \in Sends
    BY <1>1 DEF TxChained, TxFilled, WaitingAt, FlyingAt, Edges, Owning, Sends, SgOps, Tx, Rx
  <1>2. CASE o = "Transf"
    BY <1>2 DEF TxChained, TxFilled, WaitingAt, FlyingAt, Edges, Owning, Sends, SgOps, Tx, Rx
  <1>3. CASE o = "DirectSend"
    BY <1>3 DEF TxChained, TxFilled, WaitingAt, FlyingAt, Edges, Owning, Sends, SgOps, Tx, Rx
  <1>4. CASE o = "Recv"
    BY <1>4 DEF TxChained, TxFilled, WaitingAt, FlyingAt, Edges, Owning, Sends, SgOps, Tx, Rx
  <1>5. CASE o \in {"DirectRecv", "DirectManualRecv"}
    BY <1>5 DEF TxChained, TxFilled, WaitingAt, FlyingAt, Edges, Owning, Sends, SgOps, Tx, Rx
  <1>6. QED BY <1>1, <1>2, <1>3, <1>4, <1>5 DEF OnTx, OnRx

(* What a move of t writes elsewhere.                                       *)
LEMMA MoveData ==
  ASSUME Typed, Control, NEW t \in Threads, NEW w \in Channels, Moving(t, w)
  PROVE  /\ UNCHANGED <<wire, arrived>>
         /\ \A v \in Channels : chain'[v] # chain[v] => v = w /\ (At(t, "chain", w) \/ At(t, "process", w))
         /\ At(t, "chain", w) =>
              chain'[w] = [call |-> call[t], done |-> FALSE] \/ script'[t] = <<>>
         /\ At(t, "process", w) => chain'[w].done = FALSE
         /\ \A p \in Places : mem'[p] # mem[p] => p = w /\ At(t, "fill", w)
         /\ At(t, "fill", w) => mem'[w] = IF w = "tx" THEN call[t] ELSE None
         /\ reported' # reported =>
              /\ reported' = reported \cup {call[t]}
              /\ \/ At(t, "process", w) /\ op[t] \in Sends /\ chain[w].done
                 \/ At(t, "sent", w)
         /\ got' # got => /\ At(t, "copyout", w)
         /\ At(t, "copyout", w) =>
              got' = got \cup {[call |-> call[t], packet |-> mem[Target(t)]]}
         /\ At(t, "wait", w) /\ script'[t] # <<>> /\ Now(script'[t]) # Tx("reset") =>
              chan[w].irq # {} /\ seen'[t] = chan[w].irq
         /\ ~At(t, "wait", w) => seen' = seen
         /\ At(t, "ack", w) /\ script'[t] # <<>> /\ Now(script'[t]) # Tx("reset") =>
              "err" \notin seen[t]
  <1>1. PICK a \in Stages \ {"lock", "up"} : At(t, a, w)  BY Moves
  <1>2. \A b : At(t, b, w) <=> b = a  BY <1>1 DEF At
  <1>3. /\ chain \in [Channels -> ChainType(calls)] /\ mem \in [Places -> Nat]
        /\ seen \in [Threads -> SUBSET {"ioc", "err"}] /\ w \in Places
    BY TypedIs, PlacesAre DEF SharedType
  <1>4. ASSUME NEW st, Fail(t, st)  PROVE script'[t] = <<>> \/ Now(script'[t]) = Tx("reset")
    BY <1>4, Failed
  <1>5. CASE a \in {"alloc", "start", "check", "tail", "length", "pending", "idle", "reset", "poll"}
    <2>1. UNCHANGED <<wire, arrived, chain, mem, reported, got, seen>>
      BY <1>1, <1>5, Which DEF AllocBufferMem, Start, CheckHalt, SetTailDesc, SetLength, Pending,
         WaitDirectComplete, Reset, PollReset, engine, history
    <2>2. QED BY <1>2, <1>5, <2>1
  <1>6. CASE a = "chain"
    <2>1. InitDescriptors(t, w)  BY <1>1, <1>6, Which
    <2>2. UNCHANGED <<wire, arrived, mem, reported, got, seen>>
      BY <2>1 DEF InitDescriptors, history
    <2>3. \/ chain' = [chain EXCEPT ![w] = [call |-> call[t], done |-> FALSE]]
          \/ Fail(t, "chain") /\ chain' = chain
      BY <2>1 DEF InitDescriptors
    <2>4. Fail(t, "chain") => script'[t] = <<>>  BY Failed
    <2>5. /\ \A v \in Channels : v # w => chain'[v] = chain[v]
          /\ chain'[w] = [call |-> call[t], done |-> FALSE] \/ script'[t] = <<>>
      BY <1>3, <2>3, <2>4
    <2>6. QED BY <1>2, <1>6, <2>2, <2>5
  <1>7. CASE a = "fill"
    <2>1. FillBuffer(t, w)  BY <1>1, <1>7, Which
    <2>2. UNCHANGED <<wire, arrived, chain, reported, got, seen>>
      BY <2>1 DEF FillBuffer, history
    <2>3. mem' = [mem EXCEPT ![w] = IF w = "tx" THEN call[t] ELSE 0]  BY <2>1 DEF FillBuffer
    <2>4. QED BY <1>2, <1>3, <1>7, <2>2, <2>3 DEF None
  <1>8. CASE a = "wait"
    <2>1. WaitComplete(t, w)  BY <1>1, <1>8, Which
    <2>2. UNCHANGED <<wire, arrived, chain, mem, reported, got>>
      BY <2>1 DEF WaitComplete, engine
    <2>3. \/ chan[w].irq # {} /\ seen' = [seen EXCEPT ![t] = chan[w].irq]
          \/ Fail(t, "ack")
      BY <2>1 DEF WaitComplete
    <2>4. QED BY <1>2, <1>3, <1>4, <1>8, <2>2, <2>3
  <1>9. CASE a = "ack"
    <2>1. AckIRQ(t, w)  BY <1>1, <1>9, Which
    <2>2. UNCHANGED <<wire, arrived, chain, mem, reported, got, seen>>
      BY <2>1 DEF AckIRQ, history
    <2>3. "err" \notin seen[t] \/ Fail(t, "ack")  BY <2>1 DEF AckIRQ
    <2>4. QED BY <1>2, <1>4, <1>9, <2>2, <2>3
  <1>10. CASE a = "process"
    <2>1. ProcessDescriptors(t, w)  BY <1>1, <1>10, Which
    <2>2. UNCHANGED <<wire, arrived, mem, got, seen>>  BY <2>1 DEF ProcessDescriptors
    <2>3. chain' = [chain EXCEPT ![w].done = FALSE]  BY <2>1 DEF ProcessDescriptors
    <2>4. chain'[w].done = FALSE /\ \A v \in Channels : v # w => chain'[v] = chain[v]
      BY <1>3, <2>3 DEF ChainType
    <2>5. reported' # reported => /\ reported' = reported \cup {call[t]}
                                  /\ op[t] \in Sends /\ chain[w].done
      BY <2>1 DEF ProcessDescriptors, Sends
    <2>6. QED BY <1>2, <1>10, <2>2, <2>4, <2>5
  <1>11. CASE a = "sent"
    <2>1. /\ UNCHANGED <<wire, arrived, chain, mem, got, seen>>
          /\ reported' = reported \cup {call[t]}
      BY <1>1, <1>11, Which DEF ReturnTxLength, engine
    <2>2. QED BY <1>2, <1>11, <2>1
  <1>12. CASE a = "copyout"
    <2>1. /\ UNCHANGED <<wire, arrived, chain, mem, reported, seen>>
          /\ got' = got \cup {[call |-> call[t], packet |-> mem[Target(t)]]}
      BY <1>1, <1>12, Which DEF CopyOut, engine, Target
    <2>2. QED BY <1>2, <1>12, <2>1
  <1>13. QED BY <1>5, <1>6, <1>7, <1>8, <1>9, <1>10, <1>11, <1>12 DEF Stages

(* A call rewrites the chain and the buffer of a channel only while nothing *)
(* is under way on it.                                                      *)
LEMMA Rewrites ==
  ASSUME Typed, Control, Registers, NEW t \in Threads, NEW w \in Channels, Moving(t, w),
         Fine(w), At(t, "chain", w) \/ At(t, "process", w) \/ (At(t, "fill", w) /\ w = "tx")
                  \/ (At(t, "fill", w) /\ isSg)
  PROVE  /\ Uses(t, w) /\ op[t] \in OnTx \cup OnRx
         /\ chan[w].job = None \/ chan[w].resetting
         /\ ~Flying(t, w)
  <1>1. PICK a \in {"chain", "process", "fill"} : At(t, a, w)  OBVIOUS
  <1>2. op[t] \in OnTx \cup OnRx  BY <1>1, InCall
  <1>3. Uses(t, w) /\ Now(script[t]) = <<a, w>>  BY <1>1, <1>2, Works, AtStage
  <1>4. ~Flying(t, w)
    <2>1. ~FlyingAt(op[t], <<a, w>>, w)  BY <1>1 DEF FlyingAt, WaitingAt, Tx
    <2>2. QED BY <1>3, <2>1 DEF Flying
  <1>5. Quiet(w)  BY <1>3, <1>4, FindsQuiet
  <1>6. QED BY <1>2, <1>3, <1>4, <1>5 DEF Quiet, Spent

(* What is given to the engine is what is in the chain and in the buffer.   *)
TxGiven ==
  chan["tx"].job # None /\ ~chan["tx"].resetting =>
    mem["tx"] = chan["tx"].job /\
    (isSg => chain["tx"] = [call |-> chan["tx"].job, done |-> FALSE])

LEMMA MoveTxGiven ==
  ASSUME Typed, Control, Registers, NEW t \in Threads, NEW w \in Channels, Moving(t, w),
         "tx" \notin abandoned', TxGiven, Sending(t)
  PROVE  TxGiven'
  <1> SUFFICES ASSUME chan'["tx"].job # None, ~chan'["tx"].resetting
      PROVE  /\ mem'["tx"] = chan'["tx"].job
             /\ isSg' => chain'["tx"] = [call |-> chan'["tx"].job, done |-> FALSE]
    BY DEF TxGiven
  <1>1. UNCHANGED <<isSg, up, op, call>> /\ Fine("tx")
    BY Others, PlacesAre DEF Fine
  <1>2. PICK a \in Stages \ {"lock", "up"} : At(t, a, w)  BY Moves
  <1>3. \A b : At(t, b, w) <=> b = a  BY <1>2 DEF At
  <1>4. ~chan["tx"].resetting  BY PlacesAre, WrittenIs
  <1>5. CASE w = "tx" /\ a \in {"tail", "length"}
    <2>1. mem'["tx"] = mem["tx"] /\ chain'["tx"] = chain["tx"]
      <3>1. ~At(t, "chain", w) /\ ~At(t, "process", w) /\ ~At(t, "fill", w)  BY <1>3, <1>5
      <3>2. QED BY <3>1, MoveData, PlacesAre
    <2>2. CASE chan'["tx"].job = chan["tx"].job
      BY <1>1, <1>4, <2>1, <2>2 DEF TxGiven
    <2>3. CASE chan'["tx"].job # chan["tx"].job
      <3>1. chan'["tx"].job = call[t]  BY <2>3, PlacesAre, WrittenIs
      <3>2. op[t] \in OnTx \cup OnRx  BY <1>2, <1>5, InCall
      <3>3. /\ Uses(t, "tx") /\ Now(script[t]) = <<a, "tx">> /\ (isSg <=> op[t] \in SgOps)
            /\ StageOf(op[t], <<a, "tx">>)
        BY <1>2, <1>5, <3>2, Works, AtStage
      <3>4. a = "length" => op[t] \in DirectOps  BY <1>5, <3>2, <3>3, PlacesAre, StageIs
      <3>5. a = "length" => ~isSg  BY <3>3, <3>4 DEF SgOps, DirectOps
      <3>6. <<a, "tx">> \notin Lasts(op[t])  BY <1>5, <3>2 DEF Lasts, Tx, Rx
      <3>7. \E y : <<<<a, "tx">>, y>> \in Edges(op[t])  BY <3>3, <3>6 DEF StageOf
      <3>8. a = "tail" => op[t] \in SgOps  BY <1>5, <3>2, <3>3, PlacesAre, StageIs
      <3>9. /\ TxFilled(op[t], <<a, "tx">>)
            /\ isSg => TxChained(op[t], <<a, "tx">>)
        <4>1. CASE a = "tail"
          <5>1. <<a, "tx">> = Tx("tail")  BY <4>1 DEF Tx
          <5>2. QED BY <3>2, <3>7, <3>8, <4>1, <5>1, EdgeSend
        <4>2. CASE a = "length"
          <5>1. <<a, "tx">> = Tx("length")  BY <4>2 DEF Tx
          <5>2. QED BY <3>2, <3>5, <3>7, <4>2, <5>1, EdgeSend
        <4>3. QED BY <1>5, <4>1, <4>2
      <3>10. QED BY <1>1, <2>1, <3>1, <3>3, <3>9 DEF Sending
    <2>4. QED BY <2>2, <2>3
  <1>6. CASE ~(w = "tx" /\ a \in {"tail", "length"})
    <2>1. chan'["tx"].job = chan["tx"].job  BY <1>3, <1>6, PlacesAre, WrittenIs
    <2>2. ~(w = "tx" /\ a \in {"chain", "process", "fill"})
      <3>1. ASSUME w = "tx", a \in {"chain", "process", "fill"}  PROVE FALSE
        <4>1. chan["tx"].job = None \/ chan["tx"].resetting  BY <1>1, <1>2, <3>1, Rewrites
        <4>2. QED BY <1>4, <2>1, <4>1
      <3>2. QED BY <3>1
    <2>3. mem'["tx"] = mem["tx"] /\ chain'["tx"] = chain["tx"]
      BY <1>3, <2>2, MoveData, PlacesAre
    <2>4. QED BY <1>1, <1>4, <2>1, <2>3 DEF TxGiven
  <1>7. QED BY <1>5, <1>6

LEMMA MoveSending ==
  ASSUME Typed, Control, Registers, NEW t \in Threads, NEW w \in Channels, Moving(t, w),
         "tx" \notin abandoned', NEW u \in Threads, Sending(u)
  PROVE  Sending(u)'
  <1> SUFFICES ASSUME Uses(u, "tx")'  PROVE Sending(u)'
    BY DEF Sending
  <1>1. /\ UNCHANGED <<case, isSg, up, op, call, calls, owner>> /\ Fine("tx") /\ Uses(u, "tx")
        /\ u # t => script'[u] = script[u] /\ seen'[u] = seen[u]
    BY Others, PlacesAre DEF Fine
  <1>2. PICK a \in Stages \ {"lock", "up"} :
          /\ At(t, a, w) /\ Now(script[t]) = <<a, w>> /\ script[t] # <<>>
          /\ \/ script'[t] = <<>>
             \/ Now(script'[t]) = Tx("reset")
             \/ Now(script'[t]) = Rx("copyout")
             \/ <<<<a, w>>, Now(script'[t])>> \in Edges(op[t])
    BY Onward
  <1>3. \A b : At(t, b, w) <=> b = a  BY <1>2 DEF At
  <1>4. IsSent(call[u])' <=> IsSent(call[u])  BY <1>1, MoveData DEF IsSent
  <1>5. up /\ op[u] \in OnTx \cup OnRx
    BY <1>1 DEF Control, Uses, OnTx, OnRx, Sends, Owning
  <1>6. CASE u # t
    <2>1. a # "alloc" => w # "tx"
      BY <1>1, <1>2, <1>5, <1>6, UpUses, Unique, PlacesAre
    <2>2. mem'["tx"] = mem["tx"] /\ chain'["tx"] = chain["tx"]
      <3>1. w = "tx" => ~At(t, "chain", w) /\ ~At(t, "process", w) /\ ~At(t, "fill", w)
        BY <1>3, <2>1
      <3>2. mem'["tx"] = mem["tx"]  BY <3>1, MoveData, PlacesAre
      <3>3. chain'["tx"] = chain["tx"]  BY <3>1, MoveData, PlacesAre
      <3>4. QED BY <3>2, <3>3
    <2>3. chan'["tx"].irq = chan["tx"].irq
      <3>1. w = "tx" => ~At(t, "ack", w) /\ ~At(t, "pending", w)  BY <1>3, <2>1
      <3>2. QED BY <3>1, WrittenIs, PlacesAre
    <2>4. \A x : At1(u, x)' <=> At1(u, x)  BY <1>1, <1>6 DEF At1
    <2>5. Now(script[u])' = Now(script[u])  BY <1>1, <1>6
    <2>6. QED BY <1>1, <1>4, <1>6, <2>2, <2>3, <2>4, <2>5 DEF Sending
  <1>7. CASE u = t
    <2> DEFINE y == Now(script'[t])
               o == op[t]
               x == <<a, w>>
    <2>1. script'[t] # <<>>  BY <1>7 DEF Uses
    <2>2. CASE y = Tx("reset") \/ y = Rx("copyout")
      <3>1. /\ ~TxChained(o, y) /\ ~TxFilled(o, y)
            /\ y \notin {Tx("wait"), Tx("ack"), Tx("process"), Tx("idle"), Tx("sent")}
        BY <2>2 DEF TxChained, TxFilled, Tx, Rx
      <3>2. QED BY <1>1, <1>7, <3>1 DEF Sending, At1
    <2>3. CASE <<x, y>> \in Edges(o) /\ y # Tx("reset")
      <3>1. Sending(t) /\ Uses(t, "tx") /\ Now(script[t]) = x  BY <1>1, <1>2, <1>7
      <3>2. /\ TxChained(o, x) => chain["tx"] = [call |-> call[t], done |-> FALSE]
            /\ TxFilled(o, x) => mem["tx"] = call[t]
            /\ o \in Sends /\ x \in {Tx("wait"), Tx("ack"), Tx("process")} /\ chain["tx"].done
                 => IsSent(call[t])
            /\ o = "DirectSend" =>
                 /\ x \in {Tx("idle"), Tx("wait")} /\ "ioc" \in chan["tx"].irq => IsSent(call[t])
                 /\ x = Tx("ack") /\ "ioc" \in seen[t] => IsSent(call[t])
        BY <3>1 DEF Sending, At1
      <3>3. o \in OnTx \cup OnRx  BY <1>5, <1>7
      <3>4. \A st : x = Tx(st) <=> (a = st /\ w = "tx")  BY DEF Tx
      <3>5. /\ TxChained(o, y) => TxChained(o, x) \/ x = Tx("chain")
            /\ TxFilled(o, y) => TxFilled(o, x) \/ x = Tx("fill")
            /\ o \in Sends /\ y \in {Tx("wait"), Tx("ack"), Tx("process")} =>
                 x \in {Tx("tail"), Tx("wait"), Tx("ack")} /\ o \in SgOps
            /\ x = Tx("length") => TxFilled(o, x)
            /\ o \in SgOps /\ x = Tx("tail") => TxChained(o, x) /\ TxFilled(o, x)
            /\ o = "DirectSend" =>
                 /\ y \in {Tx("idle"), Tx("wait")} => x \in {Tx("length"), Tx("idle")}
                 /\ y = Tx("ack") => x = Tx("wait")
                 /\ y = Tx("sent") => x = Tx("ack")
        BY <2>3, <3>3, EdgeSend
      <3>6. ~(w = "tx" /\ a \in {"chain", "process"}) => chain'["tx"] = chain["tx"]
        <4>1. HAVE ~(w = "tx" /\ a \in {"chain", "process"})
        <4>2. w = "tx" => ~At(t, "chain", w) /\ ~At(t, "process", w)  BY <1>3, <4>1
        <4>3. QED BY <4>2, MoveData, PlacesAre
      <3>7. ~(w = "tx" /\ a = "fill") => mem'["tx"] = mem["tx"]
        <4>1. HAVE ~(w = "tx" /\ a = "fill")
        <4>2. w = "tx" => ~At(t, "fill", w)  BY <1>3, <4>1
        <4>3. QED BY <4>2, MoveData, PlacesAre
      <3> HIDE DEF x, y, o
      <3>8. ASSUME TxChained(o, y)  PROVE chain'["tx"] = [call |-> call[t], done |-> FALSE]
        <4>1. CASE x = Tx("chain")
          <5>1. At(t, "chain", w) /\ w = "tx"  BY <1>2, <3>4, <4>1
          <5>2. QED BY <2>1, <5>1, MoveData
        <4>2. CASE TxChained(o, x) /\ x # Tx("chain")
          <5>1. x # Tx("process")  BY <4>2 DEF TxChained, Tx, Rx
          <5>2. QED BY <3>2, <3>4, <3>6, <4>2, <5>1
        <4>3. QED BY <3>5, <3>8, <4>1, <4>2
      <3>9. ASSUME TxFilled(o, y)  PROVE mem'["tx"] = call[t]
        <4>1. CASE x = Tx("fill")
          <5>1. At(t, "fill", w) /\ w = "tx"  BY <1>2, <3>4, <4>1
          <5>2. QED BY <5>1, MoveData
        <4>2. CASE TxFilled(o, x) /\ x # Tx("fill")
          BY <3>2, <3>4, <3>7, <4>2
        <4>3. QED BY <3>5, <3>9, <4>1, <4>2
      <3>10. ASSUME o \in Sends, y \in {Tx("wait"), Tx("ack"), Tx("process")}, chain'["tx"].done
             PROVE  IsSent(call[t])
        <4>1. x \in {Tx("tail"), Tx("wait"), Tx("ack")} /\ o \in SgOps  BY <3>5, <3>10
        <4>2. chain'["tx"] = chain["tx"]  BY <3>4, <3>6, <4>1
        <4>3. CASE x = Tx("tail")
          <5>1. chain["tx"].done = FALSE  BY <3>2, <3>5, <4>1, <4>3
          <5>2. QED BY <3>10, <4>2, <5>1
        <4>4. CASE x \in {Tx("wait"), Tx("ack")}
          BY <3>2, <3>10, <4>2, <4>4
        <4>5. QED BY <4>1, <4>3, <4>4
      <3>11. ASSUME o = "DirectSend", y \in {Tx("idle"), Tx("wait")}, "ioc" \in chan'["tx"].irq
             PROVE  IsSent(call[t])
        <4>1. x \in {Tx("length"), Tx("idle")}  BY <3>5, <3>11
        <4>2. chan'["tx"].irq = chan["tx"].irq
          <5>1. w = "tx" => ~At(t, "ack", w) /\ ~At(t, "pending", w)  BY <1>3, <3>4, <4>1
          <5>2. QED BY <5>1, WrittenIs, PlacesAre
        <4>3. CASE x = Tx("length")
          <5>1. At1(t, <<"length", "tx">>)  BY <3>1, <4>3 DEF At1, Tx
          <5>2. Flight(t, "tx")  BY PlacesAre DEF Registers
          <5>3. Clear("tx")  BY <1>1, <3>1, <5>1, <5>2 DEF Flight
          <5>4. QED BY <3>11, <4>2, <5>3 DEF Clear
        <4>4. CASE x = Tx("idle")  BY <3>2, <3>11, <4>2, <4>4
        <4>5. QED BY <4>1, <4>3, <4>4
      <3>12. ASSUME o = "DirectSend", y = Tx("ack"), "ioc" \in seen'[t]  PROVE IsSent(call[t])
        <4>1. x = Tx("wait") /\ At(t, "wait", w) /\ w = "tx"  BY <1>2, <3>4, <3>5, <3>12
        <4>2. seen'[t] = chan["tx"].irq  BY <2>1, <2>3, <4>1, MoveData DEF y
        <4>3. QED BY <3>2, <3>12, <4>1, <4>2
      <3>13. ASSUME o = "DirectSend", y = Tx("sent")  PROVE IsSent(call[t])
        <4>1. x = Tx("ack") /\ At(t, "ack", w) /\ w = "tx"  BY <1>2, <3>4, <3>5, <3>13
        <4>2. "err" \notin seen[t]  BY <2>1, <2>3, <4>1, MoveData DEF y
        <4>3. At1(t, <<"ack", "tx">>)  BY <3>1, <4>1 DEF At1, Tx
        <4>4. Flight(t, "tx")  BY PlacesAre DEF Registers
        <4>5. seen[t] # {}  BY <1>1, <3>1, <4>3, <4>4 DEF Flight
        <4>6. seen[t] \in SUBSET {"ioc", "err"}  BY TypedIs
        <4>7. "ioc" \in seen[t]  BY <4>2, <4>5, <4>6
        <4>8. QED BY <3>2, <3>13, <4>1, <4>7
      <3>14. op'[t] = o /\ call'[t] = call[t] /\ Now(script[t])' = y /\ \A z : At1(t, z)' <=> y = z
        BY <1>1 DEF o, y, At1
      <3>15. QED
        BY <1>4, <1>7, <3>8, <3>9, <3>10, <3>11, <3>12, <3>13, <3>14 DEF Sending
    <2>4. QED BY <1>2, <2>1, <2>2, <2>3
  <1>8. QED BY <1>6, <1>7

LEMMA MoveTransmission ==
  ASSUME Typed, Control, Registers, Transmission,
         NEW t \in Threads, NEW w \in Channels, Moving(t, w)
  PROVE  Transmission'
  <1> SUFFICES ASSUME "tx" \notin abandoned'  PROVE Transmission'
    BY DEF Transmission
  <1>1. /\ UNCHANGED <<isSg, up, op, call>> /\ "tx" \notin abandoned /\ Fine("tx")
    BY Others, PlacesAre DEF Fine
  <1>2. TxGiven /\ (\A u \in Threads : Sending(u)) /\ SentIsOwn /\ SuccessIsReal
    BY <1>1 DEF Transmission, TxGiven
  <1>3. TxGiven'  BY <1>2, MoveTxGiven
  <1>4. \A u \in Threads : Sending(u)'  BY <1>2, MoveSending
  <1>5. wire' = wire  BY MoveData
  <1>6. SentIsOwn'  BY <1>1, <1>2, <1>5 DEF SentIsOwn
  <1>7. reported' # reported => reported' = reported \cup {call[t]} /\ IsSent(call[t])
    <2>1. HAVE reported' # reported
    <2>2. /\ reported' = reported \cup {call[t]}
          /\ \/ At(t, "process", w) /\ op[t] \in Sends /\ chain[w].done
             \/ At(t, "sent", w)
      BY <2>1, MoveData
    <2>3. op[t] \in OnTx \cup OnRx  BY <2>2, InCall
    <2>4. PICK a \in {"process", "sent"} :
            /\ At(t, a, w)
            /\ a = "process" => op[t] \in Sends /\ chain[w].done
      BY <2>2
    <2>5. /\ Uses(t, w) /\ Now(script[t]) = <<a, w>> /\ (isSg <=> op[t] \in SgOps)
          /\ StageOf(op[t], <<a, w>>)
      BY <2>3, <2>4, Works, AtStage
    <2>6. (Mutex(op[t]) = w \/ op[t] = "Transf") /\ (a = "sent" => op[t] = "DirectSend")
      BY <2>3, <2>5, StageIs
    <2>7. w = "tx"  BY <2>4, <2>6 DEF Mutex, OnTx, Sends
    <2>8. Sending(t)  BY <1>2
    <2>9. IsSent(call[t])  BY <2>4, <2>5, <2>6, <2>7, <2>8 DEF Sending, At1, Tx
    <2>10. QED BY <2>2, <2>9
  <1>8. SuccessIsReal'
    <2>1. \A c \in reported' : IsSent(c)
      BY <1>1, <1>2, <1>7 DEF SuccessIsReal, IsSent
    <2>2. QED BY <1>5, <2>1 DEF SuccessIsReal, IsSent
  <1>9. QED BY <1>3, <1>4, <1>6, <1>8 DEF Transmission, TxGiven

LEMMA OutsideTransmission ==
  ASSUME Typed, Control, Transmission, NEW t \in Threads, Outside(t)
  PROVE  Transmission'
  <1>1. /\ UNCHANGED <<case, isSg, seen, chan, chain, wire, arrived, reported, got, abandoned>>
        /\ \A u \in Threads : u # t =>
             /\ op'[u] = op[u] /\ script'[u] = script[u] /\ call'[u] = call[u]
             /\ \A v \in Channels : Uses(u, v)' <=> Uses(u, v)
        /\ \A v \in Channels : Uses(t, v)' =>
             /\ op'[t] = op[t] /\ op[t] \in OnTx \cup OnRx
             /\ Now(script'[t])[1] \in {"chain", "alloc", "pending"}
             /\ Now(script[t]) = <<"lock", Mutex(op[t])>>
             /\ <<Now(script[t]), Now(script'[t])>> \in Edges(op[t])
        /\ mem' = mem \/ mem' = [mem EXCEPT ![t] = None]
    BY OutsideIs
  <1>2. mem'["tx"] = mem["tx"]
    <2>1. t # "tx" /\ mem \in [Places -> Nat]  BY PlacesAre DEF Typed
    <2>2. QED BY <1>1, <2>1, PlacesAre
  <1>3. ASSUME NEW u \in Threads, Sending(u)  PROVE Sending(u)'
    <2>1. CASE u # t
      <3>1. \A x : At1(u, x)' <=> At1(u, x)  BY <1>1, <2>1 DEF At1
      <3>2. IsSent(call[u])' <=> IsSent(call[u])  BY <1>1, <2>1 DEF IsSent
      <3>3. Uses(u, "tx")' <=> Uses(u, "tx")  BY <1>1, <2>1, PlacesAre
      <3>4. QED BY <1>1, <1>2, <1>3, <2>1, <3>1, <3>2, <3>3 DEF Sending
    <2>2. CASE u = t
      <3> SUFFICES ASSUME Uses(t, "tx")'  PROVE Sending(t)'
        BY <2>2 DEF Sending
      <3> DEFINE x == Now(script[t])
                 y == Now(script'[t])
      <3>1. /\ op'[t] = op[t] /\ op[t] \in OnTx \cup OnRx /\ x = <<"lock", Mutex(op[t])>>
            /\ y[1] \in {"chain", "alloc", "pending"} /\ <<x, y>> \in Edges(op[t])
        BY <1>1, PlacesAre
      <3> HIDE DEF x, y
      <3>2. x \notin {Tx("chain"), Tx("fill")} /\ ~TxChained(op[t], x) /\ ~TxFilled(op[t], x)
        BY <3>1 DEF TxChained, TxFilled, Tx, Rx
      <3>3. ~TxChained(op[t], y) /\ ~TxFilled(op[t], y)  BY <3>1, <3>2, EdgeSend
      <3>4. y \notin {Tx("wait"), Tx("ack"), Tx("process"), Tx("idle"), Tx("sent")}
        BY <3>1 DEF Tx
      <3>5. op'[t] = op[t] /\ Now(script[t])' = y /\ \A z : At1(t, z)' <=> y = z
        BY <3>1 DEF y, At1
      <3>6. QED BY <3>3, <3>4, <3>5 DEF Sending
    <2>3. QED BY <2>1, <2>2
  <1>4. QED BY <1>1, <1>2, <1>3 DEF Transmission, SentIsOwn, SuccessIsReal

(* What the engine writes elsewhere: it completes a transfer, or nothing.   *)
LEMMA EngineData ==
  ASSUME Typed, Engine
  PROVE  /\ \/ /\ Transmit /\ Busy("tx") /\ chan'["tx"].job = None /\ chain'["tx"].done
               /\ wire' = wire \cup {[call |-> chan["tx"].job, data |-> mem["tx"]]}
               /\ chain'["rx"] = chain["rx"] /\ chan'["rx"] = chan["rx"]
               /\ UNCHANGED <<mem, arrived>>
            \/ /\ Arrive /\ Busy("rx") /\ chan'["rx"].job = None
               /\ chain'["rx"] = [chain["rx"] EXCEPT !.done = TRUE]
               /\ chan'["rx"].irq = chan["rx"].irq \cup {"ioc"}
               /\ chain'["tx"] = chain["tx"] /\ chan'["tx"] = chan["tx"]
               /\ wire' = wire
               /\ chan["rx"].dst \in Places \ {"tx"}
               /\ \/ chan["rx"].job = Old /\ UNCHANGED <<mem, arrived>>
                  \/ /\ chan["rx"].job # Old /\ arrived' = arrived + 1
                     /\ mem' = [mem EXCEPT ![chan["rx"].dst] = arrived + 1]
            \/ /\ UNCHANGED <<chain, mem, wire, arrived>>
               /\ \A v \in Channels : "ioc" \in chan'[v].irq => "ioc" \in chan[v].irq
         /\ mem'["tx"] = mem["tx"]
  <1>1. /\ chan \in [Channels -> ChanType(calls)] /\ chain \in [Channels -> ChainType(calls)]
        /\ mem \in [Places -> Nat]
    BY TypedIs DEF SharedType
  <1> DEFINE Goal ==
        \/ /\ Transmit /\ Busy("tx") /\ chan'["tx"].job = None /\ chain'["tx"].done
           /\ wire' = wire \cup {[call |-> chan["tx"].job, data |-> mem["tx"]]}
           /\ chain'["rx"] = chain["rx"] /\ chan'["rx"] = chan["rx"]
           /\ UNCHANGED <<mem, arrived>>
        \/ /\ Arrive /\ Busy("rx") /\ chan'["rx"].job = None
           /\ chain'["rx"] = [chain["rx"] EXCEPT !.done = TRUE]
           /\ chan'["rx"].irq = chan["rx"].irq \cup {"ioc"}
           /\ chain'["tx"] = chain["tx"] /\ chan'["tx"] = chan["tx"]
           /\ wire' = wire
           /\ chan["rx"].dst \in Places \ {"tx"}
           /\ \/ chan["rx"].job = Old /\ UNCHANGED <<mem, arrived>>
              \/ /\ chan["rx"].job # Old /\ arrived' = arrived + 1
                 /\ mem' = [mem EXCEPT ![chan["rx"].dst] = arrived + 1]
        \/ /\ UNCHANGED <<chain, mem, wire, arrived>>
           /\ \A v \in Channels : "ioc" \in chan'[v].irq => "ioc" \in chan[v].irq
  <1>2. ASSUME NEW w \in Channels, Finish(w)
        PROVE  /\ chan'[w] = [chan[w] EXCEPT !.job = None, !.irq = chan[w].irq \cup {"ioc"}]
               /\ chain'[w] = [chain[w] EXCEPT !.done = TRUE]
               /\ chan'[w].job = None /\ chan'[w].irq = chan[w].irq \cup {"ioc"} /\ chain'[w].done
               /\ \A v \in Channels : v # w => chan'[v] = chan[v] /\ chain'[v] = chain[v]
    <2>1. /\ chan'[w] = [chan[w] EXCEPT !.job = None, !.irq = chan[w].irq \cup {"ioc"}]
          /\ chain'[w] = [chain[w] EXCEPT !.done = TRUE]
          /\ \A v \in Channels : v # w => chan'[v] = chan[v] /\ chain'[v] = chain[v]
      BY <1>1, <1>2 DEF Finish
    <2>2. chan'[w].job = None /\ chan'[w].irq = chan[w].irq \cup {"ioc"}
      BY <1>1, <2>1 DEF ChanType
    <2>3. chain'[w].done = TRUE  BY <1>1, <2>1 DEF ChainType
    <2>4. QED BY <2>1, <2>2, <2>3
  <1>3. CASE Transmit
    <2>1. /\ Busy("tx") /\ Finish("tx")
          /\ wire' = wire \cup {[call |-> chan["tx"].job, data |-> mem["tx"]]}
          /\ UNCHANGED <<mem, arrived>>
      BY <1>3 DEF Transmit
    <2>2. QED BY <1>2, <1>3, <2>1, PlacesAre
  <1>4. CASE Arrive
    <2>1. /\ Busy("rx") /\ Finish("rx") /\ wire' = wire
          /\ \/ chan["rx"].job = Old /\ UNCHANGED <<mem, arrived>>
             \/ /\ chan["rx"].job # Old /\ arrived' = arrived + 1
                /\ mem' = [mem EXCEPT ![chan["rx"].dst] = arrived + 1]
      BY <1>4 DEF Arrive
    <2>2. chan["rx"].dst \in Places \ {"tx"}  BY <1>1, PlacesAre DEF ChanType
    <2>3. mem'["tx"] = mem["tx"]  BY <1>1, <2>1, <2>2, PlacesAre
    <2>4. /\ chain'["rx"] = [chain["rx"] EXCEPT !.done = TRUE] /\ chan'["rx"].job = None
          /\ chan'["rx"].irq = chan["rx"].irq \cup {"ioc"}
          /\ chain'["tx"] = chain["tx"] /\ chan'["tx"] = chan["tx"]
      <3>1. "rx" \in Channels /\ "tx" \in Channels /\ "tx" # "rx"  BY PlacesAre
      <3>2. QED BY <1>2, <2>1, <3>1
    <2>5. Goal  BY <1>4, <2>1, <2>2, <2>4
    <2>6. QED BY <2>3, <2>5
  <1>5. ASSUME NEW w \in Channels, Starts(w) \/ ResetEnds(w) \/ EngineError(w)
        PROVE  /\ UNCHANGED <<chain, mem, wire, arrived>>
               /\ \A v \in Channels : "ioc" \in chan'[v].irq => "ioc" \in chan[v].irq
    <2>1. UNCHANGED <<chain, mem, wire, arrived>>
      BY <1>5 DEF Starts, ResetEnds, EngineError
    <2>2. CASE Starts(w)
      <3>1. chan' = [chan EXCEPT ![w] = [chan[w] EXCEPT !.halted = FALSE]]
        BY <1>1, <2>2 DEF Starts
      <3>2. QED BY <1>1, <2>1, <3>1 DEF ChanType
    <2>3. CASE ResetEnds(w)
      <3>1. chan' = [chan EXCEPT ![w] = ResetState]  BY <2>3 DEF ResetEnds
      <3>2. ResetState.irq = {}  BY DEF ResetState
      <3>3. QED BY <1>1, <2>1, <3>1, <3>2
    <2>4. CASE EngineError(w)
      <3>1. /\ \A v \in Channels : v # w => chan'[v] = chan[v]
            /\ chan'[w] = [chan[w] EXCEPT !.run = FALSE, !.halted = TRUE, !.failed = TRUE,
                                          !.irq = chan[w].irq \cup {"err"}, !.job = None]
        BY <1>1, <2>4 DEF EngineError
      <3>2. chan'[w].irq = chan[w].irq \cup {"err"}  BY <1>1, <3>1 DEF ChanType
      <3>3. "ioc" \in chan'[w].irq => "ioc" \in chan[w].irq  BY <3>2
      <3>4. QED BY <2>1, <3>1, <3>3
    <2>5. QED BY <1>5, <2>2, <2>3, <2>4
  <1>6. QED BY <1>3, <1>4, <1>5 DEF Engine, Progress

LEMMA EngineTransmission ==
  ASSUME Typed, Control, Registers, Transmission, Engine
  PROVE  Transmission'
  <1> SUFFICES ASSUME "tx" \notin abandoned'  PROVE Transmission'
    BY DEF Transmission
  <1>1. /\ UNCHANGED <<case, isSg, up, op, call, script, seen, calls, owner>>
        /\ UNCHANGED <<reported, got, abandoned>>
        /\ \A u \in Threads : /\ \A x : At1(u, x)' <=> At1(u, x)
                              /\ \A v \in Channels : Uses(u, v)' <=> Uses(u, v)
    BY EngineLeaves
  <1>2. TxGiven /\ (\A u \in Threads : Sending(u)) /\ SentIsOwn /\ SuccessIsReal /\ Fine("tx")
    BY <1>1, PlacesAre DEF Transmission, TxGiven, Fine
  <1>3. mem'["tx"] = mem["tx"] /\ EngineDoes("tx")  BY EngineData, EngineIs, PlacesAre
  <1>4. CASE Transmit /\ Busy("tx") /\ chan'["tx"].job = None /\ chain'["tx"].done
             /\ wire' = wire \cup {[call |-> chan["tx"].job, data |-> mem["tx"]]}
    <2>1. mem["tx"] = chan["tx"].job /\ chan["tx"].job # None /\ ~chan["tx"].resetting
      BY <1>2, <1>4 DEF TxGiven, Busy
    <2>2. SentIsOwn'  BY <1>1, <1>2, <1>4, <2>1 DEF SentIsOwn
    <2>3. SuccessIsReal'  BY <1>1, <1>2, <1>4 DEF SuccessIsReal
    <2>4. ASSUME NEW u \in Threads, Uses(u, "tx")  PROVE Sending(u)'
      <3> DEFINE o == op[u]
                 x == Now(script[u])
      <3>1. Flying(u, "tx")
        <4>1. ASSUME ~Flying(u, "tx")  PROVE FALSE
          <5>1. Quiet("tx")  BY <1>2, <2>4, <4>1, PlacesAre, FindsQuiet
          <5>2. QED BY <2>1, <5>1 DEF Quiet, Spent
        <4>2. QED BY <4>1
      <3>2. ~TxChained(o, x) /\ ~TxFilled(o, x)
        <4>1. FlyingAt(o, x, "tx")  BY <3>1 DEF Flying
        <4>2. QED BY <4>1 DEF TxChained, TxFilled, FlyingAt, WaitingAt, Sends, Tx, Rx
      <3>3. x # Tx("process") /\ x # Tx("sent")
        <4>1. FlyingAt(o, x, "tx")  BY <3>1 DEF Flying
        <4>2. QED BY <4>1 DEF FlyingAt, WaitingAt, Tx, Rx
      <3>4. Flight(u, "tx")  BY PlacesAre DEF Registers
      <3>5. x # Tx("ack")
        <4>1. At1(u, <<"ack", "tx">>) => chan["tx"].resetting \/ chan["tx"].job = None
          BY <1>2, <2>4, <3>4 DEF Flight
        <4>2. QED BY <2>1, <4>1 DEF At1, Tx
      <3>6. x \in {Tx("wait"), Tx("idle")} => IsSent(call[u])'
        <4>1. HAVE x \in {Tx("wait"), Tx("idle")}
        <4>2. Waiting(u, "tx")  BY <4>1 DEF Waiting, WaitingAt, Tx
        <4>3. chan["tx"].job = call[u]  BY <1>2, <2>1, <2>4, <3>4, <4>2 DEF Flight
        <4>4. \E s \in wire' : s.call = call[u]
          <5>1. [call |-> chan["tx"].job, data |-> mem["tx"]] \in wire'  BY <1>4
          <5>2. [call |-> chan["tx"].job, data |-> mem["tx"]].call = call[u]  BY <4>3
          <5>3. QED BY <5>1, <5>2
        <4>5. QED BY <1>1, <4>4 DEF IsSent
      <3>7. op'[u] = o /\ Now(script[u])' = x /\ \A z : At1(u, z)' <=> x = z
        BY <1>1 DEF At1
      <3> HIDE DEF o, x
      <3>8. QED BY <3>2, <3>3, <3>5, <3>6, <3>7 DEF Sending
    <2>5. \A u \in Threads : Sending(u)'  BY <1>1, <2>4, PlacesAre DEF Sending
    <2>6. QED BY <1>4, <2>2, <2>3, <2>5 DEF Transmission
  <1>5. CASE /\ wire' = wire /\ chain'["tx"] = chain["tx"]
             /\ "ioc" \in chan'["tx"].irq => "ioc" \in chan["tx"].irq
    <2>1. SentIsOwn' /\ SuccessIsReal'  BY <1>1, <1>2, <1>5 DEF SentIsOwn, SuccessIsReal
    <2>2. TxGiven'
      <3>1. chan'["tx"].job # None /\ ~chan'["tx"].resetting =>
              chan'["tx"].job = chan["tx"].job /\ ~chan["tx"].resetting
        BY <1>3 DEF EngineDoes, ResetState
      <3>2. QED BY <1>1, <1>2, <1>3, <1>5, <3>1 DEF TxGiven
    <2>3. ASSUME NEW u \in Threads  PROVE Sending(u)'
      <3>1. Sending(u) /\ (Uses(u, "tx")' <=> Uses(u, "tx")) /\ \A z : At1(u, z)' <=> At1(u, z)
        BY <1>1, <1>2, PlacesAre
      <3>2. IsSent(call[u])' <=> IsSent(call[u])  BY <1>1, <1>5 DEF IsSent
      <3>3. QED BY <1>1, <1>3, <1>5, <3>1, <3>2 DEF Sending
    <2>4. QED BY <2>1, <2>2, <2>3 DEF Transmission, TxGiven
  <1>6. QED BY <1>4, <1>5, EngineData, PlacesAre

LEMMA TransmissionStep ==
  ASSUME Typed, Control, Registers, Transmission, [Next]_vars
  PROVE  Transmission'
  <1>1. CASE UNCHANGED vars
    <2>1. /\ UNCHANGED <<case, isSg, up, op, call, script, seen, calls, owner>>
          /\ UNCHANGED <<chan, chain, mem, wire, arrived, reported, got, abandoned>>
      BY <1>1 DEF vars, threads, engine, history
    <2>2. QED BY <2>1 DEF Transmission, Sending, SentIsOwn, SuccessIsReal, IsSent, Uses, Holds, At1
  <1>2. QED BY <1>1, NextIs, MoveTransmission, OutsideTransmission, EngineTransmission

LEMMA LeftoverJob == \A c \in Leftover : c.job \in {None, Old}
  <1>1. TAKE c \in Leftover
  <1>2. CASE c = ResetState  BY <1>2 DEF ResetState
  <1>3. CASE c = [ResetState EXCEPT !.failed = TRUE, !.irq = {"err"}]
    BY <1>3 DEF ResetState
  <1>4. CASE c \in [run : {TRUE}, halted : {FALSE}, failed : {FALSE}, resetting : {FALSE},
                    irq : {{}, {"ioc"}}, job : {None, Old}, dst : {"rx"}]
    BY <1>4
  <1>5. QED BY <1>2, <1>3, <1>4 DEF Leftover

LEMMA InitTransmission ==
  ASSUME Init
  PROVE  Transmission
  <1>1. \A t \in Threads : op[t] = "none"  BY DEF Init
  <1>2. "none" \notin OnTx \cup OnRx  BY DEF OnTx, OnRx, Sends
  <1>3. \A t \in Threads : Sending(t)  BY <1>1, <1>2 DEF Sending, Uses
  <1>4. SentIsOwn /\ SuccessIsReal  BY DEF Init, SentIsOwn, SuccessIsReal
  <1>5. chan["tx"].job \in {None, Old}
    <2>1. chan["tx"] \in Leftover  BY PlacesAre DEF Init
    <2>2. QED BY <2>1, LeftoverJob
  <1>6. mem["tx"] = Old /\ chain["tx"] = [call |-> Old, done |-> FALSE]
    BY PlacesAre DEF Init
  <1>7. QED BY <1>3, <1>4, <1>5, <1>6 DEF Transmission

(* What a call sends is its own data, although all calls use one buffer and *)
(* one chain (AxiDMA.cpp:69-76, 141-148, 589), as long as no call has given *)
(* up a transfer without a reset.                                           *)
THEOREM SendsOwn == Spec => []SentIsOwn
  <1> DEFINE Inv == Typed /\ Control /\ Registers /\ Transmission
  <1>1. Init => Inv  BY InitTyped, InitRegisters, InitTransmission
  <1>2. Inv /\ [Next]_vars => Inv'
    BY TypeStep, ControlStep, RegistersStep, TransmissionStep
  <1>3. Inv => SentIsOwn  BY DEF Transmission, SentIsOwn
  <1>4. QED BY <1>1, <1>2, <1>3, PTL DEF Spec

(* A call that returns a positive length has had its own transfer done      *)
(* (AxiDMA.cpp:98, 178, 606).                                               *)
THEOREM SuccessReal == Spec => []SuccessIsReal
  <1> DEFINE Inv == Typed /\ Control /\ Registers /\ Transmission
  <1>1. Init => Inv  BY InitTyped, InitRegisters, InitTransmission
  <1>2. Inv /\ [Next]_vars => Inv'
    BY TypeStep, ControlStep, RegistersStep, TransmissionStep
  <1>3. Inv => SuccessIsReal  BY DEF Transmission, SuccessIsReal
  <1>4. QED BY <1>1, <1>2, <1>3, PTL DEF Spec

-------------------------------------------------------------------------------
(* What is received.                                                        *)

CopiesAt(o, x) ==
  o = "Transf" /\ x \in {Tx("reset"), Tx("poll"), Rx("reset"), Rx("poll")}

LEMMA EdgeReceive ==
  ASSUME NEW o \in OnTx \cup OnRx, NEW x, NEW y, <<x, y>> \in Edges(o)
  PROVE  /\ RxFilled(o, y) => x = Rx("fill") \/ (RxFilled(o, x) /\ x # Rx("copyout"))
         /\ RxChained(o, y) => x = Rx("chain") \/ (RxChained(o, x) /\ x # Rx("process"))
         /\ Untailed(o, y) => x = Rx("fill") \/ Untailed(o, x)
         /\ RxChained(o, y) /\ Untailed(o, y) =>
              x = Rx("chain") \/ (RxChained(o, x) /\ Untailed(o, x))
         /\ RxFilled(o, x) \/ RxChained(o, x) \/ Untailed(o, x) => x # Rx("fill")
         /\ Untailed(o, x) => ~FlyingAt(o, x, "rx") /\ RxFilled(o, x)
         /\ y = Rx("copyout") =>
              \/ o = "Recv" /\ x = Rx("process")
              \/ o = "Transf" /\ x = Rx("poll")
              \/ o \in DirectOps /\ x = Rx("ack")
         /\ CopiesAt(o, y) => CopiesAt(o, x) \/ x = Rx("process")
         /\ o \in SgOps /\ x = Rx("tail") => RxChained(o, x) /\ Untailed(o, x)
         /\ x = Rx("process") => RxChained(o, x)
         /\ x = Rx("copyout") => RxFilled(o, x) \/ o \in DirectOps
         /\ y = <<"ack", "rx">> => x = Rx("wait")
  <1>1. CASE o \in Sends
    BY <1>1 DEF RxFilled, RxChained, Untailed, CopiesAt, WaitingAt, FlyingAt, Edges, Owning, Sends,
       SgOps, DirectOps, Tx, Rx
  <1>2. CASE o = "Transf"
    BY <1>2 DEF RxFilled, RxChained, Untailed, CopiesAt, WaitingAt, FlyingAt, Edges, Owning, Sends,
       SgOps, DirectOps, Tx, Rx
  <1>3. CASE o = "DirectSend"
    BY <1>3 DEF RxFilled, RxChained, Untailed, CopiesAt, WaitingAt, FlyingAt, Edges, Owning, Sends,
       SgOps, DirectOps, Tx, Rx
  <1>4. CASE o = "Recv"
    BY <1>4 DEF RxFilled, RxChained, Untailed, CopiesAt, WaitingAt, FlyingAt, Edges, Owning, Sends,
       SgOps, DirectOps, Tx, Rx
  <1>5. CASE o \in {"DirectRecv", "DirectManualRecv"}
    BY <1>5 DEF RxFilled, RxChained, Untailed, CopiesAt, WaitingAt, FlyingAt, Edges, Owning, Sends,
       SgOps, DirectOps, Tx, Rx
  <1>6. QED BY <1>1, <1>2, <1>3, <1>4, <1>5 DEF OnTx, OnRx

(* A receive chain with nothing complete ends the call, or resets and copies *)
(* nothing.                                                                 *)
LEMMA MoveProcess ==
  ASSUME Typed, NEW t \in Threads, NEW w \in Channels, Moving(t, w),
         At(t, "process", w), w = "rx", ~chain[w].done
  PROVE  script'[t] = <<>> \/ (op[t] = "Transf" /\ Last(script'[t]) = Rx("poll"))
                           \/ op[t] = "Send_repeat"
  <1>1. ProcessDescriptors(t, w)  BY Which
  <1>2. Fail(t, "process")  BY <1>1 DEF ProcessDescriptors
  <1>3. QED BY <1>2, Failed

(* How a thread that works on s2mm comes to its stage y.                    *)
LEMMA Comes ==
  ASSUME Typed, Control, Registers, NEW t \in Threads, NEW w \in Channels, Moving(t, w),
         Uses(t, "rx"), script'[t] # <<>>, NEW a, At(t, a, w), NEW y, y = Now(script'[t])
  PROVE  /\ op[t] \in OnTx \cup OnRx /\ Now(script[t]) = <<a, w>>
         /\ RxFilled(op[t], y) =>
              <<a, w>> = Rx("fill") \/ (RxFilled(op[t], <<a, w>>) /\ <<a, w>> # Rx("copyout"))
         /\ RxChained(op[t], y) =>
              <<a, w>> = Rx("chain") \/ (RxChained(op[t], <<a, w>>) /\ <<a, w>> # Rx("process"))
         /\ Untailed(op[t], y) => <<a, w>> = Rx("fill") \/ Untailed(op[t], <<a, w>>)
         /\ RxChained(op[t], y) /\ Untailed(op[t], y) =>
              <<a, w>> = Rx("chain") \/ (RxChained(op[t], <<a, w>>) /\ Untailed(op[t], <<a, w>>))
         /\ isSg /\ Copies(t)' => Copies(t) \/ (<<a, w>> = Rx("process") /\ chain["rx"].done)
         /\ ~isSg /\ y = Rx("copyout") =>
              \/ <<a, w>> = Rx("ack") /\ "err" \notin seen[t]
              \/ <<a, w>> = Rx("pending") /\ chan["rx"].irq = {"ioc"}
         /\ WaitingAt(op[t], y, "rx") =>
              WaitingAt(op[t], <<a, w>>, "rx") \/ <<a, w>> \in {Rx("tail"), Rx("length")}
         /\ y = Rx("ack") => <<a, w>> = Rx("wait") /\ seen'[t] = chan["rx"].irq
  <1> DEFINE o == op[t]
             x == <<a, w>>
  <1>1. /\ x = Now(script[t]) /\ script[t] # <<>> /\ IsRest(o, script[t])
        /\ o \in OnTx \cup OnRx /\ (o \in SgOps <=> isSg) /\ op'[t] = o
    BY AtStage, Others DEF Uses, Control
  <1>2. /\ \/ /\ y = Tx("reset") /\ o \in {"Send_repeat", "Transf"}
              /\ a \in {"wait", "idle", "ack", "process"}
              /\ o = "Transf" => Last(script'[t]) = Rx("poll")
           \/ /\ y = Rx("copyout") /\ Last(script'[t]) = Rx("copyout")
              /\ \/ a = "poll" /\ Last(script[t]) = Rx("copyout")
                 \/ a = "pending" /\ chan[w].irq = {"ioc"}
           \/ /\ <<x, y>> \in Edges(o)
              /\ Last(script'[t]) = Last(script[t])
    <2>1. \A b : At(t, b, w) => b = a  BY DEF At
    <2>2. QED BY <2>1, Onward
  <1>3. StageOf(o, x)
    <2>1. Now(script[t]) = script[t][1]  BY <1>1 DEF Now
    <2>2. QED BY <1>1, <2>1, StepOn DEF StageOf
  <1>4. \A st : /\ x = Tx(st) <=> a = st /\ w = "tx"
                /\ x = Rx(st) <=> a = st /\ w = "rx"
    BY DEF Tx, Rx
  <1>5. /\ op'[t] = o /\ Now(script[t])' = y /\ \A z : At1(t, z)' <=> y = z
        /\ \A z : At1(t, z) <=> x = z
    BY <1>1 DEF At1
  <1>6. Last(script[t]) \in Lasts(o)  BY <1>1 DEF IsRest
  <1>7. o # "Send_repeat"  BY DEF Uses, Mutex, OnTx, Sends
  <1>8. CASE /\ y = Tx("reset") /\ o = "Transf" /\ a \in {"wait", "idle", "ack", "process"}
             /\ Last(script'[t]) = Rx("poll")
    <2>1. ~RxChained(o, y) /\ ~Untailed(o, y) /\ ~WaitingAt(o, y, "rx")
          /\ y # Rx("copyout") /\ y # Rx("ack")
      BY <1>8 DEF RxChained, Untailed, WaitingAt, Tx, Rx
    <2>2. RxFilled(o, x) /\ x # Rx("copyout")  BY <1>8 DEF RxFilled, Tx, Rx
    <2>3. ~Copies(t)'
      <3>1. Rx("poll") # Rx("copyout")  BY DEF Rx
      <3>2. QED BY <1>5, <1>8, <2>1, <3>1 DEF Copies
    <2>4. QED BY <1>1, <2>1, <2>2, <2>3
  <1>9. CASE /\ y = Rx("copyout")
             /\ \/ a = "poll" /\ Last(script[t]) = Rx("copyout")
                \/ a = "pending" /\ chan[w].irq = {"ioc"}
    <2>1. ~RxChained(o, y) /\ ~Untailed(o, y) /\ ~WaitingAt(o, y, "rx") /\ y # Rx("ack")
      BY <1>9 DEF RxChained, Untailed, WaitingAt, Tx, Rx
    <2>2. CASE a = "poll" /\ Last(script[t]) = Rx("copyout")
      <3>1. o \in SgOps /\ (Mutex(o) = w \/ o = "Transf")  BY <1>1, <1>3, <2>2, StageIs
      <3>2. o = "Transf"
        <4>1. Rx("copyout") \in Lasts(o)  BY <1>6, <2>2
        <4>2. QED BY <1>1, <3>1, <4>1 DEF Lasts, SgOps, Sends, Tx, Rx
      <3>3. x \in {Tx("poll"), Rx("poll")}  BY <1>4, <2>2, PlacesAre
      <3>4. RxFilled(o, x) /\ x # Rx("copyout")  BY <3>2, <3>3 DEF RxFilled, Tx, Rx
      <3>5. Copies(t)  BY <1>1, <2>2, <3>2, <3>3 DEF Copies
      <3>6. QED BY <1>1, <2>1, <3>1, <3>4, <3>5
    <2>3. CASE a = "pending" /\ chan[w].irq = {"ioc"}
      <3>1. o \in {"DirectRecv", "DirectManualRecv"} /\ x = Rx("pending")
        <4>1. ASSUME NEW q \in Ops, NEW z, StageOf(q, z), z[1] = "pending"
              PROVE  q \in {"DirectRecv", "DirectManualRecv"} /\ z = Rx("pending")
          <5>1. z \in Lasts(q) \/ \E e : <<z, e>> \in Edges(q)  BY <4>1 DEF StageOf
          <5>2. QED BY ONLY <4>1, <5>1, PendingEdge
        <4>2. o \in Ops /\ StageOf(o, x)  BY <1>1, <1>3 DEF Ops
        <4>3. x[1] = "pending"  BY <2>3
        <4>4. QED BY <4>1, <4>2, <4>3
      <3>2. ~isSg /\ w = "rx"  BY <1>1, <1>4, <3>1 DEF SgOps
      <3>3. ~RxFilled(o, y)  BY <3>1 DEF RxFilled
      <3>4. QED BY <1>1, <2>1, <2>3, <3>1, <3>2, <3>3
    <2>4. QED BY <1>9, <2>2, <2>3
  <1>10. CASE <<x, y>> \in Edges(o) /\ Last(script'[t]) = Last(script[t])
    <2>1. isSg /\ Copies(t)' => Copies(t) \/ (x = Rx("process") /\ chain["rx"].done)
      <3>1. HAVE isSg /\ Copies(t)'
      <3>2. \/ y = Rx("copyout")
            \/ CopiesAt(o, y) /\ Last(script'[t]) = Rx("copyout")
        BY <1>5, <3>1 DEF Copies, CopiesAt
      <3>3. o \notin DirectOps  BY <1>1, <3>1 DEF SgOps, DirectOps
      <3>4. CASE x = Rx("process")
        <4>1. Rx("copyout") # Rx("poll")  BY DEF Rx
        <4>2. ~(o = "Transf" /\ Last(script'[t]) = Rx("poll"))
          <5>1. ASSUME o = "Transf", Last(script'[t]) = Rx("poll")  PROVE FALSE
            <6>1. y = Rx("copyout")  BY <3>2, <4>1, <5>1
            <6>2. x = Rx("poll")  BY <1>1, <1>10, <3>3, <5>1, <6>1, EdgeReceive
            <6>3. QED BY <3>4, <6>2 DEF Rx
          <5>2. QED BY <5>1
        <4>3. At(t, "process", w) /\ w = "rx"  BY <1>4, <3>4
        <4>4. QED BY <1>7, <3>4, <4>2, <4>3, MoveProcess
      <3>5. CASE x # Rx("process")
        <4>1. CASE CopiesAt(o, y) /\ Last(script'[t]) = Rx("copyout")
          <5>1. CopiesAt(o, x)  BY <1>1, <1>10, <3>5, <4>1, EdgeReceive
          <5>2. QED BY <1>1, <1>10, <4>1, <5>1 DEF Copies, CopiesAt
        <4>2. CASE y = Rx("copyout")
          <5>1. o = "Transf" /\ x = Rx("poll")
            BY <1>1, <1>10, <3>3, <3>5, <4>2, EdgeReceive
          <5>2. Last(script[t]) = Rx("copyout")
            <6>1. Control'  BY Moves, MoveControl
            <6>2. IsRest("Transf", script'[t])  BY <1>1, <5>1, <6>1 DEF Control
            <6>3. script'[t][1] = Rx("copyout")  BY <4>2 DEF Now
            <6>4. \A z : <<Rx("copyout"), z>> \notin Edges("Transf")
              BY DEF Edges, Sends, Owning, Tx, Rx
            <6>5. Last(script'[t]) = Rx("copyout")  BY <6>2, <6>3, <6>4, StepOn
            <6>6. QED BY <1>10, <6>5
          <5>3. QED BY <1>1, <5>1, <5>2 DEF Copies
        <4>3. QED BY <3>2, <4>1, <4>2
      <3>6. QED BY <3>4, <3>5
    <2>2. ASSUME ~isSg, y = Rx("copyout")  PROVE x = Rx("ack") /\ "err" \notin seen[t]
      <3>1. x = Rx("ack")
        <4>1. o \notin SgOps  BY <1>1, <2>2
        <4>2. QED BY <1>1, <1>10, <2>2, <4>1, EdgeReceive DEF SgOps
      <3>2. At(t, "ack", w) /\ y # Tx("reset")  BY <1>4, <2>2, <3>1 DEF Tx, Rx
      <3>3. "err" \notin seen[t]  BY <3>2, MoveData
      <3>4. QED BY <3>1, <3>3
    <2>3. ASSUME y = Rx("ack")  PROVE x = Rx("wait") /\ seen'[t] = chan["rx"].irq
      <3>1. x = Rx("wait")  BY <1>1, <1>10, <2>3, EdgeReceive DEF Rx
      <3>2. At(t, "wait", w) /\ w = "rx" /\ y # Tx("reset")  BY <1>4, <2>3, <3>1 DEF Tx, Rx
      <3>3. seen'[t] = chan["rx"].irq  BY <3>2, MoveData
      <3>4. QED BY <3>1, <3>3
    <2>4. WaitingAt(o, y, "rx") =>
            WaitingAt(o, x, "rx") \/ x \in {Rx("tail"), Rx("length")}
      BY <1>1, <1>10, EdgeFly, PlacesAre DEF Rx
    <2>5. /\ RxFilled(o, y) => x = Rx("fill") \/ (RxFilled(o, x) /\ x # Rx("copyout"))
          /\ RxChained(o, y) => x = Rx("chain") \/ (RxChained(o, x) /\ x # Rx("process"))
          /\ Untailed(o, y) => x = Rx("fill") \/ Untailed(o, x)
          /\ RxChained(o, y) /\ Untailed(o, y) =>
               x = Rx("chain") \/ (RxChained(o, x) /\ Untailed(o, x))
      BY <1>1, <1>10, EdgeReceive
    <2>6. o \in OnTx \cup OnRx /\ Now(script[t]) = x  BY <1>1
    <2>7. ~isSg /\ y = Rx("copyout") =>
            \/ x = Rx("ack") /\ "err" \notin seen[t]
            \/ x = Rx("pending") /\ chan["rx"].irq = {"ioc"}
      BY <2>2
    <2>8. y = Rx("ack") => x = Rx("wait") /\ seen'[t] = chan["rx"].irq  BY <2>3
    <2>9. QED BY <2>1, <2>4, <2>5, <2>6, <2>7, <2>8
  <1>11. QED BY <1>2, <1>7, <1>8, <1>9, <1>10

(* The chain and the buffer of a receive that is under way.                 *)
RxGiven ==
  isSg /\ Fine("rx") /\ chan["rx"].job # None /\ ~chan["rx"].resetting =>
    chain["rx"] = [call |-> chan["rx"].job, done |-> FALSE] /\ mem["rx"] = None

LEMMA MoveRxGiven ==
  ASSUME Typed, Control, Registers, NEW t \in Threads, NEW w \in Channels, Moving(t, w),
         RxGiven, Receiving(t)
  PROVE  RxGiven'
  <1> SUFFICES ASSUME isSg', Fine("rx")', chan'["rx"].job # None, ~chan'["rx"].resetting
      PROVE  /\ chain'["rx"] = [call |-> chan'["rx"].job, done |-> FALSE]
             /\ mem'["rx"] = None
    BY DEF RxGiven
  <1>1. UNCHANGED <<isSg, up, op, call>> /\ Fine("rx") /\ isSg
    BY Others, PlacesAre
  <1>2. PICK a \in Stages \ {"lock", "up"} : At(t, a, w)  BY Moves
  <1>3. \A b : At(t, b, w) <=> b = a  BY <1>2 DEF At
  <1>4. ~chan["rx"].resetting  BY PlacesAre, WrittenIs
  <1>5. CASE w = "rx" /\ a \in {"tail", "length"}
    <2>0. ~At(t, "chain", w) /\ ~At(t, "process", w) /\ ~At(t, "fill", w)  BY <1>3, <1>5
    <2>1. mem'["rx"] = mem["rx"]  BY <2>0, MoveData, PlacesAre
    <2>2. chain'["rx"] = chain["rx"]  BY <2>0, MoveData, PlacesAre
    <2>3. CASE chan'["rx"].job = chan["rx"].job
      BY <1>1, <1>4, <2>1, <2>2, <2>3 DEF RxGiven
    <2>4. CASE chan'["rx"].job # chan["rx"].job
      <3>1. chan'["rx"].job = call[t]  BY <2>4, PlacesAre, WrittenIs
      <3>2. op[t] \in OnTx \cup OnRx  BY <1>2, <1>5, InCall
      <3>3. /\ Uses(t, "rx") /\ Now(script[t]) = <<a, "rx">> /\ op[t] \in SgOps
            /\ StageOf(op[t], <<a, "rx">>)
        BY <1>1, <1>2, <1>5, <3>2, Works, AtStage
      <3>4. a = "length" => op[t] \in DirectOps  BY <1>5, <3>2, <3>3, PlacesAre, StageIs
      <3>5. a = "tail"  BY <1>5, <3>3, <3>4 DEF SgOps, DirectOps
      <3>6. <<a, "rx">> = Rx("tail")  BY <3>5 DEF Rx
      <3>7. Rx("tail") \notin Lasts(op[t])  BY <3>2 DEF Lasts, Tx, Rx
      <3>8. \E y : <<Rx("tail"), y>> \in Edges(op[t])  BY <3>3, <3>6, <3>7 DEF StageOf
      <3>9. RxChained(op[t], Rx("tail")) /\ Untailed(op[t], Rx("tail"))
        BY <3>2, <3>3, <3>8, EdgeReceive
      <3>10. chain["rx"] = [call |-> call[t], done |-> FALSE] /\ mem["rx"] = None
        BY <1>1, <3>3, <3>6, <3>9 DEF Receiving
      <3>11. QED BY <2>1, <2>2, <3>1, <3>10
    <2>5. QED BY <2>3, <2>4
  <1>6. CASE ~(w = "rx" /\ a \in {"tail", "length"})
    <2>1. chan'["rx"].job = chan["rx"].job  BY <1>3, <1>6, PlacesAre, WrittenIs
    <2>2. ~(w = "rx" /\ a \in {"chain", "process", "fill"})
      <3>1. ASSUME w = "rx", a \in {"chain", "process", "fill"}  PROVE FALSE
        <4>1. chan["rx"].job = None \/ chan["rx"].resetting  BY <1>1, <1>2, <3>1, Rewrites
        <4>2. QED BY <1>4, <2>1, <4>1
      <3>2. QED BY <3>1
    <2>3. w = "rx" => ~At(t, "chain", w) /\ ~At(t, "process", w) /\ ~At(t, "fill", w)
      BY <1>3, <2>2
    <2>4. /\ mem'["rx"] # mem["rx"] => "rx" = w /\ At(t, "fill", w)
          /\ chain'["rx"] # chain["rx"] => "rx" = w /\ (At(t, "chain", w) \/ At(t, "process", w))
      BY MoveData, PlacesAre
    <2>5. mem'["rx"] = mem["rx"]  BY <2>3, <2>4
    <2>6. chain'["rx"] = chain["rx"]  BY <2>3, <2>4
    <2>7. QED BY <1>1, <1>4, <2>1, <2>5, <2>6 DEF RxGiven
  <1>7. QED BY <1>5, <1>6

(* A move of another thread leaves a receiving thread what it works on.     *)
LEMMA MoveOfOther ==
  ASSUME Typed, Control, Registers, Separate, NEW t \in Threads, NEW w \in Channels,
         Moving(t, w), NEW u \in Threads, u # t, Uses(u, "rx")
  PROVE  /\ chain'["rx"] = chain["rx"] /\ \A p \in Places \ {"tx"} : mem'[p] = mem[p]
         /\ got' = got /\ chan'["rx"].irq = chan["rx"].irq /\ chan'["rx"].job = chan["rx"].job
         /\ chan'["rx"].dst = chan["rx"].dst
  <1>1. PICK a \in Stages \ {"lock", "up"} : At(t, a, w)  BY Moves
  <1>2. \A b : At(t, b, w) <=> b = a  BY <1>1 DEF At
  <1>3. up  BY DEF Control, Uses, OnTx, OnRx, Sends, Owning
  <1>4. a # "alloc" => w # "rx"  BY <1>1, <1>3, UpUses, Unique, PlacesAre
  <1>5. a = "copyout" => w = "rx"
    <2>1. HAVE a = "copyout"
    <2>2. Uses(t, w) /\ op[t] \in OnTx \cup OnRx /\ StageOf(op[t], <<a, w>>)
      BY <1>1, <1>3, <2>1, UpUses
    <2>3. <<"copyout", "tx">> \notin Lasts(op[t]) /\ \A y : <<<<"copyout", "tx">>, y>> \notin Edges(op[t])
      BY DEF Lasts, Edges, Sends, Owning, Tx, Rx
    <2>4. w # "tx"  BY <2>1, <2>2, <2>3 DEF StageOf
    <2>5. QED BY <2>4, PlacesAre
  <1>6. w = "rx" => /\ ~At(t, "chain", w) /\ ~At(t, "process", w) /\ ~At(t, "fill", w)
                    /\ ~At(t, "ack", w) /\ ~At(t, "pending", w) /\ ~At(t, "tail", w)
                    /\ ~At(t, "length", w)
    BY <1>2, <1>4
  <1>7. ~At(t, "copyout", w)  BY <1>2, <1>4, <1>5
  <1>8. chain'["rx"] = chain["rx"]
    <2>1. chain'["rx"] # chain["rx"] => "rx" = w /\ (At(t, "chain", w) \/ At(t, "process", w))
      BY MoveData, PlacesAre
    <2>2. QED BY <1>6, <2>1
  <1>9. ASSUME NEW p \in Places \ {"tx"}  PROVE mem'[p] = mem[p]
    <2>1. mem'[p] # mem[p] => p = w /\ At(t, "fill", w)  BY MoveData
    <2>2. QED BY <1>6, <2>1, PlacesAre
  <1>10. got' = got  BY <1>7, MoveData
  <1>11. /\ chan'["rx"].irq = chan["rx"].irq /\ chan'["rx"].job = chan["rx"].job
         /\ chan'["rx"].dst = chan["rx"].dst
    BY <1>6, WrittenIs, PlacesAre
  <1>12. QED BY <1>8, <1>9, <1>10, <1>11

LEMMA MoveReceiving ==
  ASSUME Typed, Control, Registers, Separate, NEW t \in Threads, NEW w \in Channels,
         Moving(t, w), NEW u \in Threads, Receiving(u)
  PROVE  Receiving(u)'
  <1> SUFFICES ASSUME Uses(u, "rx")'  PROVE Receiving(u)'
    BY DEF Receiving
  <1>1. /\ UNCHANGED <<case, isSg, up, op, call, calls, owner>> /\ Uses(u, "rx")
        /\ Fine("rx")' => Fine("rx")
        /\ u # t => script'[u] = script[u] /\ seen'[u] = seen[u]
    BY Others, PlacesAre
  <1>2. /\ op'[u] = op[u] /\ call'[u] = call[u] /\ isSg' = isSg /\ Target(u)' = Target(u)
        /\ Target(u) \in Places \ {"tx"} /\ "rx" \in Places \ {"tx"}
    BY <1>1, PlacesAre DEF Target
  <1>3. CASE u # t
    <2>1. /\ chain'["rx"] = chain["rx"] /\ \A p \in Places \ {"tx"} : mem'[p] = mem[p]
          /\ got' = got /\ chan'["rx"].irq = chan["rx"].irq /\ chan'["rx"].job = chan["rx"].job
          /\ chan'["rx"].dst = chan["rx"].dst
      BY <1>1, <1>3, MoveOfOther
    <2>2. /\ Now(script[u])' = Now(script[u]) /\ script'[u] = script[u] /\ seen'[u] = seen[u]
          /\ \A x : At1(u, x)' <=> At1(u, x)
      BY <1>1, <1>3 DEF At1
    <2>3. (Copies(u)' <=> Copies(u)) /\ (Waiting(u, "rx")' <=> Waiting(u, "rx"))
      BY <1>2, <2>2 DEF Copies, Waiting
    <2>4. Handed(u)' <=> Handed(u)  BY <1>2, <2>1 DEF Handed, Fresh
    <2>5. mem'["rx"] = mem["rx"] /\ (Fresh(mem["rx"])' <=> Fresh(mem["rx"]))
      BY <1>2, <2>1 DEF Fresh
    <2>6. QED BY <1>1, <1>2, <2>1, <2>2, <2>3, <2>4, <2>5 DEF Receiving
  <1>4. CASE u = t
    <2> DEFINE y == Now(script'[t])
               o == op[t]
    <2>1. script'[t] # <<>> /\ Uses(t, "rx")  BY <1>1, <1>4 DEF Uses
    <2>2. PICK a \in Stages \ {"lock", "up"} : At(t, a, w)  BY Moves
    <2> DEFINE x == <<a, w>>
    <2>3. /\ o \in OnTx \cup OnRx /\ Now(script[t]) = x
          /\ RxFilled(o, y) => x = Rx("fill") \/ (RxFilled(o, x) /\ x # Rx("copyout"))
          /\ RxChained(o, y) => x = Rx("chain") \/ (RxChained(o, x) /\ x # Rx("process"))
          /\ Untailed(o, y) => x = Rx("fill") \/ Untailed(o, x)
          /\ RxChained(o, y) /\ Untailed(o, y) =>
               x = Rx("chain") \/ (RxChained(o, x) /\ Untailed(o, x))
      BY <2>1, <2>2, Comes
    <2>4. isSg /\ Copies(t)' => Copies(t) \/ (x = Rx("process") /\ chain["rx"].done)
      BY <2>1, <2>2, Comes
    <2>5. ~isSg /\ y = Rx("copyout") =>
            \/ x = Rx("ack") /\ "err" \notin seen[t]
            \/ x = Rx("pending") /\ chan["rx"].irq = {"ioc"}
      BY <2>1, <2>2, Comes
    <2>6. /\ WaitingAt(o, y, "rx") =>
               WaitingAt(o, x, "rx") \/ x \in {Rx("tail"), Rx("length")}
          /\ y = Rx("ack") => x = Rx("wait") /\ seen'[t] = chan["rx"].irq
      BY <2>1, <2>2, Comes
    <2>7. /\ \A st : x = Rx(st) <=> (a = st /\ w = "rx")
          /\ \A b : At(t, b, w) <=> b = a
      BY <2>2 DEF Rx, At
    <2>8. /\ x # Rx("fill") => mem'["rx"] = mem["rx"]
          /\ x = Rx("fill") => mem'["rx"] = None
          /\ \A p \in Places \ {"tx"} : p # "rx" => mem'[p] = mem[p]
      <3>1. \A p \in Places : mem'[p] # mem[p] => p = w /\ At(t, "fill", w)  BY MoveData
      <3>2. At(t, "fill", w) => mem'[w] = IF w = "tx" THEN call[t] ELSE None  BY MoveData
      <3>3. ASSUME x = Rx("fill")  PROVE mem'["rx"] = None
        <4>1. At(t, "fill", w) /\ w = "rx"  BY <2>7, <3>3
        <4>2. QED BY <3>2, <4>1
      <3>4. x # Rx("fill") => mem'["rx"] = mem["rx"]  BY <2>7, <3>1, <1>2
      <3>5. QED BY <3>1, <3>3, <3>4, PlacesAre
    <2>9. x \notin {Rx("chain"), Rx("process")} => chain'["rx"] = chain["rx"]
      <3>1. chain'["rx"] # chain["rx"] => "rx" = w /\ (At(t, "chain", w) \/ At(t, "process", w))
        BY MoveData, PlacesAre
      <3>2. QED BY <2>7, <3>1
    <2>10. x = Rx("chain") => chain'["rx"] = [call |-> call[t], done |-> FALSE]
      <3>1. HAVE x = Rx("chain")
      <3>2. At(t, "chain", w) /\ w = "rx"  BY <2>7, <3>1
      <3>3. QED BY <2>1, <3>2, MoveData
    <2>11. x # Rx("copyout") => got' = got
      <3>1. HAVE x # Rx("copyout")
      <3>2. CASE a = "copyout" /\ w = "tx"
        <4>1. o \in Ops /\ StageOf(o, <<"copyout", "tx">>)
          BY <2>1, <2>2, <3>2, Works DEF Uses, Ops
        <4>2. <<"copyout", "tx">> \notin Lasts(o) /\ \A z : <<<<"copyout", "tx">>, z>> \notin Edges(o)
          BY DEF Lasts, Edges, Sends, Owning, Tx, Rx
        <4>3. QED BY <4>1, <4>2 DEF StageOf
      <3>3. CASE a # "copyout"
        <4>1. ~At(t, "copyout", w)  BY <2>7, <3>3
        <4>2. QED BY <4>1, MoveData
      <3>4. QED BY <2>7, <3>1, <3>2, <3>3, PlacesAre
    <2>12. /\ op'[t] = o /\ Now(script[t])' = y /\ (\A z : At1(t, z)' <=> y = z)
           /\ \A z : At1(t, z) <=> x = z
      BY <1>2, <1>4, <2>3 DEF At1
    <2>13. /\ Waiting(t, "rx")' <=> WaitingAt(o, y, "rx")
           /\ Waiting(t, "rx") <=> WaitingAt(o, x, "rx")
      BY <2>3, <2>12 DEF Waiting
    <2>14. Receiving(t) /\ Flight(t, "rx")  BY <1>4, PlacesAre DEF Registers
    <2> HIDE DEF x, y, o
    <2>15. ASSUME isSg  PROVE Receiving(t)'
      <3>1. /\ RxFilled(o, x) /\ mem["rx"] # None => Fresh(mem["rx"])
            /\ RxChained(o, x) /\ chain["rx"].done => mem["rx"] # None
            /\ Copies(t) => mem["rx"] # None
            /\ Fine("rx") /\ Untailed(o, x) => mem["rx"] = None
            /\ Fine("rx") /\ RxChained(o, x) /\ Untailed(o, x) =>
                 chain["rx"] = [call |-> call[t], done |-> FALSE]
        BY <2>1, <2>3, <2>14, <2>15 DEF Receiving, o
      <3>2. /\ x = Rx("process") => RxChained(o, x)
            /\ RxFilled(o, x) \/ RxChained(o, x) \/ Untailed(o, x) => x # Rx("fill")
            /\ Untailed(o, x) => x # Rx("process")
            /\ RxChained(o, x) => x # Rx("chain")
        <4>1. o \in {"Recv", "Transf"}
          BY <2>1, <2>15 DEF Uses, Control, Mutex, SgOps, OnTx, OnRx, Sends, o
        <4>2. QED BY <4>1 DEF RxFilled, RxChained, Untailed, Tx, Rx
      <3>3. ASSUME RxFilled(o, y), mem'["rx"] # None  PROVE Fresh(mem["rx"])'
        <4>1. RxFilled(o, x) /\ x # Rx("copyout") /\ x # Rx("fill")  BY <2>3, <2>8, <3>3
        <4>2. mem'["rx"] = mem["rx"] /\ got' = got  BY <2>8, <2>11, <4>1
        <4>3. QED BY <3>1, <3>3, <4>1, <4>2 DEF Fresh
      <3>4. ASSUME RxChained(o, y), chain'["rx"].done  PROVE mem'["rx"] # None
        <4>1. CASE x = Rx("chain")  BY <2>10, <3>4, <4>1
        <4>2. CASE RxChained(o, x) /\ x # Rx("process")
          BY <2>8, <2>9, <3>1, <3>2, <3>4, <4>2
        <4>3. QED BY <2>3, <3>4, <4>1, <4>2
      <3>5. ASSUME Copies(t)'  PROVE mem'["rx"] # None
        <4>1. CASE Copies(t)
          <5>1. x # Rx("fill")  BY <2>12, <4>1 DEF Copies, At1, Tx, Rx
          <5>2. QED BY <2>8, <3>1, <4>1, <5>1
        <4>2. CASE x = Rx("process") /\ chain["rx"].done
          BY <2>8, <3>1, <3>2, <4>2
        <4>3. QED BY <2>4, <2>15, <3>5, <4>1, <4>2
      <3>6. ASSUME Untailed(o, y), Fine("rx")'  PROVE mem'["rx"] = None
        BY <1>1, <2>3, <2>8, <3>1, <3>2, <3>6
      <3>7. ASSUME Fine("rx")', RxChained(o, y), Untailed(o, y)
            PROVE  chain'["rx"] = [call |-> call[t], done |-> FALSE]
        BY <1>1, <2>3, <2>9, <2>10, <3>1, <3>2, <3>7
      <3>8. QED
        BY <1>2, <1>4, <2>12, <2>15, <3>3, <3>4, <3>5, <3>6, <3>7 DEF Receiving
    <2>16. ASSUME ~isSg, Fine("rx")'  PROVE Receiving(t)'
      <3>1. /\ Waiting(t, "rx") /\ chan["rx"].job # None => chan["rx"].dst = Target(t)
            /\ Waiting(t, "rx") /\ "ioc" \in chan["rx"].irq => Handed(t)
            /\ At1(t, Rx("ack")) /\ "ioc" \in seen[t] => Handed(t)
            /\ Fine("rx")
        BY <1>1, <2>1, <2>14, <2>16 DEF Receiving
      <3>2. o \in DirectOps
        BY <2>1, <2>16 DEF Uses, Control, SgOps, DirectOps, OnTx, OnRx, Sends, o
      <3>3. x # Rx("fill") /\ x # Rx("tail")
        <4>1. o \in {"DirectRecv", "DirectManualRecv"}
          BY <2>1, <3>2 DEF Uses, Mutex, DirectOps, OnTx, Sends, o
        <4>2. StageOf(o, x)
          <5>1. IsRest(op[t], script[t]) /\ script[t] # <<>>  BY <2>1 DEF Uses, Control
          <5>2. StageOf(op[t], script[t][1]) /\ Now(script[t]) = script[t][1]
            BY <5>1, StepOn DEF StageOf
          <5>3. QED BY <2>3, <5>2 DEF o
        <4>3. QED BY <4>1, <4>2 DEF StageOf, Lasts, Edges, Sends, Owning, Tx, Rx
      <3>4. x # Rx("copyout") => (Handed(t)' <=> Handed(t))
        BY <1>2, <1>4, <2>8, <2>11, <3>3 DEF Handed, Fresh
      <3>5. ASSUME x = Rx("length")
            PROVE  /\ chan'["rx"].job # None => chan'["rx"].dst = Target(t)
                   /\ chan'["rx"].irq = {}
        <4>1. Clear("rx")  BY <1>1, <2>1, <2>12, <2>14, <3>1, <3>5 DEF Flight, Rx
        <4>2. At(t, "length", w) /\ w = "rx"  BY <2>7, <3>5
        <4>3. chan'["rx"] = chan["rx"] \/ chan'["rx"].dst = Target(t)
          BY <4>2, WrittenIs
        <4>4. ~At(t, "ack", w) /\ ~At(t, "pending", w)  BY <2>7, <4>2
        <4>5. chan'["rx"].irq = chan["rx"].irq  BY <4>2, <4>4, WrittenIs
        <4>6. QED BY <4>1, <4>3, <4>5 DEF Clear
      <3>6. ASSUME WaitingAt(o, x, "rx")
            PROVE  /\ chan'["rx"].job = chan["rx"].job /\ chan'["rx"].dst = chan["rx"].dst
                   /\ chan'["rx"].irq = chan["rx"].irq /\ x # Rx("copyout")
        <4>1. x \in {Rx("wait"), Rx("idle")}
          BY <3>2, <3>6 DEF WaitingAt, DirectOps, Rx
        <4>2. w = "rx" => a \in {"wait", "idle"}  BY <2>7, <4>1
        <4>3. w = "rx" => /\ ~At(t, "ack", w) /\ ~At(t, "pending", w) /\ ~At(t, "tail", w)
                          /\ ~At(t, "length", w)
          BY <2>7, <4>2
        <4>4. QED BY <4>1, <4>3, WrittenIs, PlacesAre DEF Rx
      <3>7. ASSUME WaitingAt(o, y, "rx")
            PROVE  /\ chan'["rx"].job # None => chan'["rx"].dst = Target(t)
                   /\ "ioc" \in chan'["rx"].irq => Handed(t)'
        BY <2>6, <2>13, <3>1, <3>3, <3>4, <3>5, <3>6, <3>7
      <3>8. ASSUME y = Rx("ack"), "ioc" \in seen'[t]  PROVE Handed(t)'
        <4>1. x = Rx("wait") /\ seen'[t] = chan["rx"].irq  BY <2>6, <3>8
        <4>2. WaitingAt(o, x, "rx")  BY <4>1 DEF WaitingAt, Rx
        <4>3. QED BY <2>13, <3>1, <3>4, <3>6, <3>8, <4>1, <4>2
      <3>9. ASSUME y = Rx("copyout")  PROVE Handed(t)'
        <4>1. CASE x = Rx("ack") /\ "err" \notin seen[t]
          <5>1. seen[t] # {}  BY <1>1, <2>1, <2>12, <2>14, <3>1, <4>1 DEF Flight, Rx
          <5>2. seen[t] \in SUBSET {"ioc", "err"}  BY TypedIs
          <5>3. "ioc" \in seen[t] /\ Rx("ack") # Rx("copyout")  BY <4>1, <5>1, <5>2 DEF Rx
          <5>4. QED BY <2>12, <3>1, <3>4, <4>1, <5>3
        <4>2. CASE x = Rx("pending") /\ chan["rx"].irq = {"ioc"}
          <5>1. ~Flying(t, "rx")  BY <2>3, <4>2 DEF Flying, FlyingAt, WaitingAt, Tx, Rx
          <5>2. Quiet("rx")  BY <2>1, <3>1, <5>1, FindsQuiet, PlacesAre
          <5>3. QED BY <2>16, <4>2, <5>2 DEF Quiet, Spent
        <4>3. QED BY <2>5, <2>16, <3>9, <4>1, <4>2
      <3>10. QED BY <1>2, <1>4, <2>12, <2>13, <2>16, <3>7, <3>8, <3>9 DEF Receiving
    <2>17. ASSUME ~isSg, ~Fine("rx")'  PROVE Receiving(t)'
      BY <1>2, <2>17 DEF Receiving
    <2>18. QED BY <1>4, <2>15, <2>16, <2>17
  <1>5. QED BY <1>3, <1>4

(* What is handed over is there, and new.                                   *)
LEMMA HandsOver ==
  ASSUME Typed, Control, Separate, "rx" \notin abandoned, NEW t \in Threads, NEW w \in Channels,
         At(t, "copyout", w), op[t] \in OnTx \cup OnRx, Receiving(t)
  PROVE  Handed(t)
  <1> DEFINE o == op[t]
  <1>1. /\ Uses(t, w) /\ Now(script[t]) = <<"copyout", w>> /\ (isSg <=> o \in SgOps)
        /\ StageOf(o, <<"copyout", w>>)
    BY Works, AtStage
  <1>2. w = "rx"
    <2>1. <<"copyout", "tx">> \notin Lasts(o) /\ \A z : <<<<"copyout", "tx">>, z>> \notin Edges(o)
      BY DEF Lasts, Edges, Sends, Owning, Tx, Rx
    <2>2. QED BY <1>1, <2>1, PlacesAre DEF StageOf
  <1>3. At1(t, Rx("copyout"))  BY <1>1, <1>2 DEF At1, Rx
  <1>4. CASE isSg
    <2>1. o \in {"Recv", "Transf"} /\ o # "DirectManualRecv"
      BY <1>1, <1>2, <1>4 DEF Uses, Mutex, SgOps, OnTx, OnRx, Sends
    <2>2. RxFilled(o, Now(script[t])) /\ Copies(t)
      BY <1>3, <2>1 DEF RxFilled, Copies, At1, Tx, Rx
    <2>3. mem["rx"] # None /\ Fresh(mem["rx"])
      BY <1>1, <1>2, <1>4, <2>2 DEF Receiving
    <2>4. QED BY <2>1, <2>3 DEF Handed, Target
  <1>5. CASE ~isSg
    <2>1. Fine("rx")  BY <1>5 DEF Fine
    <2>2. QED BY <1>1, <1>2, <1>3, <1>5, <2>1 DEF Receiving
  <1>6. QED BY <1>4, <1>5

LEMMA MoveReception ==
  ASSUME Typed, Control, Registers, Reception,
         NEW t \in Threads, NEW w \in Channels, Moving(t, w)
  PROVE  Reception'
  <1>1. /\ UNCHANGED <<case, isSg, up, op, call>> /\ abandoned \subseteq abandoned'
        /\ Separate' <=> Separate
    BY Others DEF Separate
  <1> SUFFICES ASSUME Separate  PROVE Reception'
    BY <1>1 DEF Reception
  <1>2. RxGiven /\ (\A u \in Threads : Receiving(u)) /\ ReceivedOnce
    BY DEF Reception, RxGiven
  <1>3. RxGiven'  BY <1>2, MoveRxGiven
  <1>4. \A u \in Threads : Receiving(u)'  BY <1>2, MoveReceiving
  <1>5. ReceivedOnce'
    <2>1. CASE "rx" \in abandoned'  BY <2>1 DEF ReceivedOnce
    <2>2. CASE "rx" \notin abandoned' /\ got' = got  BY <1>1, <1>2, <2>2 DEF ReceivedOnce
    <2>3. CASE "rx" \notin abandoned' /\ got' # got
      <3>1. At(t, "copyout", w)  BY <2>3, MoveData
      <3>2. op[t] \in OnTx \cup OnRx  BY <3>1, InCall
      <3>3. "rx" \notin abandoned  BY <1>1, <2>3
      <3>4. Handed(t)  BY <1>2, <3>1, <3>2, <3>3, HandsOver
      <3> DEFINE n == [call |-> call[t], packet |-> mem[Target(t)]]
      <3>5. got' = got \cup {n}  BY <3>1, MoveData
      <3>6. n.packet # None /\ \A g \in got : g.packet # n.packet
        BY <3>4 DEF Handed, Fresh
      <3>7. \A g \in got : g.packet # None /\ \A h \in got : g.packet = h.packet => g = h
        BY <1>2, <3>3 DEF ReceivedOnce
      <3> HIDE DEF n
      <3>8. QED BY <3>5, <3>6, <3>7 DEF ReceivedOnce
    <2>4. QED BY <2>1, <2>2, <2>3
  <1>6. QED BY <1>3, <1>4, <1>5 DEF Reception, RxGiven

LEMMA OutsideReception ==
  ASSUME Typed, Control, Reception, NEW t \in Threads, Outside(t)
  PROVE  Reception'
  <1>1. /\ UNCHANGED <<case, isSg, seen, chan, chain, wire, arrived, reported, got, abandoned>>
        /\ \A u \in Threads : u # t =>
             /\ op'[u] = op[u] /\ script'[u] = script[u] /\ call'[u] = call[u]
             /\ \A v \in Channels : Uses(u, v)' <=> Uses(u, v)
        /\ \A v \in Channels : Uses(t, v)' =>
             /\ op'[t] = op[t] /\ op[t] \in OnTx \cup OnRx
             /\ Now(script'[t])[1] \in {"chain", "alloc", "pending"}
             /\ Now(script[t]) = <<"lock", Mutex(op[t])>>
             /\ <<Now(script[t]), Now(script'[t])>> \in Edges(op[t])
        /\ mem' = mem \/ (op[t] = "none" /\ mem' = [mem EXCEPT ![t] = None])
    BY OutsideIs
  <1>2. Fine("rx")' <=> Fine("rx")  BY <1>1 DEF Fine, Separate
  <1>3. mem'["rx"] = mem["rx"] /\ \A u \in Threads : u # t => mem'[u] = mem[u]
    <2>1. t # "rx" /\ mem \in [Places -> Nat] /\ "rx" \in Places /\ Threads \subseteq Places
      BY PlacesAre DEF Typed
    <2>2. CASE mem' = mem  BY <2>2
    <2>3. CASE mem' = [mem EXCEPT ![t] = None]  BY <2>1, <2>3
    <2>4. QED BY <1>1, <2>2, <2>3
  <1>4. \A p : Fresh(p)' <=> Fresh(p)  BY <1>1 DEF Fresh
  <1>5. ASSUME Separate, NEW u \in Threads  PROVE Receiving(u)'
    <2>1. Receiving(u)  BY <1>5 DEF Reception
    <2>2. CASE u # t
      <3>1. (\A x : At1(u, x)' <=> At1(u, x)) /\ (Uses(u, "rx")' <=> Uses(u, "rx"))
        BY <1>1, <2>2, PlacesAre DEF At1
      <3>2. (Copies(u)' <=> Copies(u)) /\ (Waiting(u, "rx")' <=> Waiting(u, "rx"))
        BY <1>1, <2>2, <3>1 DEF Copies, Waiting
      <3>3. mem'[Target(u)] = mem[Target(u)] /\ Target(u)' = Target(u)
        BY <1>1, <1>3, <2>2 DEF Target
      <3>4. Handed(u)' <=> Handed(u)  BY <1>4, <3>3 DEF Handed, Fresh
      <3>5. /\ op'[u] = op[u] /\ script'[u] = script[u] /\ call'[u] = call[u]
            /\ seen' = seen /\ chan' = chan /\ chain' = chain /\ isSg' = isSg
            /\ Fresh(mem["rx"])' <=> Fresh(mem["rx"])
        BY <1>1, <1>3, <1>4, <2>2 DEF Fresh
      <3>6. QED BY <1>2, <1>3, <2>1, <3>1, <3>2, <3>3, <3>4, <3>5 DEF Receiving
    <2>3. CASE u = t
      <3> SUFFICES ASSUME Uses(t, "rx")'  PROVE Receiving(t)'
        BY <2>3 DEF Receiving
      <3> DEFINE x == Now(script[t])
                 y == Now(script'[t])
      <3>1. /\ op'[t] = op[t] /\ op[t] \in OnTx \cup OnRx /\ x = <<"lock", Mutex(op[t])>>
            /\ y[1] \in {"chain", "alloc", "pending"} /\ <<x, y>> \in Edges(op[t])
        BY <1>1, PlacesAre
      <3> HIDE DEF x, y
      <3>2. /\ x \notin {Rx("fill"), Rx("chain")} /\ ~RxFilled(op[t], x) /\ ~RxChained(op[t], x)
            /\ ~Untailed(op[t], x)
        BY <3>1 DEF RxFilled, RxChained, Untailed, Mutex, OnTx, Sends, Tx, Rx
      <3>3. ~RxFilled(op[t], y) /\ ~RxChained(op[t], y) /\ ~Untailed(op[t], y)
        BY <3>1, <3>2, EdgeReceive
      <3>4. y \notin {Rx("copyout"), Tx("reset"), Tx("poll"), Rx("reset"), Rx("poll"), Rx("ack")}
        BY <3>1 DEF Tx, Rx
      <3>5. ~WaitingAt(op[t], y, "rx")  BY <3>1 DEF WaitingAt, Tx
      <3>6. op'[t] = op[t] /\ Now(script[t])' = y /\ \A z : At1(t, z)' <=> y = z
        BY <3>1 DEF y, At1
      <3>7. ~Copies(t)' /\ ~Waiting(t, "rx")'  BY <3>4, <3>5, <3>6 DEF Copies, Waiting
      <3>8. QED BY <3>3, <3>4, <3>6, <3>7 DEF Receiving
    <2>4. QED BY <2>2, <2>3
  <1>6. QED BY <1>1, <1>2, <1>3, <1>5 DEF Reception, ReceivedOnce, Separate

(* A packet arrives for the thread that waits for it, at the address it     *)
(* asked for, and it is a new one.                                          *)
LEMMA Arrives ==
  ASSUME Typed, Control, Registers, Reception, Separate, Engine, Busy("rx"),
         chan'["rx"].job = None, chain'["rx"] = [chain["rx"] EXCEPT !.done = TRUE],
         chan["rx"].job # Old => /\ arrived' = arrived + 1
                                 /\ mem' = [mem EXCEPT ![chan["rx"].dst] = arrived + 1],
         NEW u \in Threads, Uses(u, "rx")
  PROVE  Receiving(u)'
  <1> DEFINE o == op[u]
             x == Now(script[u])
             d == chan["rx"].dst
  <1>1. /\ UNCHANGED <<case, isSg, up, op, call, script, seen, calls, owner>>
        /\ UNCHANGED <<reported, got, abandoned>>
        /\ (Fine("rx")' <=> Fine("rx")) /\ (Waiting(u, "rx")' <=> Waiting(u, "rx"))
        /\ \A z : At1(u, z)' <=> At1(u, z)
    BY EngineLeaves, PlacesAre
  <1>2. chan["rx"].job # None /\ ~chan["rx"].resetting  BY DEF Busy
  <1>3. chan["rx"].job # Old
    <2>1. up  BY DEF Control, Uses, OnTx, OnRx, Sends, Owning
    <2>2. QED BY <2>1, PlacesAre DEF Registers
  <1>4. d \in Places \ {"tx"} /\ mem \in [Places -> Nat] /\ arrived \in Nat
    <2>1. chan["rx"] \in ChanType(calls) /\ mem \in [Places -> Nat] /\ arrived \in Nat
      BY TypedIs, PlacesAre DEF SharedType
    <2>2. QED BY <2>1 DEF ChanType
  <1>5. mem'[d] = arrived + 1 /\ \A p \in Places : p # d => mem'[p] = mem[p]
    BY <1>3, <1>4
  <1>6. mem'[d] # None /\ \A g \in got' : g.packet # mem'[d]
    <2>1. \A g \in got : g.packet \in 0..arrived  BY TypedIs DEF SharedType
    <2>2. arrived + 1 # None /\ \A g \in got : g.packet # arrived + 1
      BY <1>4, <2>1 DEF None
    <2>3. QED BY <1>1, <1>5, <2>2 DEF Fresh
  <1>7. Receiving(u) /\ Flight(u, "rx")  BY PlacesAre DEF Reception, Registers
  <1>8. Fine("rx") => Flying(u, "rx")
    <2>1. HAVE Fine("rx")
    <2>2. ASSUME ~Flying(u, "rx")  PROVE FALSE
      <3>1. Quiet("rx")  BY <2>1, <2>2, PlacesAre, FindsQuiet
      <3>2. QED BY <1>2, <3>1 DEF Quiet, Spent
    <2>3. QED BY <2>2
  <1>9. isSg' = isSg /\ op'[u] = o /\ Now(script[u])' = x /\ call'[u] = call[u]
        /\ Target(u)' = Target(u) /\ Target(u) \in Places
    BY <1>1, PlacesAre DEF Target
  <1> HIDE DEF o, x, d
  <1>10. ASSUME isSg  PROVE Receiving(u)'
    <2>1. d = "rx"  BY <1>10, PlacesAre DEF Registers, d
    <2>2. mem'["rx"] # None /\ Fresh(mem["rx"])'  BY <1>6, <2>1 DEF Fresh
    <2>3. Fine("rx")' => ~Untailed(o, x)
      <3>1. HAVE Fine("rx")'
      <3>2. FlyingAt(o, x, "rx")  BY <1>1, <1>8, <3>1 DEF Flying, o, x
      <3>3. QED BY <3>2 DEF FlyingAt, WaitingAt, Untailed, Tx, Rx
    <2>4. QED BY <1>9, <1>10, <2>2, <2>3 DEF Receiving
  <1>11. ASSUME ~isSg, Fine("rx")  PROVE Receiving(u)'
    <2>1. o \in {"DirectRecv", "DirectManualRecv"} /\ StageOf(o, x)
      <3>1. /\ IsRest(o, script[u]) /\ script[u] # <<>> /\ o \in DirectOps
            /\ o \in {"DirectRecv", "DirectManualRecv"}
        BY <1>11 DEF Uses, Control, Mutex, SgOps, DirectOps, OnTx, OnRx, Sends, o
      <3>2. QED BY <3>1, StepOn DEF StageOf, x
    <2>2. x # Rx("reset")
      BY <2>1 DEF StageOf, Lasts, Edges, Sends, Owning, Tx, Rx
    <2>3. x # Rx("ack")
      <3>1. ~At1(u, Rx("ack"))  BY <1>2, <1>7, <1>11 DEF Flight, Rx
      <3>2. QED BY <3>1 DEF At1, x
    <2>4. FlyingAt(o, x, "rx")  BY <1>8, <1>11 DEF Flying, o, x
    <2>5. WaitingAt(o, x, "rx") /\ x # Rx("copyout")
      BY <2>1, <2>2, <2>3, <2>4 DEF FlyingAt, WaitingAt, Rx
    <2>6. d = Target(u)
      BY <1>2, <1>7, <1>11, <2>5 DEF Receiving, Waiting, o, x, d
    <2>7. Handed(u)'  BY <1>6, <1>9, <2>6 DEF Handed, Fresh
    <2>8. ~At1(u, Rx("ack"))' /\ ~At1(u, Rx("copyout"))'
      BY <1>9, <2>3, <2>5 DEF At1
    <2>9. QED BY <1>9, <1>11, <2>7, <2>8 DEF Receiving
  <1>12. ASSUME ~isSg, ~Fine("rx")  PROVE Receiving(u)'
    BY <1>1, <1>12 DEF Receiving
  <1>13. QED BY <1>10, <1>11, <1>12

LEMMA EngineReception ==
  ASSUME Typed, Control, Registers, Reception, Engine
  PROVE  Reception'
  <1>1. /\ UNCHANGED <<case, isSg, up, op, call, script, seen, calls, owner>>
        /\ UNCHANGED <<reported, got, abandoned>>
        /\ Fine("rx")' <=> Fine("rx")
        /\ \A u \in Threads :
             /\ \A x : At1(u, x)' <=> At1(u, x)
             /\ (Uses(u, "rx")' <=> Uses(u, "rx")) /\ (Waiting(u, "rx")' <=> Waiting(u, "rx"))
    BY EngineLeaves, PlacesAre
  <1> SUFFICES ASSUME Separate  PROVE Reception'
    BY <1>1 DEF Reception, Separate
  <1>2. ReceivedOnce'  BY <1>1 DEF Reception, ReceivedOnce
  <1>3. EngineDoes("rx")  BY EngineIs, PlacesAre
  <1>4. CASE /\ Arrive /\ Busy("rx") /\ chan'["rx"].job = None
             /\ chain'["rx"] = [chain["rx"] EXCEPT !.done = TRUE]
             /\ chan["rx"].job # Old => /\ arrived' = arrived + 1
                                        /\ mem' = [mem EXCEPT ![chan["rx"].dst] = arrived + 1]
    <2>1. ASSUME NEW u \in Threads, Uses(u, "rx")  PROVE Receiving(u)'
      BY <1>4, <2>1, Arrives
    <2>2. \A u \in Threads : Receiving(u)'  BY <1>1, <2>1 DEF Receiving
    <2>3. QED BY <1>2, <1>4, <2>2 DEF Reception
  <1>5. CASE /\ chain'["rx"] = chain["rx"] /\ mem' = mem
             /\ "ioc" \in chan'["rx"].irq => "ioc" \in chan["rx"].irq
    <2>1. chan'["rx"].job # None => chan'["rx"].job = chan["rx"].job /\ chan'["rx"].dst = chan["rx"].dst
      BY <1>3 DEF EngineDoes, ResetState
    <2>2. chan'["rx"].job # None /\ ~chan'["rx"].resetting => ~chan["rx"].resetting
      BY <1>3 DEF EngineDoes, ResetState
    <2>3. RxGiven  BY DEF Reception, RxGiven
    <2>4. RxGiven'  BY <1>1, <1>5, <2>1, <2>2, <2>3 DEF RxGiven
    <2>5. ASSUME NEW u \in Threads, Uses(u, "rx")  PROVE Receiving(u)'
      <3>1. Receiving(u)  BY DEF Reception
      <3>2. /\ Copies(u)' <=> Copies(u)
            /\ Handed(u)' <=> Handed(u)
            /\ Fresh(mem["rx"])' <=> Fresh(mem["rx"])
            /\ Target(u)' = Target(u)
        BY <1>1, <1>5 DEF Copies, Handed, Fresh, Target, At1
      <3>3. /\ isSg' = isSg /\ script' = script /\ op' = op /\ call' = call /\ seen' = seen
            /\ \A x : At1(u, x)' <=> At1(u, x)
            /\ Waiting(u, "rx")' <=> Waiting(u, "rx")
        BY <1>1
      <3>4. CASE isSg  BY <1>1, <1>5, <2>5, <3>1, <3>2, <3>3, <3>4 DEF Receiving
      <3>5. CASE ~isSg  BY <1>1, <1>5, <2>1, <2>5, <3>1, <3>2, <3>3, <3>5 DEF Receiving
      <3>6. QED BY <3>4, <3>5
    <2>6. \A u \in Threads : Receiving(u)'  BY <1>1, <2>5 DEF Receiving
    <2>7. QED BY <1>2, <2>4, <2>6 DEF Reception, RxGiven
  <1>6. QED BY <1>4, <1>5, EngineData, PlacesAre

LEMMA ReceptionStep ==
  ASSUME Typed, Control, Registers, Reception, [Next]_vars
  PROVE  Reception'
  <1>1. CASE UNCHANGED vars
    <2>1. /\ UNCHANGED <<case, isSg, up, op, call, script, seen, calls, owner>>
          /\ UNCHANGED <<chan, chain, mem, wire, arrived, reported, got, abandoned>>
      BY <1>1 DEF vars, threads, engine, history
    <2>2. (Separate' <=> Separate) /\ (Fine("rx")' <=> Fine("rx")) /\ (ReceivedOnce' <=> ReceivedOnce)
      BY <2>1 DEF Separate, Fine, ReceivedOnce
    <2>3. \A u \in Threads : Receiving(u)' <=> Receiving(u)
      BY <2>1, <2>2 DEF Receiving, Uses, Holds, At1, Copies, Handed, Fresh, Target, Waiting
    <2>4. QED BY <2>1, <2>2, <2>3 DEF Reception
  <1>2. QED BY <1>1, NextIs, MoveReception, OutsideReception, EngineReception

LEMMA InitReception ==
  ASSUME Init
  PROVE  Reception
  <1>1. \A t \in Threads : op[t] = "none"  BY DEF Init
  <1>2. "none" \notin OnTx \cup OnRx  BY DEF OnTx, OnRx, Sends
  <1>3. \A t \in Threads : Receiving(t)  BY <1>1, <1>2 DEF Receiving, Uses
  <1>4. ReceivedOnce  BY DEF Init, ReceivedOnce
  <1>5. chan["rx"].job \in {None, Old}
    <2>1. chan["rx"] \in Leftover  BY PlacesAre DEF Init
    <2>2. QED BY <2>1, LeftoverJob
  <1>6. mem["rx"] = None /\ chain["rx"] = [call |-> Old, done |-> FALSE]
    BY PlacesAre DEF Init
  <1>7. QED BY <1>3, <1>4, <1>5, <1>6 DEF Reception

(* A packet is handed to one call, and a call that returns a length has a   *)
(* packet, at the address it asked for (AxiDMA.cpp:234-235, 382, 668-674,   *)
(* 727-728), until a receive was given up without a reset, if Transf and    *)
(* Recv are not both called: Transf does not lock rx_mute.                  *)
THEOREM ReceivesOnce == Spec => [](Separate => ReceivedOnce)
  <1> DEFINE Inv == Typed /\ Control /\ Registers /\ Reception
  <1>1. Init => Inv  BY InitTyped, InitRegisters, InitReception
  <1>2. Inv /\ [Next]_vars => Inv'
    BY TypeStep, ControlStep, RegistersStep, ReceptionStep
  <1>3. Inv => (Separate => ReceivedOnce)  BY DEF Reception
  <1>4. QED BY <1>1, <1>2, <1>3, PTL DEF Spec

-------------------------------------------------------------------------------
(* When no transfer is late or fails.                                       *)

NothingAbandoned == Punctual => abandoned = {}

LEMMA AbandonedStep ==
  ASSUME Typed, Control, NothingAbandoned, [Next]_vars
  PROVE  NothingAbandoned'
  <1>1. ASSUME NEW t \in Threads, NEW w \in Channels, Moving(t, w), Punctual
        PROVE  abandoned' = abandoned
    <2>1. "late" \notin case.faults  BY <1>1 DEF Punctual
    <2>2. CASE WaitComplete(t, w)  BY <2>1, <2>2 DEF WaitComplete, Abandon
    <2>3. CASE WaitDirectComplete(t, w)  BY <2>1, <2>3 DEF WaitDirectComplete, Abandon
    <2>4. CASE ~WaitComplete(t, w) /\ ~WaitDirectComplete(t, w)
      BY <1>1, <2>4 DEF Moving, InitDescriptors, AllocBufferMem, FillBuffer, Start, CheckHalt,
         SetTailDesc, AckIRQ, ProcessDescriptors, SetLength, Pending, ReturnTxLength, Reset,
         PollReset, CopyOut, history
    <2>5. QED BY <2>2, <2>3, <2>4
  <1>2. ASSUME NEW t \in Threads, NEW w \in Channels, Moving(t, w)  PROVE NothingAbandoned'
    <2>1. case' = case  BY <1>2, Others
    <2>2. QED BY <1>1, <1>2, <2>1 DEF NothingAbandoned, Punctual
  <1>3. ASSUME NEW t \in Threads, Outside(t)  PROVE NothingAbandoned'
    <2>1. UNCHANGED <<case, abandoned>>  BY <1>3, OutsideIs
    <2>2. QED BY <2>1 DEF NothingAbandoned, Punctual
  <1>4. CASE Engine
    <2>1. UNCHANGED <<case, abandoned>>  BY <1>4, EngineLeaves
    <2>2. QED BY <2>1 DEF NothingAbandoned, Punctual
  <1>5. CASE UNCHANGED vars
    <2>1. UNCHANGED <<case, abandoned>>  BY <1>5 DEF vars, threads, history
    <2>2. QED BY <2>1 DEF NothingAbandoned, Punctual
  <1>6. QED BY <1>2, <1>3, <1>4, <1>5, NextIs

(* No call rewrites the chain or the buffer of a transfer under way         *)
(* (AxiDMA.cpp:133-163, 205-221, 575-593), if no transfer is late or fails  *)
(* and Transf, which does not lock rx_mute, and Recv are not both called.   *)
THEOREM ChainKept == Spec => [](Separate => ChainInUse)
  <1> DEFINE Inv == /\ Typed /\ Control /\ Registers /\ Transmission /\ Reception
                    /\ NothingAbandoned
  <1>1. Init => Inv
    <2>1. Init => NothingAbandoned  BY DEF Init, NothingAbandoned
    <2>2. QED BY <2>1, InitTyped, InitRegisters, InitTransmission, InitReception
  <1>2. Inv /\ [Next]_vars => Inv'
    BY TypeStep, ControlStep, RegistersStep, TransmissionStep, ReceptionStep, AbandonedStep
  <1>3. Inv => (Separate => ChainInUse)
    <2> SUFFICES ASSUME Inv, Separate, Punctual, NEW w \in Channels,
                        chan[w].job # None, ~chan[w].resetting
        PROVE  /\ isSg => chain[w] = [call |-> chan[w].job, done |-> FALSE]
               /\ w = "tx" => mem["tx"] = chan["tx"].job
               /\ isSg /\ w = "rx" => mem["rx"] = None
      BY DEF ChainInUse
    <2>1. abandoned = {} /\ "slowreset" \notin case.faults  BY DEF NothingAbandoned, Punctual
    <2>2. CASE w = "tx"  BY <2>1, <2>2 DEF Transmission
    <2>3. CASE w = "rx"
      <3>1. Fine("rx")  BY <2>1 DEF Fine
      <3>2. QED BY <2>3, <3>1 DEF Reception
    <2>4. QED BY <2>2, <2>3, PlacesAre
  <1>4. QED BY <1>1, <1>2, <1>3, PTL DEF Spec

-------------------------------------------------------------------------------
(* Nothing goes wrong.                                                      *)

Safe == Punctual /\ Separate /\ ~case.sharedReset

IsGot(p) == \E g \in got : g.packet = p

(* A channel resets while a thread waits for the end of it, and no error is *)
(* seen.                                                                    *)
Healthy ==
  Safe =>
    /\ \A w \in Channels :
         /\ up => ~chan[w].failed /\ "err" \notin chan[w].irq
         /\ chan[w].resetting => \E t \in Threads : At1(t, <<"poll", w>>)
    /\ \A t \in Threads : "err" \notin seen[t]
    /\ ~up => chan["rx"].job \in {None, Old}

(* The stages of a call that receives: with channel w checked and no        *)
(* transfer started on it; with the chain complete; from the start of the   *)
(* transfer to the copy of its packet.                                      *)
CheckedAt(o, x, w) ==
  \/ x \in {<<"tail", w>>, <<"length", w>>}
  \/ w = "tx" /\ o = "Transf" /\ x \in {Rx("check"), Rx("tail")}
CompleteAt(o, x) ==
  x \in {Rx("ack"), Rx("process")} \/ (o = "Transf" /\ x = Tx("process"))
InHandAt(o, x) ==
  \/ x \in {Rx("wait"), Rx("idle"), Rx("ack"), Rx("process"), Rx("copyout")}
  \/ o = "Transf" /\ x \in {Tx("tail"), Tx("wait"), Tx("ack"), Tx("process"), Tx("reset"),
                            Tx("poll"), Rx("reset"), Rx("poll")}
InHand(t) == InHandAt(op[t], Now(script[t]))

Completed(w) == isSg /\ w = "rx" => chain["rx"].done

Smooth(t, w) ==
  Uses(t, "rx") /\ Uses(t, w) =>
    /\ CheckedAt(op[t], Now(script[t]), w) => ~chan[w].halted
    /\ Waiting(t, w) => \/ chan[w].job # None
                        \/ chan[w].irq = {"ioc"} /\ Completed(w)

InOrder(t) ==
  /\ op[t] = "Transf" /\ (Uses(t, "rx") \/ At1(t, Tx("lock"))) => Last(script[t]) = Rx("copyout")
  /\ Uses(t, "rx") =>
       /\ CompleteAt(op[t], Now(script[t])) => Completed("rx")
       /\ op[t] = "Recv" /\ At1(t, Rx("reset")) => chan["rx"].job = None

Course == Safe => \A t \in Threads : InOrder(t) /\ \A w \in Channels : Smooth(t, w)

(* A packet is in the hands of the call it came for, or handed over.        *)
Kept(p) == (\E l \in Places \ {"tx"} : mem[l] = p) \/ IsGot(p)
Spare(l) == mem[l] = None \/ IsGot(mem[l])
HeldFor(t, l) == Uses(t, "rx") /\ InHand(t) /\ l = Target(t)

Keeping ==
  Safe =>
    /\ chan["rx"].job # None => Spare(chan["rx"].dst)
    /\ \A l \in Places \ {"tx"} : Spare(l) \/ \E t \in Threads : HeldFor(t, l)
    /\ \A p \in 1..arrived : Kept(p)

(* A thread at a stage, seen from its script.                               *)
LEMMA IsAt ==
  ASSUME Control, NEW t \in Threads, NEW a, NEW w, At1(t, <<a, w>>), a # "done"
  PROVE  script[t] # <<>> /\ At(t, a, w)
  <1>1. script[t] # <<>>
    <2>1. <<a, w>> # Done  BY DEF Done
    <2>2. QED BY <2>1, NothingLeft DEF At1
  <1>2. IsRest(op[t], script[t])  BY DEF Control
  <1>3. Now(script[t]) = Head(script[t])  BY <1>1, <1>2, StepOn
  <1>4. QED BY <1>1, <1>3 DEF At, At1

(* The channel a thread works on does not reset, unless it waits for that.  *)
LEMMA NotResetting ==
  ASSUME Typed, Control, Healthy, Safe, NEW t \in Threads, NEW w \in Channels, Uses(t, w),
         ~At1(t, <<"poll", w>>)
  PROVE  ~chan[w].resetting
  <1> SUFFICES ASSUME chan[w].resetting  PROVE FALSE
    OBVIOUS
  <1>1. PICK u \in Threads : At1(u, <<"poll", w>>)  BY DEF Healthy
  <1>2. At(u, "poll", w)  BY <1>1, IsAt
  <1>3. up  BY DEF Control, Uses, OnTx, OnRx, Sends, Owning
  <1>4. Uses(u, w)  BY <1>2, <1>3, UpUses
  <1>5. u = t  BY <1>4, Unique DEF Safe
  <1>6. QED BY <1>1, <1>5

LEMMA MoveHealthy ==
  ASSUME Typed, Control, Registers, Healthy, NEW t \in Threads, NEW w \in Channels, Moving(t, w)
  PROVE  Healthy'
  <1>1. /\ UNCHANGED <<case, isSg, up, op, call, calls, owner>>
        /\ \A u \in Threads : u # t => script'[u] = script[u] /\ seen'[u] = seen[u]
    BY Others
  <1>2. Safe' <=> Safe  BY <1>1 DEF Safe, Punctual, Separate
  <1> SUFFICES ASSUME Safe  PROVE Healthy'
    BY <1>2 DEF Healthy
  <1>3. PICK a \in Stages \ {"lock", "up"} :
          /\ At(t, a, w) /\ Now(script[t]) = <<a, w>> /\ script[t] # <<>>
          /\ \/ script'[t] = <<>>
             \/ Now(script'[t]) = Tx("reset")
             \/ Now(script'[t]) = Rx("copyout")
             \/ <<<<a, w>>, Now(script'[t])>> \in Edges(op[t])
    BY Onward
  <1>4. \A b : At(t, b, w) <=> b = a  BY <1>3 DEF At
  <1>5. "late" \notin case.faults /\ "slowreset" \notin case.faults /\ ~case.sharedReset
    BY DEF Safe, Punctual
  <1>6. ASSUME NEW v \in Channels, up'  PROVE ~chan'[v].failed /\ "err" \notin chan'[v].irq
    <2>1. ~chan[v].failed /\ "err" \notin chan[v].irq  BY <1>1, <1>6 DEF Healthy
    <2>2. chan'[v].failed = chan[v].failed  BY WrittenIs
    <2>3. CASE chan'[v].irq = chan[v].irq  BY <2>1, <2>2, <2>3
    <2>4. CASE v = w /\ At(t, "ack", w)
      <3>1. chan'[v].irq = chan[v].irq \ seen[t]  BY <2>4, WrittenIs
      <3>2. QED BY <2>1, <2>2, <3>1
    <2>5. CASE v = w /\ At(t, "pending", w)
      <3>1. chan'[v].irq = {}  BY <2>5, WrittenIs
      <3>2. QED BY <2>1, <2>2, <3>1
    <2>6. QED BY <2>3, <2>4, <2>5, WrittenIs
  <1>7. ASSUME NEW v \in Channels, chan'[v].resetting
        PROVE  \E u \in Threads : At1(u, <<"poll", v>>)'
    <2>1. CASE chan[v].resetting
      <3>1. PICK u \in Threads : At1(u, <<"poll", v>>)  BY <2>1 DEF Healthy
      <3>2. u # t
        <4>1. ASSUME u = t  PROVE FALSE
          <5>1. At(t, "poll", v)  BY <3>1, <4>1, IsAt
          <5>2. <<a, w>> = <<"poll", v>>  BY <1>3, <3>1, <4>1 DEF At1
          <5>3. PollReset(t, v)  BY <5>1, <5>2, Which
          <5>4. QED BY <1>5, <2>1, <5>3 DEF PollReset
        <4>2. QED BY <4>1
      <3>3. At1(u, <<"poll", v>>)'  BY <1>1, <3>1, <3>2 DEF At1
      <3>4. QED BY <3>3
    <2>2. CASE ~chan[v].resetting
      <3>1. At(t, "reset", w) /\ v = w  BY <1>5, <1>7, <2>2, WrittenIs
      <3>2. Advance(t)  BY <3>1, Which DEF Reset
      <3>3. op[t] \in Ops /\ <<"reset", w>> \notin Lasts(op[t])
        BY <3>1, AtStage DEF Lasts, Tx, Rx
      <3>4. <<<<"reset", w>>, Now(script'[t])>> \in Edges(op[t])  BY <3>1, <3>2, <3>3, Advanced
      <3>5. Now(script'[t]) = <<"poll", w>>
        BY <3>3, <3>4 DEF Edges, Tx, Rx
      <3>6. QED BY <3>1, <3>5 DEF At1
    <2>3. QED BY <2>1, <2>2
  <1>8. ASSUME NEW u \in Threads  PROVE "err" \notin seen'[u]
    <2>1. "err" \notin seen[u]  BY DEF Healthy
    <2>2. CASE seen'[u] = seen[u]  BY <2>1, <2>2
    <2>3. CASE u = t /\ At(t, "wait", w)
      <3>1. op[t] \in OnTx \cup OnRx  BY <2>3, InCall
      <3>2. up  BY <2>3, <3>1, Works
      <3>3. "err" \notin chan[w].irq  BY <3>2 DEF Healthy
      <3>4. WaitComplete(t, w)  BY <2>3, Which
      <3>5. seen'[t] = chan[w].irq \/ seen'[t] = {}
        BY <3>4 DEF WaitComplete, Typed, TypeOK
      <3>6. QED BY <2>3, <3>3, <3>5
    <2>4. QED BY <1>1, <2>2, <2>3, MoveData
  <1>9. ~up' => chan'["rx"].job \in {None, Old}
    <2>1. ASSUME ~up, chan'["rx"].job # chan["rx"].job  PROVE FALSE
      <3>1. "rx" = w /\ (At(t, "tail", w) \/ At(t, "length", w))
        BY <2>1, PlacesAre, WrittenIs
      <3>2. op[t] \in OnTx \cup OnRx  BY <3>1, InCall
      <3>3. up  BY <3>1, <3>2, Works
      <3>4. QED BY <2>1, <3>3
    <2>2. QED BY <1>1, <2>1 DEF Healthy
  <1>10. QED BY <1>6, <1>7, <1>8, <1>9 DEF Healthy

LEMMA AllFine ==
  ASSUME NothingAbandoned, Safe
  PROVE  Fine("tx") /\ Fine("rx")
  BY DEF NothingAbandoned, Safe, Punctual, Fine

LEMMA OutsideHealthy ==
  ASSUME Typed, Control, Registers, NothingAbandoned, Healthy, NEW t \in Threads, Outside(t)
  PROVE  Healthy'
  <1>1. /\ UNCHANGED <<case, isSg, seen, chan>>
        /\ \A u \in Threads : u # t => script'[u] = script[u]
        /\ up' => up \/ (op[t] = "run" /\ At1(t, Rx("up")) /\ script[t] # <<>>)
        /\ ~up' => ~up \/ \A u \in Threads : op[u] = "none"
        /\ Now(script[t])[1] # "poll" \/ script[t] = <<>>
    BY OutsideIs
  <1>2. Safe' <=> Safe  BY <1>1 DEF Safe, Punctual, Separate
  <1> SUFFICES ASSUME Safe  PROVE Healthy'
    BY <1>2 DEF Healthy
  <1>3. ASSUME NEW v \in Channels, up'  PROVE ~chan'[v].failed /\ "err" \notin chan'[v].irq
    <2>1. CASE up  BY <1>1, <2>1 DEF Healthy
    <2>2. CASE ~up
      <3>1. Running(t) /\ op[t] = "run" /\ Now(script[t]) = Rx("up")
        BY <1>1, <1>3, <2>2 DEF Registers, At1
      <3>2. Clear("tx") /\ Clear("rx")  BY <3>1 DEF Running, At1
      <3>3. QED BY <1>1, <3>2, PlacesAre DEF Clear
    <2>3. QED BY <2>1, <2>2
  <1>4. ASSUME NEW v \in Channels, chan'[v].resetting
        PROVE  \E u \in Threads : At1(u, <<"poll", v>>)'
    <2>1. PICK u \in Threads : At1(u, <<"poll", v>>)  BY <1>1, <1>4 DEF Healthy
    <2>2. script[u] # <<>> /\ Now(script[u])[1] = "poll"  BY <2>1, IsAt DEF At1
    <2>3. u # t  BY <1>1, <2>2
    <2>4. At1(u, <<"poll", v>>)'  BY <1>1, <2>1, <2>3 DEF At1
    <2>5. QED BY <2>4
  <1>5. ~up' => chan'["rx"].job \in {None, Old}
    <2>1. CASE ~up  BY <1>1, <2>1 DEF Healthy
    <2>2. CASE up /\ ~up'
      <3>1. \A u \in Threads : op[u] = "none"  BY <1>1, <2>2
      <3>2. \A u \in Threads : ~Uses(u, "rx")  BY <3>1 DEF Uses, OnTx, OnRx, Sends
      <3>3. ~chan["rx"].resetting
        <4>1. \A u \in Threads : script[u] = <<>>  BY <3>1 DEF Control
        <4>2. QED BY <4>1, IsAt, PlacesAre DEF Healthy
      <3>4. chan["rx"].job # Old  BY <2>2, PlacesAre DEF Registers
      <3>5. Idle("rx") /\ Fine("rx")  BY AllFine, PlacesAre DEF Registers
      <3>6. Spent("rx")  BY <2>2, <3>2, <3>3, <3>5 DEF Idle, Quiet
      <3>7. QED BY <1>1, <3>6 DEF Spent
    <2>3. QED BY <2>1, <2>2
  <1>6. QED BY <1>1, <1>3, <1>4, <1>5 DEF Healthy

LEMMA EngineHealthy ==
  ASSUME Typed, Control, Registers, Healthy, Engine
  PROVE  Healthy'
  <1>1. /\ UNCHANGED <<case, isSg, up, op, call, script, seen, calls, owner>>
        /\ \A u \in Threads : \A x : At1(u, x)' <=> At1(u, x)
    BY EngineLeaves
  <1>2. Safe' <=> Safe  BY <1>1 DEF Safe, Punctual, Separate
  <1> SUFFICES ASSUME Safe  PROVE Healthy'
    BY <1>2 DEF Healthy
  <1>3. "error" \notin case.faults  BY DEF Safe, Punctual
  <1>4. ASSUME NEW v \in Channels
        PROVE  /\ up' => ~chan'[v].failed /\ "err" \notin chan'[v].irq
               /\ chan'[v].resetting => \E u \in Threads : At1(u, <<"poll", v>>)'
               /\ chan'[v].job = chan[v].job \/ chan'[v].job = None
    <2>1. EngineDoes(v)  BY EngineIs
    <2>2. /\ up => ~chan[v].failed /\ "err" \notin chan[v].irq
          /\ chan[v].resetting => \E u \in Threads : At1(u, <<"poll", v>>)
      BY DEF Healthy
    <2>3. /\ up => ~chan'[v].failed /\ "err" \notin chan'[v].irq
          /\ chan'[v].resetting => chan[v].resetting
          /\ chan'[v].job = chan[v].job \/ chan'[v].job = None
      BY <1>3, <2>1, <2>2 DEF EngineDoes, ResetState
    <2>4. QED BY <1>1, <2>2, <2>3
  <1>5. QED BY <1>1, <1>4, PlacesAre DEF Healthy

LEMMA HealthyStep ==
  ASSUME Typed, Control, Registers, NothingAbandoned, Healthy, [Next]_vars
  PROVE  Healthy'
  <1>1. CASE UNCHANGED vars
    <2>1. UNCHANGED <<case, isSg, up, op, script, seen, chan>>
      BY <1>1 DEF vars, threads, engine
    <2>2. QED BY <2>1 DEF Healthy, Safe, Punctual, Separate, At1
  <1>2. QED BY <1>1, NextIs, MoveHealthy, OutsideHealthy, EngineHealthy

LEMMA InitHealthy ==
  ASSUME Init
  PROVE  Healthy
  <1>1. up = FALSE /\ \A t \in Threads : seen[t] = {}  BY DEF Init
  <1>2. ASSUME NEW w \in Channels  PROVE ~chan[w].resetting
    <2>1. chan[w] \in Leftover  BY DEF Init
    <2>2. CASE chan[w] = ResetState  BY <2>2 DEF ResetState
    <2>3. CASE chan[w] = [ResetState EXCEPT !.failed = TRUE, !.irq = {"err"}]
      <3>1. chan[w].resetting = FALSE  BY <2>3 DEF ResetState
      <3>2. QED BY <3>1
    <2>4. CASE chan[w] \in [run : {TRUE}, halted : {FALSE}, failed : {FALSE}, resetting : {FALSE},
                            irq : {{}, {"ioc"}}, job : {None, Old}, dst : {"rx"}]
      <3>1. chan[w].resetting = FALSE  BY <2>4
      <3>2. QED BY <3>1
    <2>5. QED BY <2>1, <2>2, <2>3, <2>4 DEF Leftover
  <1>3. chan["rx"].job \in {None, Old}
    <2>1. chan["rx"] \in Leftover  BY PlacesAre DEF Init
    <2>2. QED BY <2>1, LeftoverJob
  <1>4. QED BY <1>1, <1>2, <1>3 DEF Healthy

-------------------------------------------------------------------------------
(* The course of a call that receives.                                      *)

LEMMA EdgeSmooth ==
  ASSUME NEW o \in OnRx \cup {"Transf"}, NEW x, NEW y, <<x, y>> \in Edges(o),
         NEW w \in Channels
  PROVE  /\ CheckedAt(o, y, w) => CheckedAt(o, x, w) \/ x = <<"check", w>>
         /\ WaitingAt(o, y, w) => WaitingAt(o, x, w) \/ x \in {<<"tail", w>>, <<"length", w>>}
         /\ WaitingAt(o, x, w) => x \notin {<<"tail", w>>, <<"length", w>>, <<"ack", w>>,
                                            <<"pending", w>>, Rx("process"), Rx("chain")}
         /\ CompleteAt(o, y) =>
              x = Rx("wait") \/ (CompleteAt(o, x) /\ x # Rx("process"))
         /\ CompleteAt(o, x) => x # Rx("chain")
         /\ InHandAt(o, x) => InHandAt(o, y) \/ x = Rx("copyout")
         /\ o = "Recv" /\ y = Rx("reset") => x = Rx("copyout")
         /\ o = "Transf" => y # Tx("lock")
  <1>0. w = "tx" \/ w = "rx"  BY DEF Channels
  <1>2. CASE o = "Transf"
    BY <1>0, <1>2 DEF CheckedAt, WaitingAt, CompleteAt, InHandAt, Edges, Owning, Sends, Tx, Rx
  <1>4. CASE o = "Recv"
    BY <1>0, <1>4 DEF CheckedAt, WaitingAt, CompleteAt, InHandAt, Edges, Owning, Sends, Tx, Rx
  <1>5. CASE o \in {"DirectRecv", "DirectManualRecv"}
    BY <1>0, <1>5 DEF CheckedAt, WaitingAt, CompleteAt, InHandAt, Edges, Owning, Sends, Tx, Rx
  <1>6. QED BY <1>2, <1>4, <1>5 DEF OnRx

LEMMA LastSmooth ==
  ASSUME NEW o \in OnRx \cup {"Transf"}, NEW x \in Lasts(o), InHandAt(o, x)
  PROVE  x = Rx("copyout") \/ (o = "Transf" /\ x = Rx("poll"))
  BY DEF Lasts, InHandAt, OnRx, Sends, Tx, Rx

(* A call that receives goes on from stage to stage until it has copied its *)
(* packet; before it starts its transfer it may fail.                       *)
LEMMA GoesOn ==
  ASSUME Typed, Control, Registers, Healthy, Course, Safe,
         NEW t \in Threads, NEW w \in Channels, Moving(t, w), Uses(t, "rx")
  PROVE  \E a \in Stages \ {"lock", "up"} :
           /\ At(t, a, w) /\ Now(script[t]) = <<a, w>> /\ op[t] \in OnRx \cup {"Transf"}
           /\ a # "alloc" => Uses(t, w)
           /\ \/ script'[t] = <<>> /\ (InHand(t) => <<a, w>> = Rx("copyout"))
              \/ /\ script'[t] # <<>> /\ Now(script'[t]) = Rx("copyout")
                 /\ a = "pending" /\ op[t] \in DirectOps
              \/ /\ script'[t] # <<>> /\ <<<<a, w>>, Now(script'[t])>> \in Edges(op[t])
                 /\ Last(script'[t]) = Last(script[t])
                 /\ Advance(t)
  <1> DEFINE o == op[t]
  <1>1. PICK a \in Stages \ {"lock", "up"} : At(t, a, w)  BY Moves
  <1>2. /\ Now(script[t]) = <<a, w>> /\ script[t] # <<>> /\ IsRest(o, script[t])
        /\ o \in Ops /\ Now(script[t])[1] = a
    BY <1>1, AtStage
  <1>3. o \in OnRx \cup {"Transf"}  BY DEF Uses, Mutex
  <1>4. up /\ (isSg <=> o \in SgOps)
    BY <1>2 DEF Control, Uses, OnTx, OnRx, Sends, Owning
  <1>5. a # "alloc" => Uses(t, w) /\ StageOf(o, <<a, w>>)  BY <1>1, <1>4, UpUses
  <1>6. "late" \notin case.faults /\ "slowreset" \notin case.faults /\ "error" \notin case.faults
    BY DEF Safe, Punctual
  <1>7. Smooth(t, w) /\ InOrder(t)  BY DEF Course
  <1>8. ASSUME Advance(t)
        PROVE  \/ script'[t] = <<>> /\ (InHand(t) => <<a, w>> = Rx("copyout"))
               \/ /\ script'[t] # <<>> /\ <<<<a, w>>, Now(script'[t])>> \in Edges(o)
                  /\ Last(script'[t]) = Last(script[t])
    <2>1. \/ script'[t] = <<>> /\ <<a, w>> \in Lasts(o)
          \/ /\ script'[t] # <<>> /\ <<<<a, w>>, Now(script'[t])>> \in Edges(o)
             /\ Last(script'[t]) = Last(script[t])
      BY <1>1, <1>8, Advanced
    <2>2. ASSUME script'[t] = <<>>, <<a, w>> \in Lasts(o), InHand(t), <<a, w>> # Rx("copyout")
          PROVE  FALSE
      <3>1. o = "Transf" /\ <<a, w>> = Rx("poll")
        BY <1>2, <1>3, <2>2, LastSmooth DEF InHand
      <3>2. Tail(script[t]) = <<>>  BY <1>8, <2>2 DEF Advance, Typed, TypeOK
      <3>3. script[t][1] = <<a, w>>  BY <1>2 DEF Now
      <3>4. Last(script[t]) = <<a, w>>  BY <1>2, <3>2, <3>3, StepOn
      <3>5. Last(script[t]) = Rx("copyout")  BY <1>7, <3>1 DEF InOrder
      <3>6. QED BY <3>1, <3>4, <3>5 DEF Rx
    <2>3. QED BY <2>1, <2>2
  <1>9. ASSUME a \in {"chain", "alloc", "check"}  PROVE ~InHand(t)
    BY <1>2, <1>9 DEF InHand, InHandAt, Tx, Rx
  <1>10. ASSUME Fail(t, "chain") \/ Fail(t, "alloc") \/ Fail(t, "check")  PROVE script'[t] = <<>>
    BY <1>10, Failed
  <1>11. CASE a \in {"chain", "alloc", "fill", "start", "check", "tail", "length", "sent", "reset",
                     "copyout"}
    <2>1. \/ Advance(t)
          \/ /\ a \in {"chain", "alloc", "check"}
             /\ Fail(t, "chain") \/ Fail(t, "alloc") \/ Fail(t, "check")
      BY <1>1, <1>11, Which DEF InitDescriptors, AllocBufferMem, FillBuffer, Start, CheckHalt,
         SetTailDesc, SetLength, ReturnTxLength, Reset, CopyOut
    <2>2. QED BY <1>1, <1>2, <1>3, <1>5, <1>8, <1>9, <1>10, <2>1
  <1>12. CASE a = "wait"
    <2>1. WaitComplete(t, w)  BY <1>1, <1>12, Which
    <2>2. Uses(t, w) /\ Waiting(t, w)  BY <1>2, <1>5, <1>12 DEF Waiting, WaitingAt
    <2>3. chan[w].job # None \/ chan[w].irq = {"ioc"}  BY <1>7, <2>2 DEF Smooth
    <2>4. Advance(t)  BY <1>6, <2>1, <2>3 DEF WaitComplete
    <2>5. QED BY <1>1, <1>2, <1>3, <1>5, <1>8, <2>4
  <1>13. CASE a = "idle"
    <2>1. WaitDirectComplete(t, w)  BY <1>1, <1>13, Which
    <2>2. o \in OnRx \cup {"Transf"} /\ StageOf(o, <<"idle", w>>)  BY <1>3, <1>5, <1>13
    <2>3. w = "rx"
      <3>1. o \in OnTx \cup OnRx  BY <1>3 DEF OnTx
      <3>2. o \in DirectOps /\ (Mutex(o) = w \/ o = "Transf")  BY <2>2, <3>1, StageIs
      <3>3. QED BY <1>3, <3>2 DEF Mutex, OnTx, OnRx, Sends, DirectOps
    <2>4. Advance(t)  BY <2>1, <2>3 DEF WaitDirectComplete
    <2>5. QED BY <1>1, <1>2, <1>3, <1>5, <1>8, <2>4
  <1>14. CASE a = "ack"
    <2>1. AckIRQ(t, w)  BY <1>1, <1>14, Which
    <2>2. "err" \notin seen[t]  BY DEF Healthy
    <2>3. Advance(t)  BY <2>1, <2>2 DEF AckIRQ
    <2>4. QED BY <1>1, <1>2, <1>3, <1>5, <1>8, <2>3
  <1>15. CASE a = "process"
    <2>1. ProcessDescriptors(t, w)  BY <1>1, <1>15, Which
    <2>2. w = "rx" => chain[w].done
      <3>1. HAVE w = "rx"
      <3>2. CompleteAt(o, <<a, w>>)  BY <1>15, <3>1 DEF CompleteAt, Rx
      <3>3. Completed("rx")  BY <1>2, <1>7, <3>2 DEF InOrder
      <3>4. isSg
        <4>1. o \in SgOps  BY <1>3, <1>5, <1>15, StageIs DEF OnTx
        <4>2. QED BY <1>4, <4>1
      <3>5. QED BY <3>1, <3>3, <3>4 DEF Completed
    <2>3. Advance(t)  BY <2>1, <2>2 DEF ProcessDescriptors
    <2>4. QED BY <1>1, <1>2, <1>3, <1>5, <1>8, <2>3
  <1>16. CASE a = "poll"
    <2>1. PollReset(t, w)  BY <1>1, <1>16, Which
    <2>2. Advance(t)  BY <1>6, <2>1 DEF PollReset
    <2>3. QED BY <1>1, <1>2, <1>3, <1>5, <1>8, <2>2
  <1>17. CASE a = "pending"
    <2>1. Pending(t, w)  BY <1>1, <1>17, Which
    <2>2. o \in OnTx \cup OnRx /\ StageOf(o, <<"pending", w>>)  BY <1>3, <1>5, <1>17 DEF OnTx
    <2>3. o \in DirectOps /\ (Mutex(o) = w \/ o = "Transf")  BY <2>2, StageIs
    <2>4. w = "rx"  BY <1>3, <2>3 DEF Mutex, OnTx, OnRx, Sends, DirectOps
    <2>5. CASE chan[w].irq = {"ioc"}
      <3>1. script' = [script EXCEPT ![t] = << <<"copyout", w>> >>]  BY <2>1, <2>5 DEF Pending
      <3>2. script'[t] = << <<"copyout", w>> >>  BY <3>1 DEF Typed, TypeOK
      <3>3. script'[t] # <<>> /\ Now(script'[t]) = Rx("copyout")  BY <2>4, <3>2 DEF Now, Rx
      <3>4. QED BY <1>1, <1>2, <1>3, <1>5, <1>17, <2>3, <3>3
    <2>6. CASE chan[w].irq # {"ioc"}
      <3>1. Advance(t)  BY <2>1, <2>6 DEF Pending
      <3>2. QED BY <1>1, <1>2, <1>3, <1>5, <1>8, <3>1
    <2>7. QED BY <2>5, <2>6
  <1>18. QED BY <1>11, <1>12, <1>13, <1>14, <1>15, <1>16, <1>17 DEF Stages

LEMMA MoveSmooth ==
  ASSUME Typed, Control, Registers, NothingAbandoned, Healthy, Course, Safe,
         NEW t \in Threads, NEW w \in Channels, Moving(t, w),
         NEW u \in Threads, NEW v \in Channels
  PROVE  Smooth(u, v)'
  <1>1. /\ UNCHANGED <<case, isSg, up, op, call, calls, owner>>
        /\ (Uses(u, "rx")' => Uses(u, "rx")) /\ (Uses(u, v)' => Uses(u, v))
        /\ u # t => script'[u] = script[u]
    BY Others, PlacesAre
  <1> SUFFICES ASSUME Uses(u, "rx")', Uses(u, v)'  PROVE Smooth(u, v)'
    BY DEF Smooth
  <1>2. Uses(u, "rx") /\ Uses(u, v) /\ Smooth(u, v) /\ Separate  BY <1>1 DEF Course, Safe
  <1>3. chan'[v].halted = chan[v].halted  BY WrittenIs
  <1>4. CASE u # t
    <2>1. PICK a \in Stages \ {"lock", "up"} : At(t, a, w)  BY Moves
    <2>2. \A b : At(t, b, w) <=> b = a  BY <2>1 DEF At
    <2>3. up  BY <1>2 DEF Control, Uses, OnTx, OnRx, Sends, Owning
    <2>4. a # "alloc" => v # w  BY <1>2, <1>4, <2>1, <2>3, UpUses, Unique
    <2>5. chan'[v].job = chan[v].job /\ chan'[v].irq = chan[v].irq  BY <2>2, <2>4, WrittenIs
    <2>6. chain'["rx"] = chain["rx"]  BY <1>2, <1>4, MoveOfOther
    <2>7. Waiting(u, v)' <=> Waiting(u, v)  BY <1>1, <1>4 DEF Waiting
    <2>8. Completed(v)' <=> Completed(v)  BY <1>1, <2>6 DEF Completed
    <2>9. QED BY <1>1, <1>2, <1>3, <1>4, <2>5, <2>7, <2>8 DEF Smooth
  <1>5. CASE u = t
    <2>1. PICK a \in Stages \ {"lock", "up"} :
            /\ At(t, a, w) /\ Now(script[t]) = <<a, w>> /\ op[t] \in OnRx \cup {"Transf"}
            /\ \/ script'[t] = <<>>
               \/ Now(script'[t]) = Rx("copyout")
               \/ <<<<a, w>>, Now(script'[t])>> \in Edges(op[t]) /\ Advance(t)
      BY <1>2, <1>5, GoesOn
    <2>2. \A b : At(t, b, w) <=> b = a  BY <2>1 DEF At
    <2>3. script'[t] # <<>>  BY <1>5 DEF Uses
    <2> DEFINE o == op[t]
               x == <<a, w>>
               y == Now(script'[t])
    <2>4. Waiting(t, v)' = WaitingAt(o, y, v) /\ Waiting(t, v) = WaitingAt(o, x, v)
      BY <1>1, <2>1 DEF Waiting
    <2>5. CASE y = Rx("copyout")
      <3>1. ~WaitingAt(o, y, v) /\ ~CheckedAt(o, y, v)
        BY <2>5 DEF WaitingAt, CheckedAt, Tx, Rx
      <3>2. QED BY <1>1, <1>5, <2>4, <3>1 DEF Smooth
    <2>6. CASE <<x, y>> \in Edges(o) /\ Advance(t)
      <3>1. \A c : x = <<c, v>> <=> a = c /\ w = v  OBVIOUS
      <3>2. \A c : x = Rx(c) <=> a = c /\ w = "rx"  BY DEF Rx
      <3>3. o \in OnRx \cup {"Transf"}  BY <2>1
      <3> HIDE DEF o, x, y
      <3>4. /\ CheckedAt(o, y, v) => CheckedAt(o, x, v) \/ x = <<"check", v>>
            /\ WaitingAt(o, y, v) => WaitingAt(o, x, v) \/ x \in {<<"tail", v>>, <<"length", v>>}
            /\ WaitingAt(o, x, v) => x \notin {<<"tail", v>>, <<"length", v>>, <<"ack", v>>,
                                               <<"pending", v>>, Rx("process"), Rx("chain")}
        BY <2>6, <3>3, EdgeSmooth
      <3>5. CheckedAt(o, y, v) => ~chan'[v].halted
        <4>1. CASE CheckedAt(o, x, v)
          BY <1>2, <1>3, <1>5, <2>1, <4>1 DEF Smooth, o, x
        <4>2. CASE x = <<"check", v>>
          <5>1. v = w /\ a = "check"  BY <3>1, <4>2
          <5>2. CheckHalt(t, v)  BY <2>1, <5>1, Which
          <5>3. ~Fail(t, "check")
            <6>1. Fail(t, "check") => script'[t] = <<>>  BY Failed
            <6>2. QED BY <2>3, <6>1
          <5>4. QED BY <1>3, <5>2, <5>3 DEF CheckHalt
        <4>3. QED BY <3>4, <4>1, <4>2
      <3>6. WaitingAt(o, y, v) => chan'[v].job # None \/ (chan'[v].irq = {"ioc"} /\ Completed(v)')
        <4>1. CASE WaitingAt(o, x, v)
          <5>1. /\ ~(v = w /\ a \in {"tail", "length", "ack", "pending"})
                /\ ~(w = "rx" /\ a \in {"process", "chain"})
            BY <3>1, <3>2, <3>4, <4>1
          <5>2. chan'[v].job = chan[v].job /\ chan'[v].irq = chan[v].irq
            BY <2>2, <5>1, WrittenIs
          <5>3. chain'["rx"] = chain["rx"]
            <6>1. chain'["rx"] # chain["rx"] =>
                    "rx" = w /\ (At(t, "chain", w) \/ At(t, "process", w))
              BY MoveData, PlacesAre
            <6>2. QED BY <2>2, <5>1, <6>1
          <5>4. chan[v].job # None \/ (chan[v].irq = {"ioc"} /\ Completed(v))
            BY <1>2, <1>5, <2>4, <4>1 DEF Smooth, o, x
          <5>5. Completed(v)' <=> Completed(v)  BY <1>1, <5>3 DEF Completed
          <5>6. QED BY <5>2, <5>4, <5>5
        <4>2. CASE x \in {<<"tail", v>>, <<"length", v>>}
          <5>1. v = w /\ a \in {"tail", "length"}  BY <3>1, <4>2
          <5>2. ~chan[v].halted
            <6>1. CheckedAt(o, x, v)  BY <4>2 DEF CheckedAt
            <6>2. QED BY <1>2, <1>5, <2>1, <6>1 DEF Smooth, o, x
          <5>3. ~chan[v].resetting
            <6>1. ~At1(t, <<"poll", v>>)  BY <2>1, <5>1 DEF At1
            <6>2. QED BY <1>2, <1>5, <6>1, NotResetting
          <5>4. chan'[v].job = call[t]  BY <2>1, <5>1, <5>2, <5>3, WrittenIs
          <5>5. call[t] \in 1..calls  BY <2>1, <5>1, InCall
          <5>6. call[t] # None  BY <5>5 DEF None
          <5>7. QED BY <5>4, <5>6
        <4>3. QED BY <3>4, <4>1, <4>2
      <3>7. op'[t] = o /\ Now(script[t])' = y /\ (Waiting(t, v)' <=> WaitingAt(o, y, v))
        BY <1>1, <2>4 DEF o, y
      <3>8. QED BY <1>5, <3>5, <3>6, <3>7 DEF Smooth
    <2>7. QED BY <2>1, <2>3, <2>5, <2>6
  <1>6. QED BY <1>4, <1>5

LEMMA MoveInOrder ==
  ASSUME Typed, Control, Registers, NothingAbandoned, Healthy, Course, Safe,
         NEW t \in Threads, NEW w \in Channels, Moving(t, w), NEW u \in Threads
  PROVE  InOrder(u)'
  <1>1. /\ UNCHANGED <<case, isSg, up, op, call, calls, owner>>
        /\ Uses(u, "rx")' => Uses(u, "rx")
        /\ u # t => script'[u] = script[u]
    BY Others, PlacesAre
  <1>2. InOrder(u) /\ Separate  BY DEF Course, Safe
  <1>3. PICK a \in Stages \ {"lock", "up"} :
          /\ At(t, a, w) /\ Now(script[t]) = <<a, w>> /\ script[t] # <<>>
          /\ \/ script'[t] = <<>>
             \/ Now(script'[t]) = Tx("reset")
             \/ Now(script'[t]) = Rx("copyout")
             \/ <<<<a, w>>, Now(script'[t])>> \in Edges(op[t])
    BY Onward
  <1>4. \A b : At(t, b, w) <=> b = a  BY <1>3 DEF At
  <1>5. CASE u # t
    <2>1. \A x : At1(u, x)' <=> At1(u, x)  BY <1>1, <1>5 DEF At1
    <2>2. ASSUME Uses(u, "rx")
          PROVE  chain'["rx"] = chain["rx"] /\ chan'["rx"].job = chan["rx"].job
      BY <1>2, <1>5, <2>2, MoveOfOther
    <2>3. Uses(u, "rx") => (Completed("rx")' <=> Completed("rx"))
      BY <1>1, <2>2 DEF Completed
    <2>4. QED BY <1>1, <1>2, <1>5, <2>1, <2>2, <2>3 DEF InOrder
  <1>6. CASE u = t /\ ~Uses(t, "rx")'
    <2>1. ASSUME op[t] = "Transf", Now(script'[t]) = Tx("lock")  PROVE FALSE
      <3>1. script'[t] # <<>> /\ Now(script'[t]) # Rx("copyout") /\ Now(script'[t]) # Tx("reset")
        BY <2>1, NothingLeft DEF Done, Tx, Rx
      <3>2. <<<<a, w>>, Now(script'[t])>> \in Edges(op[t])  BY <1>3, <3>1
      <3>3. QED BY <2>1, <3>2, PlacesAre, EdgeSmooth
    <2>2. ~(op'[t] = "Transf" /\ At1(t, Tx("lock"))')  BY <1>1, <2>1 DEF At1
    <2>3. QED BY <1>6, <2>2 DEF InOrder
  <1>7. CASE u = t /\ Uses(t, "rx")'
    <2> DEFINE o == op[t]
               x == <<a, w>>
               y == Now(script'[t])
    <2>1. Uses(t, "rx") /\ script'[t] # <<>>  BY <1>1, <1>7 DEF Uses
    <2>2. /\ o \in OnRx \cup {"Transf"} /\ (a # "alloc" => Uses(t, w))
          /\ \/ y = Rx("copyout") /\ a = "pending" /\ o \in DirectOps
             \/ /\ <<x, y>> \in Edges(o) /\ Last(script'[t]) = Last(script[t])
                /\ Advance(t)
      <3>1. PICK b \in Stages \ {"lock", "up"} :
           /\ At(t, b, w) /\ op[t] \in OnRx \cup {"Transf"}
           /\ b # "alloc" => Uses(t, w)
           /\ \/ script'[t] = <<>>
              \/ Now(script'[t]) = Rx("copyout") /\ b = "pending" /\ op[t] \in DirectOps
              \/ /\ <<<<b, w>>, Now(script'[t])>> \in Edges(op[t])
                 /\ Last(script'[t]) = Last(script[t])
                 /\ Advance(t)
        BY <2>1, GoesOn
      <3>2. b = a  BY <1>4, <3>1
      <3>3. QED BY <2>1, <3>1, <3>2
    <2>3. /\ op'[t] = o /\ Now(script[t])' = y /\ \A z : At1(t, z)' <=> y = z
          /\ \A z : At1(t, z) <=> x = z
      BY <1>1, <1>3 DEF At1
    <2>4. CASE y = Rx("copyout") /\ a = "pending" /\ o \in DirectOps
      <3>1. ~CompleteAt(o, y) /\ y # Rx("reset") /\ o # "Transf"
        BY <2>4 DEF CompleteAt, DirectOps, Tx, Rx
      <3>2. QED BY <1>7, <2>3, <3>1 DEF InOrder
    <2>5. CASE <<x, y>> \in Edges(o) /\ Last(script'[t]) = Last(script[t]) /\ Advance(t)
      <3>1. \A c : x = Rx(c) <=> a = c /\ w = "rx"  BY DEF Rx
      <3>2. o = "Transf" => Last(script'[t]) = Rx("copyout")
        BY <1>2, <1>7, <2>1, <2>5 DEF InOrder
      <3> HIDE DEF o, x, y
      <3>4. /\ CompleteAt(o, y) => x = Rx("wait") \/ (CompleteAt(o, x) /\ x # Rx("process"))
            /\ CompleteAt(o, x) => x # Rx("chain")
            /\ o = "Recv" /\ y = Rx("reset") => x = Rx("copyout")
        BY <2>2, <2>5, PlacesAre, EdgeSmooth
      <3>5. ~(w = "rx" /\ a \in {"process", "chain"}) => chain'["rx"] = chain["rx"]
        <4>1. chain'["rx"] # chain["rx"] =>
                    "rx" = w /\ (At(t, "chain", w) \/ At(t, "process", w))
          BY MoveData, PlacesAre
        <4>2. QED BY <1>4, <4>1
      <3>6. CompleteAt(o, y) => Completed("rx")'
        <4>1. CASE x = Rx("wait")
          <5>1. a = "wait" /\ w = "rx"  BY <3>1, <4>1
          <5>2. WaitComplete(t, w) /\ ~At1(t, <<"poll", "rx">>)
            BY <1>3, <5>1, Which DEF At1
          <5>3. Waiting(t, "rx")  BY <1>3, <5>1 DEF Waiting, WaitingAt
          <5>4. chan["rx"].job # None \/ Completed("rx")
            BY <2>1, <5>3, PlacesAre DEF Course, Smooth
          <5>5. ~chan["rx"].resetting  BY <2>1, <5>2, PlacesAre, NotResetting
          <5>6. chan["rx"].job = None \/ chan["rx"].irq = {}
            BY <2>1, <5>3, <5>5, PlacesAre, AllFine DEF Registers, Flight
          <5>7. ASSUME CompleteAt(o, y)  PROVE chan["rx"].irq # {}
            <6>1. y # Tx("reset")  BY <5>7 DEF CompleteAt, Tx, Rx
            <6>2. At(t, "wait", w)  BY <1>4, <5>1
            <6>3. QED BY <2>1, <5>1, <6>1, <6>2, MoveData DEF y
          <5>8. chain'["rx"] = chain["rx"]  BY <3>5, <5>1
          <5>9. QED BY <1>1, <5>4, <5>6, <5>7, <5>8 DEF Completed
        <4>2. CASE CompleteAt(o, x) /\ x # Rx("process")
          <5>1. Completed("rx")  BY <1>2, <1>3, <1>7, <2>1, <4>2 DEF InOrder, o, x
          <5>2. chain'["rx"] = chain["rx"]  BY <3>1, <3>4, <3>5, <4>2
          <5>3. QED BY <1>1, <5>1, <5>2 DEF Completed
        <4>3. QED BY <3>4, <4>1, <4>2
      <3>7. o = "Recv" /\ y = Rx("reset") => chan'["rx"].job = None
        <4>1. HAVE o = "Recv" /\ y = Rx("reset")
        <4>2. a = "copyout" /\ w = "rx"  BY <3>1, <3>4, <4>1
        <4>3. ~Flying(t, "rx")
          <5>1. ~FlyingAt(o, <<"copyout", "rx">>, "rx")  BY DEF FlyingAt, WaitingAt, Tx
          <5>2. QED BY <1>3, <4>2, <5>1 DEF Flying, o
        <4>4. Quiet("rx")  BY <2>1, <4>3, PlacesAre, AllFine, FindsQuiet
        <4>5. ~chan["rx"].resetting
          <5>1. ~At1(t, <<"poll", "rx">>)  BY <1>3, <4>2 DEF At1
          <5>2. QED BY <2>1, <5>1, PlacesAre, NotResetting
        <4>6. chan["rx"].job = None  BY <4>4, <4>5 DEF Quiet, Spent
        <4>7. chan'["rx"].job = chan["rx"].job  BY <1>4, <4>2, PlacesAre, WrittenIs
        <4>8. QED BY <4>6, <4>7
      <3>8. QED BY <1>7, <2>3, <3>2, <3>6, <3>7 DEF InOrder
    <2>6. QED BY <2>2, <2>4, <2>5
  <1>8. QED BY <1>5, <1>6, <1>7

LEMMA OutsideCourse ==
  ASSUME Typed, Control, Course, NEW t \in Threads, Outside(t)
  PROVE  Course'
  <1>1. /\ UNCHANGED <<case, isSg, seen, chan, chain, wire, arrived, reported, got, abandoned>>
        /\ \A u \in Threads : u # t =>
             /\ op'[u] = op[u] /\ script'[u] = script[u] /\ call'[u] = call[u]
             /\ \A v \in Channels : Uses(u, v)' <=> Uses(u, v)
        /\ \A v \in Channels : Uses(t, v)' =>
             /\ op'[t] = op[t]
             /\ Now(script'[t])[1] \in {"chain", "alloc", "pending"}
             /\ Now(script[t]) = <<"lock", Mutex(op[t])>>
             /\ Last(script'[t]) = Last(script[t])
        /\ op'[t] = "Transf" /\ At1(t, Tx("lock"))' => Last(script'[t]) = Rx("copyout")
    BY OutsideIs
  <1>2. Safe' <=> Safe  BY <1>1 DEF Safe, Punctual, Separate
  <1> SUFFICES ASSUME Safe, NEW u \in Threads
      PROVE  InOrder(u)' /\ \A v \in Channels : Smooth(u, v)'
    BY <1>2 DEF Course
  <1>3. InOrder(u) /\ \A v \in Channels : Smooth(u, v)  BY DEF Course
  <1>4. Completed("rx")' <=> Completed("rx")  BY <1>1 DEF Completed
  <1>5. \A v \in Channels : Completed(v)' <=> Completed(v)  BY <1>1 DEF Completed
  <1>6. CASE u # t
    <2>1. \A x : At1(u, x)' <=> At1(u, x)  BY <1>1, <1>6 DEF At1
    <2>2. \A v \in Channels : Waiting(u, v)' <=> Waiting(u, v)  BY <1>1, <1>6 DEF Waiting
    <2>3. /\ op'[u] = op[u] /\ script'[u] = script[u]
          /\ \A v \in Channels : Uses(u, v)' <=> Uses(u, v)
      BY <1>1, <1>6
    <2>4. InOrder(u)'  BY <1>1, <1>3, <1>4, <2>1, <2>3, PlacesAre DEF InOrder
    <2>5. \A v \in Channels : Smooth(u, v)'
      BY <1>1, <1>3, <1>5, <2>2, <2>3, PlacesAre DEF Smooth
    <2>6. QED BY <2>4, <2>5
  <1>7. CASE u = t
    <2> DEFINE y == Now(script'[t])
    <2>1. ASSUME NEW v \in Channels, Uses(t, v)'
          PROVE  /\ ~WaitingAt(op[t], y, v) /\ ~CheckedAt(op[t], y, v) /\ ~CompleteAt(op[t], y)
                 /\ y # Rx("reset")
      <3>1. y[1] \in {"chain", "alloc", "pending"}  BY <1>1, <2>1
      <3> HIDE DEF y
      <3>2. QED BY <3>1 DEF WaitingAt, CheckedAt, CompleteAt, Tx, Rx
    <2>2. \A v \in Channels : Smooth(t, v)'
      BY <1>1, <2>1 DEF Smooth, Waiting
    <2>3. op'[t] = "Transf" /\ Uses(t, "rx")' => Last(script'[t]) = Rx("copyout")
      <3>1. HAVE op'[t] = "Transf" /\ Uses(t, "rx")'
      <3>2. /\ op[t] = "Transf" /\ Now(script[t]) = <<"lock", Mutex(op[t])>>
            /\ Last(script'[t]) = Last(script[t])
        BY <1>1, <3>1, PlacesAre
      <3>3. At1(t, Tx("lock"))  BY <3>2 DEF At1, Mutex, OnTx, Tx
      <3>4. QED BY <1>3, <1>7, <3>2, <3>3 DEF InOrder
    <2>4. InOrder(t)'  BY <1>1, <2>1, <2>3, PlacesAre DEF InOrder, At1
    <2>5. QED BY <1>7, <2>2, <2>4
  <1>8. QED BY <1>6, <1>7

LEMMA EngineCourse ==
  ASSUME Typed, Control, Registers, NothingAbandoned, Healthy, Course, Engine
  PROVE  Course'
  <1>1. /\ UNCHANGED <<case, isSg, up, op, call, script, seen, calls, owner>>
        /\ \A u \in Threads : /\ \A x : At1(u, x)' <=> At1(u, x)
                              /\ \A v \in Channels : /\ Uses(u, v)' <=> Uses(u, v)
                                                     /\ Waiting(u, v)' <=> Waiting(u, v)
    BY EngineLeaves
  <1>2. Safe' <=> Safe  BY <1>1 DEF Safe, Punctual, Separate
  <1> SUFFICES ASSUME Safe, NEW u \in Threads
      PROVE  InOrder(u)' /\ \A v \in Channels : Smooth(u, v)'
    BY <1>2 DEF Course
  <1>3. InOrder(u) /\ \A v \in Channels : Smooth(u, v)  BY DEF Course
  <1>4. "error" \notin case.faults  BY DEF Safe, Punctual
  <1>5. \/ chain'["rx"] = chain["rx"]
        \/ Busy("rx") /\ chain'["rx"] = [chain["rx"] EXCEPT !.done = TRUE]
    BY EngineIs, PlacesAre
  <1>6. chain["rx"] \in ChainType(calls)  BY TypedIs, PlacesAre DEF SharedType
  <1>7. chain["rx"].done => chain'["rx"].done
    <2>1. CASE chain'["rx"] = [chain["rx"] EXCEPT !.done = TRUE]
      <3>1. chain'["rx"].done = TRUE  BY <1>6, <2>1 DEF ChainType
      <3>2. QED BY <3>1
    <2>2. QED BY <1>5, <2>1
  <1>8. InOrder(u)'
    <2>1. EngineDoes("rx")  BY EngineIs, PlacesAre
    <2>2. chan["rx"].job = None => chan'["rx"].job = None
      BY <2>1 DEF EngineDoes, ResetState
    <2>3. Completed("rx") => Completed("rx")'  BY <1>1, <1>7 DEF Completed
    <2>4. QED BY <1>1, <1>3, <2>2, <2>3, PlacesAre DEF InOrder
  <1>9. ASSUME NEW v \in Channels, Uses(u, "rx"), Uses(u, v)
        PROVE  /\ CheckedAt(op[u], Now(script[u]), v) => ~chan'[v].halted
               /\ Waiting(u, v) => chan'[v].job # None
                                   \/ (chan'[v].irq = {"ioc"} /\ Completed(v)')
    <2>1. EngineDoes(v)  BY EngineIs
    <2>2. /\ CheckedAt(op[u], Now(script[u]), v) => ~chan[v].halted
          /\ Waiting(u, v) => chan[v].job # None \/ (chan[v].irq = {"ioc"} /\ Completed(v))
      BY <1>3, <1>9 DEF Smooth
    <2>3. CheckedAt(op[u], Now(script[u]), v) \/ Waiting(u, v) => ~chan[v].resetting
      <3>1. ASSUME At1(u, <<"poll", v>>)
            PROVE  ~CheckedAt(op[u], Now(script[u]), v) /\ ~Waiting(u, v)
        BY <3>1 DEF At1, CheckedAt, Waiting, WaitingAt, Tx, Rx
      <3>2. QED BY <1>9, <3>1, NotResetting
    <2>4. CheckedAt(op[u], Now(script[u]), v) => ~chan'[v].halted
      BY <1>4, <2>1, <2>2, <2>3 DEF EngineDoes
    <2>5. ASSUME Waiting(u, v)
          PROVE  chan'[v].job # None \/ (chan'[v].irq = {"ioc"} /\ Completed(v)')
      <3>1. /\ ~chan[v].resetting
            /\ chan[v].job # None \/ (chan[v].irq = {"ioc"} /\ Completed(v))
        BY <2>2, <2>3, <2>5
      <3>2. chan[v].job = None \/ chan[v].irq = {}
        <4>1. Flight(u, v) /\ Fine(v)  BY AllFine, PlacesAre DEF Registers
        <4>2. QED BY <1>9, <2>5, <3>1, <4>1 DEF Flight
      <3>3. Completed(v) => Completed(v)'  BY <1>1, <1>7 DEF Completed
      <3>4. CASE chan[v].job = None
        <4>1. ~Busy(v)  BY <3>4 DEF Busy
        <4>2. chan'[v].irq = chan[v].irq  BY <2>1, <3>1, <4>1 DEF EngineDoes
        <4>3. QED BY <3>1, <3>3, <3>4, <4>2
      <3>5. CASE chan[v].job # None /\ chan'[v].job = None
        <4>1. Busy(v) /\ chan'[v].irq = chan[v].irq \cup {"ioc"}
          BY <1>4, <2>1, <3>1, <3>5 DEF EngineDoes
        <4>2. chan'[v].irq = {"ioc"}  BY <3>2, <3>5, <4>1
        <4>3. v = "rx" => chain'["rx"].done
          <5>1. HAVE v = "rx"
          <5>2. chain'["rx"] = [chain["rx"] EXCEPT !.done = TRUE]
            <6>1. chan'["rx"].irq # chan["rx"].irq  BY <3>2, <3>5, <4>2, <5>1
            <6>2. chan'["rx"].irq # chan["rx"].irq /\ "ioc" \in chan'["rx"].irq
                    /\ ~("ioc" \in chan["rx"].irq)
              BY <3>2, <3>5, <4>2, <5>1
            <6>3. QED BY <6>2, EngineData, PlacesAre
          <5>3. chain'["rx"].done = TRUE  BY <1>6, <5>2 DEF ChainType
          <5>4. QED BY <5>3
        <4>4. QED BY <4>2, <4>3 DEF Completed
      <3>6. QED BY <3>4, <3>5
    <2>6. QED BY <2>4, <2>5
  <1>10. \A v \in Channels : Smooth(u, v)'
    BY <1>1, <1>9, PlacesAre DEF Smooth
  <1>11. QED BY <1>8, <1>10

LEMMA CourseStep ==
  ASSUME Typed, Control, Registers, NothingAbandoned, Healthy, Course, [Next]_vars
  PROVE  Course'
  <1>1. CASE UNCHANGED vars
    <2>1. UNCHANGED <<case, isSg, up, op, script, owner, chan, chain>>
      BY <1>1 DEF vars, threads, engine
    <2>2. QED BY <2>1 DEF Course, InOrder, Smooth, Completed, Safe, Punctual, Separate, At1,
                 Uses, Holds, Waiting
  <1>2. ASSUME NEW t \in Threads, NEW w \in Channels, Moving(t, w)  PROVE Course'
    <2>1. UNCHANGED <<case, isSg>>  BY <1>2, Others
    <2>2. Safe' <=> Safe  BY <2>1 DEF Safe, Punctual, Separate
    <2>3. QED BY <1>2, <2>2, MoveSmooth, MoveInOrder DEF Course
  <1>3. QED BY <1>1, <1>2, NextIs, OutsideCourse, EngineCourse

LEMMA InitCourse ==
  ASSUME Init
  PROVE  Course
  <1>1. \A t \in Threads : op[t] = "none"  BY DEF Init
  <1>2. "none" \notin OnTx \cup OnRx /\ "none" # "Transf"  BY DEF OnTx, OnRx, Sends
  <1>3. QED BY <1>1, <1>2 DEF Course, InOrder, Smooth, Uses

-------------------------------------------------------------------------------
(* Packets.                                                                 *)

(* A thread that works on s2mm and has no packet in its hands finds nothing *)
(* there that would be lost.                                                *)
LEMMA FindsSpare ==
  ASSUME Typed, Control, Keeping, Safe, NEW t \in Threads, Uses(t, "rx"), ~InHand(t),
         NEW l \in Places \ {"tx"}
  PROVE  Spare(l)
  <1>1. ASSUME NEW u \in Threads, HeldFor(u, l)  PROVE FALSE
    <2>1. Separate /\ Uses(u, "rx")  BY <1>1 DEF HeldFor, Safe
    <2>2. u = t  BY <2>1, Unique, PlacesAre
    <2>3. QED BY <1>1, <2>2 DEF HeldFor
  <1>2. QED BY <1>1 DEF Keeping

LEMMA MoveKeeping ==
  ASSUME Typed, Control, Registers, NothingAbandoned, Healthy, Course, Keeping,
         NEW t \in Threads, NEW w \in Channels, Moving(t, w)
  PROVE  Keeping'
  <1>1. /\ UNCHANGED <<case, isSg, up, op, call, calls, owner>>
        /\ \A u \in Threads : u # t => /\ script'[u] = script[u]
                                       /\ Uses(u, "rx")' <=> Uses(u, "rx")
        /\ Uses(t, "rx") /\ script'[t] # <<>> => Uses(t, "rx")'
    BY Others, PlacesAre
  <1>2. Safe' <=> Safe  BY <1>1 DEF Safe, Punctual, Separate
  <1> SUFFICES ASSUME Safe  PROVE Keeping'
    BY <1>2 DEF Keeping
  <1>3. PICK a \in Stages \ {"lock", "up"} : At(t, a, w)  BY Moves
  <1>4. \A b : At(t, b, w) <=> b = a  BY <1>3 DEF At
  <1>5. Now(script[t]) = <<a, w>>  BY <1>3, AtStage
  <1>6. /\ arrived' = arrived
        /\ \A p \in Places : mem'[p] # mem[p] => p = w /\ a = "fill"
        /\ a = "fill" => mem'[w] = IF w = "tx" THEN call[t] ELSE None
        /\ a = "copyout" =>
             got' = got \cup {[call |-> call[t], packet |-> mem[Target(t)]]}
        /\ a # "copyout" => got' = got
    BY <1>4, MoveData
  <1>7. \A p : IsGot(p) => IsGot(p)'  BY <1>6 DEF IsGot
  <1>8. \A l \in Places \ {"tx"} : mem'[l] = mem[l] \/ (mem'[l] = None /\ l = "rx")
    BY <1>6, PlacesAre
  <1>9. \A l \in Places \ {"tx"} : Spare(l) => Spare(l)'
    <2>1. TAKE l \in Places \ {"tx"}
    <2>2. CASE mem'[l] = mem[l]  BY <1>7, <2>2 DEF Spare, IsGot
    <2>3. CASE mem'[l] = None  BY <2>3 DEF Spare
    <2>4. QED BY <1>8, <2>2, <2>3
  <1>10. ASSUME a \in {"fill", "tail", "length"}, w = "rx"
         PROVE  Uses(t, "rx") /\ ~InHand(t) /\ op[t] \in OnTx \cup OnRx
                /\ (isSg <=> op[t] \in SgOps) /\ StageOf(op[t], <<a, w>>)
    <2>1. op[t] \in OnTx \cup OnRx  BY <1>3, <1>10, InCall
    <2>2. /\ Uses(t, "rx") /\ (isSg <=> op[t] \in SgOps) /\ StageOf(op[t], <<a, w>>)
      BY <1>3, <1>10, <2>1, Works
    <2>3. ~InHandAt(op[t], <<a, w>>)  BY <1>10 DEF InHandAt, Tx, Rx
    <2>4. QED BY <1>5, <2>1, <2>2, <2>3 DEF InHand
  <1>11. ASSUME chan'["rx"].job # None
         PROVE  \/ mem'[chan'["rx"].dst] = None
                \/ \E g \in got' : g.packet = mem'[chan'["rx"].dst]
    <2> DEFINE d == chan["rx"].dst
               e == chan'["rx"].dst
    <2>1. d \in Places \ {"tx"}
      <3>1. chan["rx"] \in ChanType(calls)  BY TypedIs, PlacesAre DEF SharedType
      <3>2. QED BY <3>1 DEF ChanType
    <2>2. e \in Places \ {"tx"}
      <3>1. e = d \/ e = Target(t)  BY PlacesAre, WrittenIs
      <3>2. Target(t) \in Places \ {"tx"}  BY PlacesAre DEF Target
      <3>3. QED BY <2>1, <3>1, <3>2
    <2>3. Spare(e)
      <3>1. CASE chan'["rx"].job = chan["rx"].job /\ e = d
        BY <1>11, <3>1 DEF Keeping
      <3>2. CASE ~(chan'["rx"].job = chan["rx"].job /\ e = d)
        <4>1. a \in {"tail", "length"} /\ w = "rx"
          BY <1>4, <3>2, PlacesAre, WrittenIs
        <4>2. Uses(t, "rx") /\ ~InHand(t)  BY <1>10, <4>1
        <4> HIDE DEF e
        <4>3. QED BY <2>2, <4>2, FindsSpare
      <3>3. QED BY <3>1, <3>2
    <2>4. mem'[e] = mem[e] \/ mem'[e] = None  BY <1>8, <2>2
    <2> HIDE DEF d, e
    <2>5. mem'[e] = None \/ \E g \in got' : g.packet = mem'[e]
      BY <1>7, <2>3, <2>4 DEF Spare, IsGot
    <2>6. QED BY <2>5 DEF e
  <1>12. ASSUME NEW l \in Places \ {"tx"}
         PROVE  Spare(l)' \/ \E u \in Threads : HeldFor(u, l)'
    <2>1. CASE Spare(l)  BY <1>9, <2>1
    <2>2. ASSUME NEW u \in Threads, HeldFor(u, l), u # t  PROVE HeldFor(u, l)'
      BY <1>1, <2>2 DEF HeldFor, InHand, Target
    <2>3. ASSUME HeldFor(t, l)  PROVE Spare(l)' \/ HeldFor(t, l)'
      <3>1. Uses(t, "rx") /\ InHand(t) /\ l = Target(t)  BY <2>3 DEF HeldFor
      <3>2. /\ op[t] \in OnRx \cup {"Transf"}
            /\ \/ <<a, w>> = Rx("copyout")
               \/ script'[t] # <<>> /\ Now(script'[t]) = Rx("copyout")
               \/ script'[t] # <<>> /\ <<<<a, w>>, Now(script'[t])>> \in Edges(op[t])
        <4>1. PICK b \in Stages \ {"lock", "up"} :
                 /\ At(t, b, w) /\ op[t] \in OnRx \cup {"Transf"}
                 /\ \/ script'[t] = <<>> /\ (InHand(t) => <<b, w>> = Rx("copyout"))
                    \/ /\ script'[t] # <<>> /\ Now(script'[t]) = Rx("copyout")
                    \/ /\ script'[t] # <<>> /\ <<<<b, w>>, Now(script'[t])>> \in Edges(op[t])
          BY <3>1, GoesOn
        <4>2. b = a  BY <1>4, <4>1
        <4>3. QED BY <3>1, <4>1, <4>2
      <3>3. CASE <<a, w>> = Rx("copyout")
        <4>1. a = "copyout"  BY <3>3 DEF Rx
        <4>2. IsGot(mem[l])'
          <5>1. got' = got \cup {[call |-> call[t], packet |-> mem[l]]}  BY <1>6, <3>1, <4>1
          <5>2. mem'[l] = mem[l]  BY <1>6, <4>1
          <5>3. [call |-> call[t], packet |-> mem[l]].packet = mem[l]  OBVIOUS
          <5>4. QED BY <5>1, <5>2, <5>3 DEF IsGot
        <4>3. QED BY <4>2 DEF Spare
      <3>4. CASE <<a, w>> # Rx("copyout")
        <4>1. script'[t] # <<>> /\ InHandAt(op[t], Now(script'[t]))
          <5>1. CASE Now(script'[t]) = Rx("copyout")  BY <3>2, <3>4, <5>1 DEF InHandAt
          <5>2. CASE <<<<a, w>>, Now(script'[t])>> \in Edges(op[t])
            <6>1. InHandAt(op[t], <<a, w>>)  BY <1>5, <3>1 DEF InHand
            <6>2. QED BY <3>2, <3>4, <5>2, <6>1, EdgeSmooth, PlacesAre
          <5>3. QED BY <3>2, <3>4, <5>1, <5>2
        <4>2. HeldFor(t, l)'  BY <1>1, <3>1, <4>1 DEF HeldFor, InHand, Target
        <4>3. QED BY <4>2
      <3>5. QED BY <3>3, <3>4
    <2>4. QED BY <2>1, <2>2, <2>3 DEF Keeping
  <1>13. ASSUME NEW p \in 1..arrived  PROVE Kept(p)'
    <2>1. CASE IsGot(p)  BY <1>7, <2>1 DEF Kept
    <2>2. CASE ~IsGot(p)
      <3>1. PICK l \in Places \ {"tx"} : mem[l] = p  BY <2>2 DEF Keeping, Kept
      <3>2. p # None  BY DEF None
      <3>3. mem'[l] = mem[l]
        <4>1. ASSUME mem'[l] # mem[l]  PROVE FALSE
          <5>1. l = "rx" /\ w = "rx" /\ a = "fill"  BY <1>6, <1>8, <4>1
          <5>2. Spare(l)  BY <1>10, <5>1, FindsSpare
          <5>3. QED BY <2>2, <3>1, <3>2, <5>2 DEF Spare
        <4>2. QED BY <4>1
      <3>4. QED BY <3>1, <3>3 DEF Kept
    <2>3. QED BY <2>1, <2>2
  <1>14. QED BY <1>6, <1>11, <1>12, <1>13 DEF Keeping, Spare, IsGot

LEMMA OutsideKeeping ==
  ASSUME Typed, Control, Keeping, NEW t \in Threads, Outside(t)
  PROVE  Keeping'
  <1>1. /\ UNCHANGED <<case, isSg, chan, arrived, got>>
        /\ \A u \in Threads : u # t =>
             op'[u] = op[u] /\ script'[u] = script[u] /\ (Uses(u, "rx")' <=> Uses(u, "rx"))
        /\ ~Uses(t, "rx")
        /\ mem' = mem \/ (op[t] = "none" /\ mem' = [mem EXCEPT ![t] = None])
    BY OutsideIs, PlacesAre
  <1>2. Safe' <=> Safe  BY <1>1 DEF Safe, Punctual, Separate
  <1> SUFFICES ASSUME Safe  PROVE Keeping'
    BY <1>2 DEF Keeping
  <1>3. mem \in [Places -> Nat] /\ chan["rx"].dst \in Places \ {"tx"}
    <2>1. chan["rx"] \in ChanType(calls) /\ mem \in [Places -> Nat]
      BY TypedIs, PlacesAre DEF SharedType
    <2>2. QED BY <2>1 DEF ChanType
  <1>4. \A l \in Places \ {"tx"} :
          mem'[l] = mem[l] \/ (l = t /\ mem'[l] = None /\ mem' # mem)
    BY <1>1, <1>3
  <1>5. ASSUME mem' # mem, mem[t] # None  PROVE IsGot(mem[t])
    <2>1. op[t] = "none"  BY <1>1, <1>5
    <2>2. ASSUME NEW u \in Threads, HeldFor(u, t)  PROVE FALSE
      <3>1. Uses(u, "rx") /\ t = Target(u)  BY <2>2 DEF HeldFor
      <3>2. u = t  BY <3>1, PlacesAre DEF Target
      <3>3. QED BY <1>1, <3>1, <3>2
    <2>3. Spare(t)  BY <2>2, PlacesAre DEF Keeping
    <2>4. QED BY <1>5, <2>3 DEF Spare
  <1>6. \A p : IsGot(p)' <=> IsGot(p)  BY <1>1 DEF IsGot
  <1>7. \A l \in Places \ {"tx"} : Spare(l) => mem'[l] = None \/ IsGot(mem'[l])
    BY <1>4 DEF Spare
  <1>8. chan'["rx"].job # None => mem'[chan'["rx"].dst] = None \/ IsGot(mem'[chan'["rx"].dst])
    BY <1>1, <1>3, <1>7 DEF Keeping
  <1>9. ASSUME NEW l \in Places \ {"tx"}
        PROVE  mem'[l] = None \/ IsGot(mem'[l]) \/ \E u \in Threads : HeldFor(u, l)'
    <2>1. CASE Spare(l)  BY <1>7, <2>1
    <2>2. ASSUME NEW u \in Threads, HeldFor(u, l)  PROVE HeldFor(u, l)'
      <3>1. u # t  BY <1>1, <2>2 DEF HeldFor
      <3>2. QED BY <1>1, <2>2, <3>1 DEF HeldFor, InHand, Target
    <2>3. QED BY <2>1, <2>2 DEF Keeping
  <1>10. ASSUME NEW p \in 1..arrived  PROVE Kept(p)'
    <2>1. CASE IsGot(p)  BY <1>6, <2>1 DEF Kept
    <2>2. CASE ~IsGot(p)
      <3>1. PICK l \in Places \ {"tx"} : mem[l] = p  BY <2>2 DEF Keeping, Kept
      <3>2. p # None  BY DEF None
      <3>3. mem'[l] = mem[l]  BY <1>4, <1>5, <2>2, <3>1, <3>2
      <3>4. QED BY <3>1, <3>3 DEF Kept
    <2>3. QED BY <2>1, <2>2
  <1>11. QED BY <1>1, <1>6, <1>8, <1>9, <1>10 DEF Keeping, Spare, IsGot

(* The transfer s2mm works on is that of a call that still has to hand over *)
(* its packet, and its packet goes where that call wants it.                *)
LEMMA InFlight ==
  ASSUME Typed, Control, Registers, Reception, NothingAbandoned, Healthy, Course, Safe,
         Busy("rx"), chan["rx"].job # Old
  PROVE  \E u \in Threads : HeldFor(u, chan["rx"].dst)
  <1>1. chan["rx"].job # None /\ ~chan["rx"].resetting  BY DEF Busy
  <1>2. up  BY <1>1 DEF Healthy
  <1>3. Fine("rx") /\ Separate  BY AllFine DEF Safe
  <1>4. ~Quiet("rx")  BY <1>1 DEF Quiet, Spent
  <1>5. PICK u \in Threads : Uses(u, "rx") /\ Flying(u, "rx")
    BY <1>2, <1>3, <1>4, PlacesAre DEF Registers, Idle
  <1> DEFINE o == op[u]
             x == Now(script[u])
  <1>6. o \in OnRx \cup {"Transf"}  BY <1>5 DEF Uses, Mutex
  <1>7. InOrder(u) /\ Flight(u, "rx") /\ Receiving(u)
    BY <1>3, PlacesAre DEF Course, Registers, Reception
  <1>8. x # Rx("ack")
    <2>1. At1(u, <<"ack", "rx">>) => chan["rx"].job = None
      BY <1>1, <1>3, <1>5, <1>7 DEF Flight
    <2>2. QED BY <1>1, <2>1 DEF At1, Rx
  <1>9. x = Rx("reset") => o = "Transf"
    <2>1. HAVE x = Rx("reset")
    <2>2. o # "Recv"  BY <1>1, <1>5, <1>7, <2>1 DEF InOrder, At1
    <2>3. o \notin DirectOps
      <3>1. /\ script[u] # <<>> /\ IsRest(o, script[u])  BY <1>5 DEF Control, Uses
      <3>2. x = script[u][1]  BY <3>1 DEF Now
      <3>3. x \in Lasts(o) \/ \E y : <<x, y>> \in Edges(o)  BY <3>1, <3>2, StepOn
      <3>4. StageOf(o, <<"reset", "rx">>)  BY <2>1, <3>3 DEF StageOf, Rx
      <3>5. o \in SgOps  BY <1>6, <3>4, PlacesAre, StageIs DEF OnTx
      <3>6. QED BY <3>5 DEF SgOps, DirectOps
    <2>4. QED BY <1>6, <2>2, <2>3 DEF OnRx, DirectOps
  <1>10. InHand(u)
    BY <1>5, <1>6, <1>8, <1>9 DEF InHand, InHandAt, Flying, FlyingAt, WaitingAt, Tx, Rx
  <1>11. chan["rx"].dst = Target(u)
    <2>1. isSg <=> o \in SgOps  BY <1>5 DEF Control, Uses
    <2>2. CASE isSg
      <3>1. chan["rx"].dst = "rx"  BY <2>2, PlacesAre DEF Registers
      <3>2. o # "DirectManualRecv"  BY <2>1, <2>2 DEF SgOps
      <3>3. QED BY <3>1, <3>2 DEF Target
    <2>3. CASE ~isSg
      <3>1. o # "Transf"  BY <2>1, <2>3 DEF SgOps
      <3>2. Waiting(u, "rx")
        BY <1>5, <1>8, <1>9, <3>1 DEF Flying, FlyingAt, Waiting, WaitingAt, Rx
      <3>3. QED BY <1>1, <1>3, <1>5, <1>7, <2>3, <3>2 DEF Receiving
    <2>4. QED BY <2>2, <2>3
  <1>12. QED BY <1>5, <1>10, <1>11 DEF HeldFor

LEMMA EngineKeeping ==
  ASSUME Typed, Control, Registers, Reception, NothingAbandoned, Healthy, Course, Keeping,
         Engine
  PROVE  Keeping'
  <1>1. /\ UNCHANGED <<case, isSg, up, op, call, script, seen, calls, owner, got>>
        /\ \A u \in Threads : Uses(u, "rx")' <=> Uses(u, "rx")
    BY EngineLeaves, PlacesAre
  <1>2. Safe' <=> Safe  BY <1>1 DEF Safe, Punctual, Separate
  <1> SUFFICES ASSUME Safe  PROVE Keeping'
    BY <1>2 DEF Keeping
  <1> DEFINE d == chan["rx"].dst
  <1>3. mem \in [Places -> Nat] /\ d \in Places \ {"tx"} /\ arrived \in Nat
    <2>1. chan["rx"] \in ChanType(calls) /\ mem \in [Places -> Nat] /\ arrived \in 0..MaxPackets
      BY TypedIs, PlacesAre DEF SharedType
    <2>2. QED BY <2>1, PlacesAre DEF ChanType
  <1>4. \A p : IsGot(p)' <=> IsGot(p)  BY <1>1 DEF IsGot
  <1>5. \A u \in Threads : \A l : HeldFor(u, l)' <=> HeldFor(u, l)
    BY <1>1 DEF HeldFor, InHand, Target
  <1>6. CASE UNCHANGED <<mem, arrived>>
    <2>1. EngineDoes("rx")  BY EngineIs, PlacesAre
    <2>2. chan'["rx"].job # None => chan["rx"].job # None /\ chan'["rx"].dst = d
      BY <2>1 DEF EngineDoes, ResetState
    <2>3. chan'["rx"].job # None => Spare(d)  BY <2>2 DEF Keeping
    <2>4. chan'["rx"].job # None => mem'[chan'["rx"].dst] = None \/ IsGot(mem'[chan'["rx"].dst])
      BY <1>6, <2>2, <2>3 DEF Spare
    <2>5. \A p : Kept(p)' <=> Kept(p)  BY <1>4, <1>6 DEF Kept
    <2>6. \A l : Spare(l)' <=> Spare(l)  BY <1>4, <1>6 DEF Spare
    <2>7. QED BY <1>4, <1>5, <1>6, <2>4, <2>5, <2>6 DEF Keeping, Spare, IsGot
  <1>7. CASE /\ Busy("rx") /\ chan'["rx"].job = None /\ chan["rx"].job # Old
             /\ arrived' = arrived + 1
             /\ mem' = [mem EXCEPT ![d] = arrived + 1]
    <2>1. PICK u \in Threads : HeldFor(u, d)  BY <1>7, InFlight
    <2>2. mem'[d] = arrived + 1 /\ \A l \in Places \ {"tx"} : l # d => mem'[l] = mem[l]
      BY <1>3, <1>7
    <2>3. Spare(d)  BY <1>7 DEF Keeping, Busy
    <2>4. ASSUME NEW l \in Places \ {"tx"}
          PROVE  Spare(l)' \/ \E v \in Threads : HeldFor(v, l)'
      <3>1. CASE l = d  BY <1>5, <2>1, <3>1
      <3>2. CASE l # d
        <4>1. Spare(l)' <=> Spare(l)  BY <1>4, <2>2, <3>2 DEF Spare
        <4>2. QED BY <1>5, <4>1 DEF Keeping
      <3>3. QED BY <3>1, <3>2
    <2>5. ASSUME NEW p \in 1..(arrived + 1)  PROVE Kept(p)'
      <3>1. CASE p = arrived + 1  BY <1>3, <2>2, <3>1 DEF Kept
      <3>2. CASE p # arrived + 1
        <4>1. p \in 1..arrived /\ p # None  BY <1>3, <3>2 DEF None
        <4>2. CASE IsGot(p)  BY <1>4, <4>2 DEF Kept
        <4>3. CASE ~IsGot(p)
          <5>1. PICK l \in Places \ {"tx"} : mem[l] = p  BY <4>1, <4>3 DEF Keeping, Kept
          <5>2. l # d  BY <2>3, <4>1, <4>3, <5>1 DEF Spare
          <5>3. QED BY <2>2, <5>1, <5>2 DEF Kept
        <4>4. QED BY <4>2, <4>3
      <3>3. QED BY <3>1, <3>2
    <2> HIDE DEF d
    <2>6. QED BY <1>7, <2>4, <2>5 DEF Keeping
  <1>8. QED BY <1>6, <1>7, EngineData

LEMMA KeepingStep ==
  ASSUME Typed, Control, Registers, Reception, NothingAbandoned, Healthy, Course, Keeping,
         [Next]_vars
  PROVE  Keeping'
  <1>1. CASE UNCHANGED vars
    <2>1. UNCHANGED <<case, isSg, up, op, script, owner, chan, mem, arrived, got>>
      BY <1>1 DEF vars, threads, engine, history
    <2>2. Safe' <=> Safe  BY <2>1 DEF Safe, Punctual, Separate
    <2>3. \A p : (IsGot(p)' <=> IsGot(p)) /\ (Kept(p)' <=> Kept(p))  BY <2>1 DEF IsGot, Kept
    <2>4. \A u \in Threads : \A l : HeldFor(u, l)' <=> HeldFor(u, l)
      BY <2>1 DEF HeldFor, InHand, Target, Uses, Holds
    <2>5. QED BY <2>1, <2>2, <2>3, <2>4 DEF Keeping, Spare, IsGot
  <1>2. QED BY <1>1, NextIs, MoveKeeping, OutsideKeeping, EngineKeeping

LEMMA InitKeeping ==
  ASSUME Init
  PROVE  Keeping
  <1>1. arrived = 0 /\ \A l \in Places \ {"tx"} : mem[l] = None  BY DEF Init
  <1>2. chan["rx"].dst \in Places \ {"tx"}
    <2>1. ASSUME NEW c \in Leftover  PROVE c.dst = "rx"
      <3>1. CASE c = ResetState  BY <3>1 DEF ResetState
      <3>2. CASE c = [ResetState EXCEPT !.failed = TRUE, !.irq = {"err"}]
        BY <3>2 DEF ResetState
      <3>3. CASE c \in [run : {TRUE}, halted : {FALSE}, failed : {FALSE}, resetting : {FALSE},
                        irq : {{}, {"ioc"}}, job : {None, Old}, dst : {"rx"}]
        BY <3>3
      <3>4. QED BY <3>1, <3>2, <3>3 DEF Leftover
    <2>2. QED BY <2>1, PlacesAre DEF Init
  <1>3. 1..arrived = {}  BY <1>1
  <1>4. QED BY <1>1, <1>2, <1>3 DEF Keeping, Spare

(* A packet the engine stored is kept until a call hands it over            *)
(* (AxiDMA.cpp:224-239, 650-674), if no transfer is late or fails, Transf   *)
(* and Recv are not both called, and the reset at the end of a Send leaves  *)
(* the receive channel of a concurrent Recv alone.                          *)
THEOREM PacketsKept == Spec => [](Separate /\ ~case.sharedReset => NoPacketLost)
  <1> DEFINE Inv == /\ Typed /\ Control /\ Registers /\ Reception /\ NothingAbandoned
                    /\ Healthy /\ Course /\ Keeping
  <1>1. Init => Inv
    <2>1. Init => NothingAbandoned  BY DEF Init, NothingAbandoned
    <2>2. QED BY <2>1, InitTyped, InitRegisters, InitReception, InitHealthy, InitCourse, InitKeeping
  <1>2. Inv /\ [Next]_vars => Inv'
    BY TypeStep, ControlStep, RegistersStep, ReceptionStep, AbandonedStep, HealthyStep,
       CourseStep, KeepingStep
  <1>3. Inv => (Separate /\ ~case.sharedReset => NoPacketLost)
    BY DEF Keeping, Kept, IsGot, Safe, NoPacketLost
  <1>4. QED BY <1>1, <1>2, <1>3, PTL DEF Spec
=============================================================================
