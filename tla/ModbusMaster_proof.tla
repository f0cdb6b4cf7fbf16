-------------------------- MODULE ModbusMaster_proof --------------------------
(***************************************************************************)
(* Proofs about ModbusMaster, for every catalog, polling list, checksum,   *)
(* number of requests and behaviour of the pump and the line.              *)
(*                                                                         *)
(* Part 1 is the driver's inductive invariant.  Part 2 shows that the      *)
(* driver implements WriteService, and from that that the pump is never    *)
(* taken back to an older write.  Part 3 is about the bytes on the line:   *)
(* whatever they are, the state stays well typed.  Part 4: while none is   *)
(* damaged, an answer is only ever taken for the one to its own request.   *)
(***************************************************************************)
EXTENDS ModbusMaster, Lemmas_proof

Inv == DriverOK /\ QueueInv /\ AttemptsInv /\ RequestHasTarget

-----------------------------------------------------------------------------
(* QueueInv of a queue q, the fates f and the transmissions s, and how it  *)
(* survives the four things the driver does to them.                       *)

Sound(q, f, s) ==
  /\ \A i \in 1..Len(q) : f[q[i].raw] = "queued"
  /\ \A i, j \in 1..Len(q) : q[i].raw = q[j].raw => i = j
  /\ \A i \in 2..Len(q) : s[q[i].raw] = 0
  /\ \A w \in Request : f[w] = "none" => s[w] = 0

LEMMA RawsAreRequests ==
  ASSUME NEW q \in Seq(WriteReq)
  PROVE  \A i \in 1..Len(q) : q[i] \in WriteReq /\ q[i].raw \in Request
<1>. SUFFICES ASSUME NEW i \in 1..Len(q)
              PROVE  q[i] \in WriteReq /\ q[i].raw \in Request
  OBVIOUS
<1>1. q[i] \in WriteReq
  BY ElementOfSeq
<1>. QED  BY <1>1 DEF WriteReq

LEMMA PopSound ==
  ASSUME NEW q \in Seq(WriteReq), q # <<>>,
         NEW f \in [Request -> Fate],
         NEW s \in [Request -> Nat],
         Sound(q, f, s),
         NEW o \in Fate \ {"none"}
  PROVE  /\ Sound(Tail(q), [f EXCEPT ![Head(q).raw] = o], s)
         /\ Tail(q) # <<>> => s[Tail(q)[1].raw] = 0
<1>1. /\ Tail(q) \in Seq(WriteReq)
      /\ Len(Tail(q)) = Len(q) - 1
      /\ \A i \in 1..Len(Tail(q)) : Tail(q)[i] = q[i + 1]
      /\ Head(q) = q[1]
      /\ Len(q) \in Nat \ {0}
  BY TailFacts
<1>2. \A i \in 1..Len(q) : q[i].raw \in Request
  BY RawsAreRequests
<1>. DEFINE g == [f EXCEPT ![q[1].raw] = o]
<1>3. \A w \in Request : w # q[1].raw => g[w] = f[w]
  OBVIOUS
<1>4. \A i \in 1..Len(Tail(q)) : g[Tail(q)[i].raw] = "queued"
  <2>. SUFFICES ASSUME NEW i \in 1..Len(Tail(q))
                PROVE  g[Tail(q)[i].raw] = "queued"
    OBVIOUS
  <2>1. i + 1 \in 1..Len(q) /\ 1 \in 1..Len(q) /\ i + 1 # 1
    BY <1>1
  <2>2. q[i + 1].raw # q[1].raw
    BY <2>1 DEF Sound
  <2>. QED  BY <1>1, <1>2, <1>3, <2>1, <2>2 DEF Sound
<1>5. \A i, j \in 1..Len(Tail(q)) : Tail(q)[i].raw = Tail(q)[j].raw => i = j
  BY <1>1 DEF Sound
<1>6. \A i \in 2..Len(Tail(q)) : s[Tail(q)[i].raw] = 0
  BY <1>1 DEF Sound
<1>7. \A w \in Request : g[w] = "none" => s[w] = 0
  BY <1>2, <1>3 DEF Sound
<1>8. Tail(q) # <<>> => s[Tail(q)[1].raw] = 0
  <2>. SUFFICES ASSUME Tail(q) # <<>> PROVE s[Tail(q)[1].raw] = 0
    OBVIOUS
  <2>1. Len(Tail(q)) # 0
    BY <1>1, EmptySeq
  <2>. QED  BY <1>1, <2>1 DEF Sound
<1>. QED  BY <1>1, <1>4, <1>5, <1>6, <1>7, <1>8 DEF Sound

LEMMA PushSound ==
  ASSUME NEW q \in Seq(WriteReq),
         NEW f \in [Request -> Fate],
         NEW s \in [Request -> Nat],
         Sound(q, f, s),
         NEW x \in WriteReq, f[x.raw] = "none"
  PROVE  Sound(Append(q, x), [f EXCEPT ![x.raw] = "queued"], s)
<1>1. /\ Len(Append(q, x)) = Len(q) + 1
      /\ \A i \in 1..Len(q) : Append(q, x)[i] = q[i]
      /\ Append(q, x)[Len(q) + 1] = x
      /\ Len(q) \in Nat
  BY AppendFacts
<1>2. x.raw \in Request /\ \A i \in 1..Len(q) : q[i].raw \in Request
  BY RawsAreRequests DEF WriteReq
<1>3. \A i \in 1..Len(q) : q[i].raw # x.raw
  BY DEF Sound
<1>4. s[x.raw] = 0
  BY <1>2 DEF Sound
<1>. DEFINE r == Append(q, x)
            g == [f EXCEPT ![x.raw] = "queued"]
<1>5. \A i \in 1..Len(r) : i \in 1..Len(q) \/ i = Len(q) + 1
  BY <1>1
<1>6. \A w \in Request : g[w] = IF w = x.raw THEN "queued" ELSE f[w]
  OBVIOUS
<1>7. \A i \in 1..Len(r) : g[r[i].raw] = "queued"
  BY <1>1, <1>2, <1>5, <1>6 DEF Sound
<1>8. \A i, j \in 1..Len(r) : r[i].raw = r[j].raw => i = j
  BY <1>1, <1>3, <1>5 DEF Sound
<1>9. \A i \in 2..Len(r) : s[r[i].raw] = 0
  BY <1>1, <1>4, <1>5 DEF Sound
<1>10. \A w \in Request : g[w] = "none" => s[w] = 0
  BY <1>6 DEF Sound
<1>. QED  BY <1>7, <1>8, <1>9, <1>10 DEF Sound

LEMMA SendSound ==
  ASSUME NEW q \in Seq(WriteReq), q # <<>>,
         NEW f \in [Request -> Fate],
         NEW s \in [Request -> Nat],
         Sound(q, f, s),
         NEW t \in [Request -> Nat],
         \A w \in Request : w # q[1].raw => t[w] = s[w]
  PROVE  Sound(q, f, t)
<1>1. Head(q) = q[1] /\ Len(q) \in Nat \ {0}
  BY TailFacts
<1>2. \A i \in 1..Len(q) : q[i].raw \in Request
  BY RawsAreRequests
<1>4. \A w \in Request : w # q[1].raw => t[w] = s[w]
  OBVIOUS
<1>5. \A i \in 2..Len(q) : t[q[i].raw] = 0
  <2>. SUFFICES ASSUME NEW i \in 2..Len(q) PROVE t[q[i].raw] = 0
    OBVIOUS
  <2>1. i \in 1..Len(q) /\ 1 \in 1..Len(q) /\ i # 1
    BY <1>1
  <2>2. q[i].raw # q[1].raw
    BY <2>1 DEF Sound
  <2>. QED  BY <1>2, <1>4, <2>1, <2>2 DEF Sound
<1>6. \A w \in Request : f[w] = "none" => t[w] = 0
  <2>. SUFFICES ASSUME NEW w \in Request, f[w] = "none" PROVE t[w] = 0
    OBVIOUS
  <2>1. f[q[1].raw] = "queued"
    BY <1>1 DEF Sound
  <2>2. w # q[1].raw
    BY <2>1
  <2>. QED  BY <1>4, <2>2 DEF Sound
<1>. QED  BY <1>1, <1>5, <1>6 DEF Sound

-----------------------------------------------------------------------------
(* The driver's steps.                                                     *)

LEMMA QueueInvIsSound == QueueInv <=> Sound(writes, fate, sends)
  BY DEF QueueInv, Sound

LEMMA NextQueueInvIsSound == QueueInv' <=> Sound(writes', fate', sends')
  BY DEF QueueInv, Sound

LEMMA NextIdxInRange ==
  ASSUME NEW i \in Nat
  PROVE  /\ NextIdx(i) \in Nat
         /\ Polled # <<>> => NextIdx(i) < Len(Polled)
<1>1. Len(Polled) \in Nat /\ (Polled # <<>> => Len(Polled) # 0)
  BY MasterAssumption, LenProperties, EmptySeq
<1>. QED  BY <1>1 DEF NextIdx

LEMMA InitInv == Init => Inv
<1>. SUFFICES ASSUME Init PROVE Inv
  OBVIOUS
<1>1. writes \in Seq(WriteReq) /\ Len(writes) = 0
  BY DEF Init
<1>2. Polled # <<>> => Len(Polled) \in Nat /\ Len(Polled) # 0
  BY MasterAssumption, LenProperties, EmptySeq
<1>0. Len(writes) <= QueueCap
  BY <1>1, MasterAssumption
<1>3. DriverOK
  BY <1>0, <1>1, <1>2 DEF Init, DriverOK, NoRequest, Word, Fate, Attempts
<1>4. QueueInv /\ AttemptsInv /\ RequestHasTarget
  BY <1>1 DEF Init, QueueInv, AttemptsInv, RequestHasTarget, NoRequest
<1>. QED  BY <1>3, <1>4 DEF Inv

(* The environment, and loop() when it has nothing to do, leave all of     *)
(* this alone.                                                             *)
LEMMA OtherSteps ==
  ASSUME Inv,
         UNCHANGED <<writes, pend, retry, pollIdx, fate, sends>>,
         half' \in {"receive", "poll"}
  PROVE  Inv'
<1>1. DriverOK'
  BY DEF Inv, DriverOK
<1>2. QueueInv' /\ AttemptsInv' /\ RequestHasTarget'
  BY DEF Inv, QueueInv, AttemptsInv, RequestHasTarget, IsRead, IsWrite
<1>. QED  BY <1>1, <1>2 DEF Inv

LEMMA QueueWriteStep ==
  ASSUME Inv, NEW w \in Request, NEW a \in WriteAddrs, QueueWrite(w, a)
  PROVE  Inv'
<1>. DEFINE x == [addr |-> a, raw |-> w]
<1>0. /\ Sound(writes, fate, sends)
      /\ writes \in Seq(WriteReq)
      /\ fate \in [Request -> Fate] /\ sends \in [Request -> Nat]
      /\ Len(writes) \in Nat /\ Len(writes) <= QueueCap
      /\ QueueCap \in Nat \ {0}
  BY QueueInvIsSound, LenProperties, MasterAssumption DEF Inv, DriverOK
<1>1. x \in WriteReq /\ x.raw = w /\ fate[w] = "none" /\ sends[w] = 0
  <2>1. a \in Word
    BY MasterAssumption
  <2>2. fate[w] = "none"
    BY DEF QueueWrite, IsNext
  <2>3. sends[w] = 0
    BY <1>0, <2>2 DEF Sound
  <2>. QED  BY <2>1, <2>2, <2>3 DEF WriteReq
<1>2. /\ UNCHANGED <<half, pend, retry, pollIdx, sends>>
      /\ retry \in Nat
  BY DEF QueueWrite, Inv, DriverOK, Attempts
<1>3. CASE ~IsWritable(a)
  <2>1. writes' = writes /\ fate' = [fate EXCEPT ![w] = "refused"]
    BY <1>3 DEF QueueWrite
  <2>2. \A i \in 1..Len(writes) : writes[i].raw # w
    BY <1>0, <1>1 DEF Sound
  <2>3. \A v \in Request : fate'[v] = IF v = w THEN "refused" ELSE fate[v]
    BY <1>0, <2>1
  <2>4. Sound(writes', fate', sends')
    BY <1>0, <1>2, <2>1, <2>2, <2>3, RawsAreRequests DEF Sound
  <2>5. DriverOK'
    BY <1>0, <1>2, <2>1 DEF Inv, DriverOK, Fate
  <2>6. AttemptsInv' /\ RequestHasTarget'
    BY <1>2, <2>1 DEF Inv, AttemptsInv, RequestHasTarget, IsRead, IsWrite
  <2>. QED  BY <2>4, <2>5, <2>6, NextQueueInvIsSound DEF Inv
<1>4. CASE IsWritable(a) /\ Len(writes) >= QueueCap
  <2>1. /\ writes' = Append(Tail(writes), x)
        /\ fate' = [fate EXCEPT ![w] = "queued", ![Head(writes).raw] = "overflowed"]
    BY <1>0, <1>4 DEF QueueWrite
  <2>. DEFINE q == Tail(writes)
              f == [fate EXCEPT ![Head(writes).raw] = "overflowed"]
  <2>2. writes # <<>>
    BY <1>0, <1>4
  <2>3. /\ q \in Seq(WriteReq) /\ Len(q) = Len(writes) - 1
        /\ Head(writes) = writes[1] /\ Head(writes).raw \in Request
    BY <1>0, <2>2, TailFacts, RawsAreRequests
  <2>4. Sound(q, f, sends) /\ (q # <<>> => sends[q[1].raw] = 0)
    <3>1. "overflowed" \in Fate \ {"none"}
      BY DEF Fate
    <3>. QED  BY <1>0, <2>2, <3>1, PopSound
  <2>5. w # Head(writes).raw
    BY <1>0, <1>1, <2>2, <2>3 DEF Sound
  <2>6. f \in [Request -> Fate] /\ f[w] = "none" /\ fate' = [f EXCEPT ![w] = "queued"]
    BY <1>0, <1>1, <2>1, <2>3, <2>5 DEF Fate
  <2>7. Sound(writes', fate', sends')
    <3>. HIDE DEF f, q, x
    <3>1. Sound(Append(q, x), [f EXCEPT ![x.raw] = "queued"], sends)
      BY <1>0, <1>1, <2>3, <2>4, <2>6, PushSound
    <3>. QED  BY <1>1, <1>2, <2>1, <2>6, <3>1 DEF q, x
  <2>8. /\ writes' \in Seq(WriteReq) /\ Len(writes') = Len(q) + 1
        /\ \A i \in 1..Len(q) : writes'[i] = q[i]
        /\ writes'[Len(q) + 1] = x
        /\ Len(q) = QueueCap - 1
    BY <1>0, <1>1, <1>4, <2>1, <2>3, AppendFacts
  <2>9. DriverOK'
    <3>1. fate' \in [Request -> Fate]
      BY <2>6 DEF Fate
    <3>2. Len(writes') <= QueueCap
      BY <1>0, <2>8
    <3>. QED  BY <1>2, <2>8, <3>1, <3>2 DEF Inv, DriverOK
  <2>10. sends'[writes'[1].raw] = 0
    <3>. HIDE DEF q
    <3>1. CASE QueueCap = 1
      BY <1>0, <1>1, <1>2, <2>8, <3>1
    <3>2. CASE QueueCap # 1
      <4>1. q # <<>> /\ 1 \in 1..Len(q)
        BY <1>0, <2>3, <2>8, <3>2, EmptySeq
      <4>. QED  BY <1>2, <2>4, <2>8, <4>1
    <3>. QED  BY <3>1, <3>2
  <2>11. AttemptsInv' /\ RequestHasTarget'
    BY <1>2, <2>8, <2>10 DEF Inv, AttemptsInv, RequestHasTarget, IsRead, IsWrite
  <2>. QED  BY <2>7, <2>9, <2>11, NextQueueInvIsSound DEF Inv
<1>5. CASE IsWritable(a) /\ Len(writes) < QueueCap
  <2>1. writes' = Append(writes, x) /\ fate' = [fate EXCEPT ![w] = "queued"]
    BY <1>5, <1>0 DEF QueueWrite
  <2>2. Sound(writes', fate', sends')
    BY <1>0, <1>1, <1>2, <2>1, PushSound
  <2>3. /\ writes' \in Seq(WriteReq) /\ Len(writes') = Len(writes) + 1
        /\ \A i \in 1..Len(writes) : writes'[i] = writes[i]
        /\ writes'[Len(writes) + 1] = x
    BY <1>0, <1>1, <2>1, AppendFacts
  <2>4. DriverOK'
    BY <1>0, <1>2, <1>5, <2>1, <2>3 DEF Inv, DriverOK, Fate
  <2>5. writes = <<>> => sends'[writes'[1].raw] = 0
    BY <1>1, <1>2, <2>3
  <2>6. writes # <<>> => writes'[1] = writes[1]
    BY <1>0, <2>3, EmptySeq
  <2>7. AttemptsInv' /\ RequestHasTarget'
    BY <1>2, <2>3, <2>5, <2>6 DEF Inv, AttemptsInv, RequestHasTarget, IsRead, IsWrite
  <2>. QED  BY <2>2, <2>4, <2>7, NextQueueInvIsSound DEF Inv
<1>. QED  BY <1>0, <1>3, <1>4, <1>5

(* What every outcome of a frame has in common: the pending request ends,  *)
(* or nothing changes.                                                     *)
LEMMA PopWriteStep ==
  ASSUME Inv, NEW o \in {"acked", "abandoned"}, PopWrite(o), UNCHANGED sends
  PROVE  /\ Sound(writes', fate', sends')
         /\ writes' \in Seq(WriteReq) /\ Len(writes') <= QueueCap
         /\ fate' \in [Request -> Fate]
         /\ writes' # <<>> => sends'[writes'[1].raw] = 0
<1>0. /\ Sound(writes, fate, sends)
      /\ writes \in Seq(WriteReq) /\ Len(writes) <= QueueCap
      /\ fate \in [Request -> Fate] /\ sends \in [Request -> Nat]
  BY QueueInvIsSound DEF Inv, DriverOK
<1>1. CASE writes = <<>>
  BY <1>0, <1>1 DEF PopWrite
<1>2. CASE writes # <<>>
  <2>1. /\ writes' = Tail(writes)
        /\ fate' = [fate EXCEPT ![Head(writes).raw] = o]
    BY <1>2 DEF PopWrite
  <2>2. o \in Fate \ {"none"}
    BY DEF Fate
  <2>3. /\ Sound(writes', fate', sends)
        /\ writes' # <<>> => sends[writes'[1].raw] = 0
    BY <1>0, <1>2, <2>1, <2>2, PopSound
  <2>4. /\ Tail(writes) \in Seq(WriteReq)
        /\ Len(Tail(writes)) = Len(writes) - 1
        /\ Len(writes) \in Nat
    BY <1>0, <1>2, TailFacts
  <2>5. fate' \in [Request -> Fate]
    BY <1>0, <2>1, <2>2
  <2>. QED  BY <1>0, <2>1, <2>3, <2>4, <2>5, MasterAssumption
<1>. QED  BY <1>1, <1>2

LEMMA IdleTyped ==
  ASSUME Inv
  PROVE  /\ Idle \in [on : BOOLEAN, addr : Word, fc : {0, 3, 4, 6, 16}, cnt : {0, 1, 2}]
         /\ Idle.on = FALSE
  BY DEF Inv, DriverOK, Idle

LEMMA FailStep ==
  ASSUME Inv, pend.on, Fail, UNCHANGED sends, half' \in {"receive", "poll"}
  PROVE  Inv'
<1>0. /\ retry \in 0..2 /\ pollIdx \in Nat
      /\ pend' = Idle /\ Idle.on = FALSE
      /\ pend' \in [on : BOOLEAN, addr : Word, fc : {0, 3, 4, 6, 16}, cnt : {0, 1, 2}]
      /\ ~pend'.on
  <2>1. retry \in 0..2 /\ pollIdx \in Nat
    BY DEF Inv, DriverOK, Attempts
  <2>2. pend' = Idle
    BY DEF Fail
  <2>. QED  BY <2>1, <2>2, IdleTyped
<1>1. CASE retry + 1 >= 3 /\ IsWrite(pend.fc)
  <2>1. retry' = 0 /\ PopWrite("abandoned") /\ pollIdx' = pollIdx
    BY <1>1 DEF Fail, Attempts
  <2>2. /\ Sound(writes', fate', sends')
        /\ writes' \in Seq(WriteReq) /\ Len(writes') <= QueueCap
        /\ fate' \in [Request -> Fate]
        /\ writes' # <<>> => sends'[writes'[1].raw] = 0
    BY <2>1, PopWriteStep
  <2>3. DriverOK'
    BY <1>0, <2>1, <2>2 DEF Inv, DriverOK, Attempts
  <2>4. AttemptsInv' /\ RequestHasTarget'
    BY <1>0, <2>1, <2>2 DEF AttemptsInv, RequestHasTarget
  <2>. QED  BY <2>2, <2>3, <2>4, NextQueueInvIsSound DEF Inv
<1>2. CASE retry + 1 >= 3 /\ ~IsWrite(pend.fc)
  <2>1. /\ retry' = 0 /\ pollIdx' = NextIdx(pollIdx)
        /\ UNCHANGED <<writes, fate>>
    BY <1>2 DEF Fail, Attempts
  <2>2. DriverOK'
    BY SMTT(30), <1>0, <2>1, NextIdxInRange DEF Inv, DriverOK, Attempts
  <2>3. QueueInv'
    BY <2>1 DEF Inv, QueueInv
  <2>4. AttemptsInv' /\ RequestHasTarget'
    BY <1>0, <1>2, <2>1 DEF Inv, AttemptsInv, RequestHasTarget
  <2>. QED  BY <2>2, <2>3, <2>4 DEF Inv
<1>3. CASE ~(retry + 1 >= 3)
  <2>1. retry' = retry + 1 /\ UNCHANGED <<writes, fate, pollIdx>>
    BY <1>3 DEF Fail, Attempts
  <2>2. DriverOK'
    BY <1>0, <1>3, <2>1 DEF Inv, DriverOK, Attempts
  <2>3. QueueInv'
    BY <2>1 DEF Inv, QueueInv
  <2>4. AttemptsInv' /\ RequestHasTarget'
    BY <1>0, <2>1 DEF Inv, AttemptsInv, RequestHasTarget
  <2>. QED  BY <2>2, <2>3, <2>4 DEF Inv
<1>. QED  BY <1>1, <1>2, <1>3

LEMMA AcceptReadStep ==
  ASSUME Inv, pend.on, ~IsWrite(pend.fc), NEW f, AcceptRead(f),
         UNCHANGED sends, half' \in {"receive", "poll"}
  PROVE  Inv'
<1>0. /\ pollIdx \in Nat
      /\ pend' \in [on : BOOLEAN, addr : Word, fc : {0, 3, 4, 6, 16}, cnt : {0, 1, 2}]
      /\ ~pend'.on
  BY IdleTyped DEF Inv, DriverOK, AcceptRead
<1>1. retry' = 0 /\ pollIdx' = NextIdx(pollIdx) /\ UNCHANGED <<writes, fate>>
  BY DEF AcceptRead
<1>2. DriverOK'
  BY SMTT(30), <1>0, <1>1, NextIdxInRange DEF Inv, DriverOK, Attempts
<1>3. QueueInv'
  BY <1>1 DEF Inv, QueueInv
<1>4. AttemptsInv' /\ RequestHasTarget'
  BY <1>0, <1>1 DEF Inv, AttemptsInv, RequestHasTarget
<1>. QED  BY <1>2, <1>3, <1>4 DEF Inv

LEMMA AcceptEchoStep ==
  ASSUME Inv, AcceptEcho, UNCHANGED sends, half' \in {"receive", "poll"}
  PROVE  Inv'
<1>0. /\ pend' \in [on : BOOLEAN, addr : Word, fc : {0, 3, 4, 6, 16}, cnt : {0, 1, 2}]
      /\ ~pend'.on
  BY IdleTyped DEF AcceptEcho
<1>1. retry' = 0 /\ pollIdx' = pollIdx /\ PopWrite("acked")
  BY DEF AcceptEcho
<1>2. /\ Sound(writes', fate', sends')
      /\ writes' \in Seq(WriteReq) /\ Len(writes') <= QueueCap
      /\ fate' \in [Request -> Fate]
      /\ writes' # <<>> => sends'[writes'[1].raw] = 0
  BY <1>1, PopWriteStep
<1>3. DriverOK'
  BY <1>0, <1>1, <1>2 DEF Inv, DriverOK, Attempts
<1>4. AttemptsInv' /\ RequestHasTarget'
  BY <1>0, <1>1, <1>2 DEF AttemptsInv, RequestHasTarget
<1>. QED  BY <1>2, <1>3, <1>4, NextQueueInvIsSound DEF Inv

LEMMA FrameStep ==
  ASSUME Inv, pend.on, NEW f, OnModbusFrame(f),
         UNCHANGED sends, half' \in {"receive", "poll"}
  PROVE  Inv'
<1>1. CASE Ignore
  BY <1>1, OtherSteps DEF Ignore
<1>2. CASE Fail
  BY <1>2, FailStep
<1>3. CASE IsRead(pend.fc) /\ AcceptRead(f)
  BY <1>3, AcceptReadStep DEF IsRead, IsWrite
<1>4. CASE AcceptEcho
  BY <1>4, AcceptEchoStep
<1>. QED  BY <1>1, <1>2, <1>3, <1>4 DEF OnModbusFrame

LEMMA ReceiveStep ==
  ASSUME Inv, NEW k, LoopReceive(k)
  PROVE  Inv'
<1>0. half' \in {"receive", "poll"} /\ UNCHANGED sends
  BY DEF LoopReceive
<1>1. CASE ~pend.on
  <2>1. Ignore
    BY <1>1 DEF LoopReceive
  <2>. QED  BY <1>0, <2>1, OtherSteps DEF Ignore
<1>2. CASE pend.on
  <2>1. PICK s : Parse(s)
    BY <1>2 DEF LoopReceive
  <2>2. Ignore \/ \E f : OnModbusFrame(f)
    BY <2>1 DEF Parse
  <2>3. CASE Ignore
    BY <1>0, <2>3, OtherSteps DEF Ignore
  <2>4. CASE \E f : OnModbusFrame(f)
    BY <1>0, <1>2, <2>4, FrameStep
  <2>. QED  BY <2>2, <2>3, <2>4
<1>. QED  BY <1>1, <1>2

-----------------------------------------------------------------------------
(* poll_one_: the timeout, then the next request.                          *)

LEMMA TimeOutStep ==
  ASSUME Inv, TimeOut
  PROVE  /\ Sound(writes', fate', sends)
         /\ writes' = QueueAfterTimeout
         /\ writes' \in Seq(WriteReq) /\ Len(writes') <= QueueCap
         /\ fate' \in [Request -> Fate]
         /\ retry' \in 0..2
         /\ writes' # <<>> => sends[writes'[1].raw] <= retry'
         /\ pollIdx' = IdxAfterTimeout
         /\ pollIdx' \in Nat
         /\ Polled # <<>> => pollIdx' < Len(Polled)
<1>0. /\ Sound(writes, fate, sends)
      /\ writes \in Seq(WriteReq) /\ Len(writes) <= QueueCap
      /\ fate \in [Request -> Fate] /\ sends \in [Request -> Nat]
      /\ retry \in 0..2 /\ pend.on \in BOOLEAN
      /\ pollIdx \in Nat /\ (Polled # <<>> => pollIdx < Len(Polled))
  BY QueueInvIsSound DEF Inv, DriverOK, Attempts
<1>1. /\ writes' = QueueAfterTimeout
      /\ pollIdx' = IdxAfterTimeout
      /\ retry' \in 0..2
  BY <1>0 DEF TimeOut, Expired, Attempts
<1>2. pollIdx' \in Nat /\ (Polled # <<>> => pollIdx' < Len(Polled))
  BY <1>0, <1>1, NextIdxInRange DEF IdxAfterTimeout
<1>3. writes # <<>> => /\ Len(writes) \in Nat \ {0}
                       /\ sends[writes[1].raw] \in Nat
  <2>. SUFFICES ASSUME writes # <<>>
                PROVE  Len(writes) \in Nat \ {0} /\ sends[writes[1].raw] \in Nat
    OBVIOUS
  <2>1. Len(writes) \in Nat \ {0}
    BY <1>0, TailFacts
  <2>. QED  BY <1>0, <2>1, RawsAreRequests
<1>4. CASE Expired /\ writes # <<>>
  <2>1. /\ writes' = Tail(writes)
        /\ fate' = [fate EXCEPT ![Head(writes).raw] = "abandoned"]
        /\ retry' = 0
    BY <1>4 DEF TimeOut, QueueAfterTimeout, Expired
  <2>2. "abandoned" \in Fate \ {"none"}
    BY DEF Fate
  <2>3. /\ Sound(writes', fate', sends)
        /\ writes' # <<>> => sends[writes'[1].raw] = 0
    BY <1>0, <1>4, <2>1, <2>2, PopSound
  <2>4. /\ writes' \in Seq(WriteReq)
        /\ Len(writes') = Len(writes) - 1
    BY <1>0, <1>4, <2>1, TailFacts
  <2>5. fate' \in [Request -> Fate]
    BY <1>0, <2>1, <2>2
  <2>6. Len(writes') <= QueueCap
    BY <1>0, <1>3, <1>4, <2>4, MasterAssumption
  <2>. QED  BY <1>1, <1>2, <2>1, <2>3, <2>4, <2>5, <2>6
<1>5. CASE ~(Expired /\ writes # <<>>)
  <2>1. writes' = writes /\ fate' = fate
    BY <1>5 DEF TimeOut, QueueAfterTimeout
  <2>2. writes # <<>> => sends[writes[1].raw] <= retry'
    <3>. SUFFICES ASSUME writes # <<>> PROVE sends[writes[1].raw] <= retry'
      OBVIOUS
    <3>1. retry' = IF pend.on THEN retry + 1 ELSE retry
      BY <1>5 DEF TimeOut
    <3>2. pend.on => sends[writes[1].raw] <= retry + 1
      BY <1>0, <1>3 DEF Inv, AttemptsInv
    <3>3. ~pend.on => sends[writes[1].raw] <= retry
      BY DEF Inv, AttemptsInv
    <3>. QED  BY <1>0, <3>1, <3>2, <3>3
  <2>. QED  BY <1>0, <1>1, <1>2, <2>1, <2>2
<1>. QED  BY <1>4, <1>5

LEMMA CatalogTyped ==
  ASSUME NEW a
  PROVE  /\ Words(a) \in {1, 2}
         /\ ReadFc(a) \in {3, 4}
         /\ (IF Wide(a) THEN 16 ELSE WriteFc) \in {6, 16}
  BY MasterAssumption DEF Words, ReadFc

LEMMA PollStep ==
  ASSUME Inv, PollOne, half' \in {"receive", "poll"}
  PROVE  Inv'
<1>0. /\ Sound(writes', fate', sends)
      /\ writes' = QueueAfterTimeout
      /\ writes' \in Seq(WriteReq) /\ Len(writes') <= QueueCap
      /\ fate' \in [Request -> Fate]
      /\ retry' \in 0..2
      /\ writes' # <<>> => sends[writes'[1].raw] <= retry'
      /\ pollIdx' = IdxAfterTimeout
      /\ pollIdx' \in Nat
      /\ Polled # <<>> => pollIdx' < Len(Polled)
  BY TimeOutStep DEF PollOne
<1>1. sends \in [Request -> Nat]
  BY DEF Inv, DriverOK
<1>2. CASE QueueAfterTimeout # <<>> /\ SendWrite(Head(QueueAfterTimeout))
  <2>. DEFINE w == Head(writes')
  <2>1. PICK c \in {6, 16}, n \in {1, 2} :
          pend' = [on |-> TRUE, addr |-> w.addr, fc |-> c, cnt |-> n]
    BY <1>0, <1>2, CatalogTyped DEF SendWrite
  <2>2. writes' # <<>> /\ w = writes'[1] /\ w \in WriteReq
    BY <1>0, <1>2, TailFacts
  <2>3. /\ Sound(writes', fate', sends')
        /\ sends' \in [Request -> Nat]
        /\ sends'[writes'[1].raw] = sends[writes'[1].raw] + 1
    <3>1. sends' = [sends EXCEPT ![writes'[1].raw] = @ + 1]
      BY <1>0, <1>2, <2>2 DEF SendWrite
    <3>2. writes'[1].raw \in Request
      BY <2>2 DEF WriteReq
    <3>3. /\ sends' \in [Request -> Nat]
          /\ sends'[writes'[1].raw] = sends[writes'[1].raw] + 1
          /\ \A v \in Request : v # writes'[1].raw => sends'[v] = sends[v]
      BY <1>1, <3>1, <3>2
    <3>4. Sound(writes', fate', sends')
      BY <1>0, <1>1, <2>2, <3>3, SendSound
    <3>. QED  BY <3>3, <3>4
  <2>4. pend' \in [on : BOOLEAN, addr : Word, fc : {0, 3, 4, 6, 16}, cnt : {0, 1, 2}]
    <3>1. w.addr \in Word
      BY <2>2 DEF WriteReq
    <3>. QED  BY <2>1, <3>1
  <2>5. DriverOK'
    BY <1>0, <2>3, <2>4 DEF DriverOK, Attempts
  <2>6. sends'[writes'[1].raw] <= retry' + 1
    <3>1. sends[writes'[1].raw] \in Nat
      BY <1>1, <2>2 DEF WriteReq
    <3>. QED  BY <1>0, <2>2, <2>3, <3>1
  <2>7. AttemptsInv'
    BY <2>1, <2>6 DEF AttemptsInv, IsWrite
  <2>8. RequestHasTarget'
    BY <2>1, <2>2 DEF RequestHasTarget, IsRead
  <2>. QED  BY <2>3, <2>5, <2>7, <2>8, NextQueueInvIsSound DEF Inv
<1>3. CASE /\ QueueAfterTimeout = <<>> /\ Polled # <<>>
           /\ SendRead(Polled[IdxAfterTimeout + 1])
  <2>. DEFINE a == Polled[pollIdx' + 1]
  <2>0. sends' = sends
    BY <1>3 DEF SendRead
  <2>1. PICK c \in {3, 4}, n \in {1, 2} :
          pend' = [on |-> TRUE, addr |-> a, fc |-> c, cnt |-> n]
    BY <1>0, <1>3, CatalogTyped DEF SendRead
  <2>2. a \in Word
    <3>1. pollIdx' + 1 \in 1..Len(Polled)
      BY <1>0, <1>3, MasterAssumption, LenProperties
    <3>. QED  BY <3>1, MasterAssumption, ElementOfSeq
  <2>3. pend' \in [on : BOOLEAN, addr : Word, fc : {0, 3, 4, 6, 16}, cnt : {0, 1, 2}]
    BY <2>1, <2>2
  <2>4. DriverOK'
    BY <1>0, <1>1, <2>0, <2>3 DEF DriverOK, Attempts
  <2>5. AttemptsInv'
    BY <1>0, <1>3 DEF AttemptsInv
  <2>6. RequestHasTarget'
    BY <1>3, <2>1 DEF RequestHasTarget, IsWrite
  <2>. QED  BY <1>0, <2>0, <2>4, <2>5, <2>6, NextQueueInvIsSound DEF Inv
<1>4. CASE QueueAfterTimeout = <<>> /\ Polled = <<>> /\ SendNothing
  <2>1. /\ pend' \in [on : BOOLEAN, addr : Word, fc : {0, 3, 4, 6, 16}, cnt : {0, 1, 2}]
        /\ ~pend'.on /\ sends' = sends
    BY <1>4, IdleTyped DEF SendNothing
  <2>2. DriverOK'
    BY <1>0, <1>1, <2>1 DEF DriverOK, Attempts
  <2>3. AttemptsInv' /\ RequestHasTarget'
    BY <1>0, <1>4, <2>1 DEF AttemptsInv, RequestHasTarget
  <2>. QED  BY <1>0, <2>1, <2>2, <2>3, NextQueueInvIsSound DEF Inv
<1>. QED  BY <1>2, <1>3, <1>4 DEF PollOne

-----------------------------------------------------------------------------
(* The inductive invariant.                                                *)

LEMMA NextInv == Inv /\ [Next]_vars => Inv'
<1>. SUFFICES ASSUME Inv, [Next]_vars PROVE Inv'
  OBVIOUS
<1>0. half \in {"receive", "poll"}
  BY DEF Inv, DriverOK
<1>1. CASE \E w \in Request, a \in WriteAddrs : QueueWrite(w, a)
  BY <1>1, QueueWriteStep
<1>2. CASE \E k \in 0..Len(uart) : LoopReceive(k)
  BY <1>2, ReceiveStep
<1>3. CASE LoopPollDue
  BY <1>3, PollStep DEF LoopPollDue
<1>4. CASE LoopPollNotDue
  BY <1>4, OtherSteps DEF LoopPollNotDue, history
<1>5. CASE Pump
  <2>1. UNCHANGED <<driver, fate, sends>>
    BY <1>5 DEF Pump, Answer, Garble, Decline, LoseRequest, LoseAnswer, history
  <2>. QED  BY <1>0, <2>1, OtherSteps DEF driver
<1>6. CASE UNCHANGED vars
  BY <1>0, <1>6, OtherSteps DEF vars, driver, history
<1>. QED  BY <1>1, <1>2, <1>3, <1>4, <1>5, <1>6 DEF Next, Loop

(* Inv, in every state: requests in the queue, on the wire and on their    *)
(* way, and what has become of them, belong together.                      *)
THEOREM Invariance == Spec => []Inv
<1>1. Init => Inv
  BY InitInv
<1>2. Inv /\ [Next]_vars => Inv'
  BY NextInv
<1>. QED  BY <1>1, <1>2, PTL DEF Spec

LEMMA NextBounded ==
  Inv /\ BoundedRetransmission /\ [Next]_vars => BoundedRetransmission'
<1>. SUFFICES ASSUME Inv, BoundedRetransmission, [Next]_vars
              PROVE  BoundedRetransmission'
  OBVIOUS
<1>1. Inv'
  BY NextInv
<1>2. CASE UNCHANGED sends
  BY <1>1, <1>2 DEF BoundedRetransmission, Attempts
<1>3. CASE PollOne
  <2>. SUFFICES ASSUME sends' # sends PROVE BoundedRetransmission'
    BY <1>1, <1>2
  <2>1. QueueAfterTimeout # <<>> /\ SendWrite(Head(QueueAfterTimeout))
    BY <1>3 DEF PollOne, SendRead, SendNothing
  <2>2. /\ writes' = QueueAfterTimeout
        /\ writes' \in Seq(WriteReq) /\ writes' # <<>>
        /\ retry' \in 0..2
        /\ sends \in [Request -> Nat]
    BY <1>3, <2>1, TimeOutStep DEF PollOne, Inv, DriverOK
  <2>3. Head(writes') = writes'[1] /\ writes'[1] \in WriteReq
    BY <2>2, TailFacts
  <2>4. /\ sends' = [sends EXCEPT ![writes'[1].raw] = @ + 1]
        /\ pend'.on /\ IsWrite(pend'.fc)
    BY <2>1, <2>2, <2>3, CatalogTyped DEF SendWrite, IsWrite
  <2>5. sends'[writes'[1].raw] <= retry' + 1
    BY <1>1, <2>2, <2>4 DEF Inv, AttemptsInv
  <2>6. \A w \in Request : w # writes'[1].raw => sends'[w] = sends[w]
    BY <2>2, <2>4
  <2>7. writes'[1].raw \in Request
    BY <2>3 DEF WriteReq
  <2>8. sends' \in [Request -> Nat]
    BY <1>1 DEF Inv, DriverOK
  <2>9. \A w \in Request : sends'[w] <= 3
    BY SMTT(30), <2>2, <2>5, <2>6, <2>7, <2>8 DEF BoundedRetransmission, Attempts
  <2>. QED  BY <2>9 DEF BoundedRetransmission, Attempts
<1>4. UNCHANGED sends \/ PollOne
  BY DEF Next, Loop, LoopReceive, LoopPollDue, LoopPollNotDue, QueueWrite,
         Pump, Answer, Garble, Decline, LoseRequest, LoseAnswer, vars, history
<1>. QED  BY <1>1, <1>2, <1>3, <1>4

(* No write request is transmitted more than three times, whatever the     *)
(* line and the pump do and however the picker fills the queue meanwhile.  *)
THEOREM Retransmission == Spec => []BoundedRetransmission
<1>1. Init => BoundedRetransmission
  BY DEF Init, BoundedRetransmission, Attempts
<1>. QED  BY <1>1, InitInv, NextInv, NextBounded, PTL DEF Spec

(* A pending read is for the register under the cursor, and while a write  *)
(* is pending the queue is not empty: fail_ and poll_one_ never advance    *)
(* the cursor past a register that was not asked for, and every pop on the *)
(* outcome of a write pops something.                                      *)
THEOREM Targets == Spec => []RequestHasTarget
BY Invariance, PTL DEF Inv

-----------------------------------------------------------------------------
(* Part 2: the driver implements WriteService, with QueueCap requests that *)
(* can wait and three attempts.  It decides by the front of writes_,       *)
(* WriteService by the oldest request that waits.  That these are the      *)
(* same, and that as many wait as the queue is long, is Mirrors.           *)

RefInv ==
  /\ Inv
  /\ BoundedRetransmission
  /\ Mirrors(writes, Request, fate)

-----------------------------------------------------------------------------
LEMMA RequestsAreIntegers == Request \subseteq Int
  BY DEF Request

LEMMA SameWaiting ==
  ASSUME NEW f
  PROVE  Promise!Waiting(f) = WaitingOf(Request, f)
  BY DEF Promise!Waiting, Promise!Request, WaitingOf, Request

(* WriteService's own Cardinality is the same operator.                    *)
LEMMA SameCount ==
  ASSUME NEW S
  PROVE  Promise!Cardinality(S) = Cardinality(S)
  BY DEF Promise!Cardinality, Cardinality

LEMMA SameFresh == \A w \in Request : IsNext(w) <=> Fresh(w, Request, fate)
  BY DEF IsNext, Fresh

LEMMA RefTyped ==
  ASSUME RefInv
  PROVE  /\ writes \in Seq(WriteReq) /\ Len(writes) \in Nat
         /\ Len(writes) <= QueueCap
         /\ fate \in [Request -> Fate] /\ sends \in [Request -> Nat]
         /\ Mirrors(writes, Request, fate)
  BY LenProperties DEF RefInv, Inv, DriverOK

LEMMA FrontIsPromised ==
  ASSUME NEW q \in Seq(WriteReq), NEW f, Mirrors(q, Request, f), q # <<>>
  PROVE  Head(q).raw \in Request /\ Promise!IsOldest(Head(q).raw, f)
<1>1. /\ Head(q).raw \in WaitingOf(Request, f)
      /\ \A v \in WaitingOf(Request, f) : Head(q).raw <= v
  BY FrontIsOldest, RequestsAreIntegers
<1>. QED  BY <1>1, SameWaiting DEF Promise!IsOldest, WaitingOf

-----------------------------------------------------------------------------
(* queue_write()                                                           *)
LEMMA QueueWriteRefines ==
  ASSUME RefInv, NEW w \in Request, NEW a \in WriteAddrs, QueueWrite(w, a)
  PROVE  /\ Mirrors(writes', Request, fate')
         /\ Promise!Refuse(w) \/ Promise!Accept(w)
<1>. DEFINE x == [addr |-> a, raw |-> w]
<1>0. /\ writes \in Seq(WriteReq) /\ Len(writes) \in Nat
      /\ Len(writes) <= QueueCap
      /\ fate \in [Request -> Fate]
      /\ Mirrors(writes, Request, fate)
      /\ QueueCap \in Nat \ {0}
  BY RefTyped, MasterAssumption
<1>1. /\ Fresh(w, Request, fate) /\ Promise!IsNext(w)
      /\ sends' = sends /\ fate[w] = "none"
  BY SameFresh DEF QueueWrite, IsNext, Promise!IsNext, Promise!Request, Request
<1>2. x \in WriteReq /\ x.raw = w
  BY MasterAssumption DEF WriteReq
<1>3. Promise!Cardinality(Promise!Waiting(fate)) = Len(writes)
  BY <1>0, LengthCounts, SameWaiting, SameCount, RequestsAreIntegers
<1>4. CASE ~IsWritable(a)
  <2>1. writes' = writes /\ fate' = [fate EXCEPT ![w] = "refused"]
    BY <1>4 DEF QueueWrite
  <2>2. Mirrors(writes', Request, fate')
    BY <1>0, <1>1, <2>1, RefuseMirrors, RequestsAreIntegers
  <2>3. Promise!Refuse(w)
    BY <1>1, <2>1 DEF Promise!Refuse
  <2>. QED  BY <2>2, <2>3
<1>5. CASE IsWritable(a) /\ Len(writes) < QueueCap
  <2>1. writes' = Append(writes, x) /\ fate' = [fate EXCEPT ![w] = "queued"]
    BY <1>0, <1>5 DEF QueueWrite
  <2>2. Mirrors(writes', Request, fate')
    <3>. HIDE DEF x
    <3>. QED  BY <1>0, <1>1, <1>2, <2>1, PushMirrors, RequestsAreIntegers
  <2>3. Promise!Accept(w)
    BY <1>1, <1>3, <1>5, <2>1 DEF Promise!Accept
  <2>. QED  BY <2>2, <2>3
<1>6. CASE IsWritable(a) /\ Len(writes) >= QueueCap
  <2>. DEFINE v == Head(writes).raw
  <2>1. /\ writes' = Append(Tail(writes), x)
        /\ fate' = [fate EXCEPT ![w] = "queued", ![v] = "overflowed"]
    BY <1>0, <1>6 DEF QueueWrite
  <2>2. writes # <<>> /\ Len(writes) = QueueCap
    BY <1>0, <1>6, EmptySeq
  <2>3. v \in Request /\ Promise!IsOldest(v, fate)
    BY <1>0, <2>2, FrontIsPromised
  <2>. DEFINE f == [fate EXCEPT ![v] = "overflowed"]
  <2>4. v # w /\ Mirrors(Append(Tail(writes), x), Request, [f EXCEPT ![w] = "queued"])
    <3>1. Request \in SUBSET Int /\ "overflowed" \in Fate
      BY RequestsAreIntegers DEF Fate
    <3>. HIDE DEF x
    <3>. QED  BY <1>0, <1>1, <1>2, <2>2, <3>1, OverflowMirrors
  <2>5. /\ fate' = [fate EXCEPT ![v] = "overflowed", ![w] = "queued"]
        /\ fate' = [f EXCEPT ![w] = "queued"]
    <3>. HIDE DEF v
    <3>. QED  BY <1>0, <2>1, <2>3, <2>4
  <2>6. Mirrors(writes', Request, fate')
    <3>. HIDE DEF x, f
    <3>. QED  BY <2>1, <2>4, <2>5
  <2>7. Promise!Accept(w)
    <3>. HIDE DEF v
    <3>. QED  BY <1>1, <1>3, <2>2, <2>3, <2>5
              DEF Promise!Accept, Promise!Request, Request
  <2>. QED  BY <2>6, <2>7
<1>. QED  BY <1>0, <1>4, <1>5, <1>6

(* The front leaves the queue, for good or ill.                            *)
LEMMA PopRefines ==
  ASSUME RefInv, writes # <<>>, NEW o \in {"acked", "abandoned"},
         writes' = Tail(writes),
         fate' = [fate EXCEPT ![Head(writes).raw] = o]
  PROVE  /\ Mirrors(writes', Request, fate')
         /\ Promise!Conclude(fate')
<1>0. o # "queued" /\ o # "none"
  OBVIOUS
<1>1. Mirrors(writes', Request, fate')
  <2>1. /\ writes \in Seq(WriteReq) /\ fate \in [Request -> Fate]
        /\ Mirrors(writes, Request, fate) /\ Request \in SUBSET Int
    BY RefTyped, RequestsAreIntegers
  <2>2. Mirrors(Tail(writes), Request, [fate EXCEPT ![Head(writes).raw] = o])
    BY <1>0, <2>1, PopMirrors
  <2>. QED  BY <2>2
<1>2. Head(writes).raw \in Request /\ Promise!IsOldest(Head(writes).raw, fate)
  BY RefTyped, FrontIsPromised
<1>3. Promise!Conclude(fate')
  <2>1. o \in Promise!Finished
    BY DEF Promise!Finished
  <2>2. Head(writes).raw \in Promise!Request
    BY <1>2 DEF Promise!Request, Request
  <2>. QED  BY <1>2, <2>1, <2>2 DEF Promise!Conclude
<1>. QED  BY <1>1, <1>3

LEMMA PopWriteRefines ==
  ASSUME RefInv, NEW o \in {"acked", "abandoned"}, PopWrite(o), UNCHANGED sends
  PROVE  /\ Mirrors(writes', Request, fate')
         /\ Promise!ConcludeOnly \/ UNCHANGED Promise!vars
<1>1. CASE writes = <<>>
  BY <1>1, RefTyped DEF PopWrite, Promise!vars
<1>2. CASE writes # <<>>
  <2>1. /\ writes' = Tail(writes)
        /\ fate' = [fate EXCEPT ![Head(writes).raw] = o]
    BY <1>2 DEF PopWrite
  <2>. QED  BY <1>2, <2>1, PopRefines DEF Promise!ConcludeOnly
<1>. QED  BY <1>1, <1>2

(* A step that leaves the queue alone is a stutter.                        *)
LEMMA QuietRefines ==
  ASSUME RefInv, UNCHANGED <<writes, fate, sends>>
  PROVE  /\ Mirrors(writes', Request, fate')
         /\ UNCHANGED Promise!vars
  BY RefTyped DEF Promise!vars

(* on_modbus_frame_()                                                      *)
LEMMA FrameRefines ==
  ASSUME RefInv, NEW f, OnModbusFrame(f), UNCHANGED sends
  PROVE  /\ Mirrors(writes', Request, fate')
         /\ Promise!ConcludeOnly \/ UNCHANGED Promise!vars
<1>1. CASE Ignore
  BY <1>1, QuietRefines DEF Ignore
<1>2. CASE Fail
  <2>1. PopWrite("abandoned") \/ UNCHANGED <<writes, fate>>
    BY <1>2 DEF Fail
  <2>. QED  BY <2>1, PopWriteRefines, QuietRefines
<1>3. CASE AcceptRead(f)
  BY <1>3, QuietRefines DEF AcceptRead
<1>4. CASE AcceptEcho
  BY <1>4, PopWriteRefines DEF AcceptEcho
<1>. QED  BY <1>1, <1>2, <1>3, <1>4 DEF OnModbusFrame

LEMMA ReceiveRefines ==
  ASSUME RefInv, NEW k, LoopReceive(k)
  PROVE  /\ Mirrors(writes', Request, fate')
         /\ Promise!ConcludeOnly \/ UNCHANGED Promise!vars
<1>0. UNCHANGED sends
  BY DEF LoopReceive
<1>1. Ignore \/ \E s : Parse(s)
  BY DEF LoopReceive
<1>2. Ignore \/ \E f : OnModbusFrame(f)
  BY <1>1 DEF Parse
<1>. QED  BY <1>0, <1>2, FrameRefines, QuietRefines DEF Ignore

(* poll_one_()                                                             *)
LEMMA PollRefines ==
  ASSUME RefInv, PollOne, Inv', BoundedRetransmission'
  PROVE  /\ Mirrors(writes', Request, fate')
         /\ \/ Promise!ConcludeOnly
            \/ Promise!TransmitOnly
            \/ Promise!ConcludeThenTransmit
            \/ UNCHANGED Promise!vars
<1>0. sends \in [Request -> Nat]
  BY RefTyped
<1>1. \/ writes # <<>> /\ Promise!Conclude(fate')
      \/ fate' = fate
  <2>1. CASE Expired /\ writes # <<>>
    <3>1. /\ writes' = Tail(writes)
          /\ fate' = [fate EXCEPT ![Head(writes).raw] = "abandoned"]
      BY <2>1 DEF PollOne, TimeOut, QueueAfterTimeout
    <3>. QED  BY <2>1, <3>1, PopRefines
  <2>2. CASE ~(Expired /\ writes # <<>>)
    BY <2>2 DEF PollOne, TimeOut
  <2>. QED  BY <2>1, <2>2
<1>2. Mirrors(writes', Request, fate')
  <2>1. CASE Expired /\ writes # <<>>
    <3>1. /\ writes' = Tail(writes)
          /\ fate' = [fate EXCEPT ![Head(writes).raw] = "abandoned"]
      BY <2>1 DEF PollOne, TimeOut, QueueAfterTimeout
    <3>. QED  BY <2>1, <3>1, PopRefines
  <2>2. CASE ~(Expired /\ writes # <<>>)
    BY <2>2, RefTyped DEF PollOne, TimeOut, QueueAfterTimeout
  <2>. QED  BY <2>1, <2>2
<1>3. sends' = sends \/ Promise!Transmit(fate')
  <2>. SUFFICES ASSUME sends' # sends PROVE Promise!Transmit(fate')
    OBVIOUS
  <2>1. writes' = QueueAfterTimeout /\ writes' # <<>> /\ SendWrite(Head(writes'))
    BY DEF PollOne, TimeOut, SendRead, SendNothing
  <2>2. writes' \in Seq(WriteReq)
    BY DEF Inv, DriverOK
  <2>. DEFINE w == Head(writes').raw
  <2>3. w \in Request /\ Promise!IsOldest(w, fate')
    BY <1>2, <2>1, <2>2, FrontIsPromised
  <2>4. sends' = [sends EXCEPT ![w] = @ + 1]
    BY <2>1 DEF SendWrite
  <2>5. sends[w] < Attempts
    BY <1>0, <2>3, <2>4 DEF BoundedRetransmission, Attempts
  <2>. HIDE DEF w
  <2>. QED  BY <2>3, <2>4, <2>5 DEF Promise!Transmit, Promise!Request, Request
<1>. QED  BY <1>1, <1>2, <1>3
          DEF Promise!ConcludeOnly, Promise!TransmitOnly,
              Promise!ConcludeThenTransmit, Promise!vars

-----------------------------------------------------------------------------
LEMMA InitRefines == Init => RefInv /\ Promise!Init
<1>. SUFFICES ASSUME Init PROVE RefInv /\ Promise!Init
  OBVIOUS
<1>1. Inv
  BY InitInv
<1>2. BoundedRetransmission
  BY DEF Init, BoundedRetransmission, Attempts
<1>3. Mirrors(writes, Request, fate)
  BY DEF Init, Mirrors, WaitingOf
<1>4. Promise!Init
  BY DEF Init, Promise!Init, Promise!Request, Request
<1>. QED  BY <1>1, <1>2, <1>3, <1>4 DEF RefInv

LEMMA NextRefines ==
  RefInv /\ [Next]_vars => RefInv' /\ [Promise!Next]_(Promise!vars)
<1>. SUFFICES ASSUME RefInv, [Next]_vars
              PROVE  RefInv' /\ [Promise!Next]_(Promise!vars)
  OBVIOUS
<1>0. Inv' /\ BoundedRetransmission'
  BY NextInv, NextBounded DEF RefInv
<1>1. CASE \E w \in Request, a \in WriteAddrs : QueueWrite(w, a)
  BY <1>0, <1>1, QueueWriteRefines DEF RefInv, Promise!Next, Promise!Request, Request
<1>2. CASE \E k \in 0..Len(uart) : LoopReceive(k)
  BY <1>0, <1>2, ReceiveRefines DEF RefInv, Promise!Next
<1>3. CASE LoopPollDue
  BY <1>0, <1>3, PollRefines DEF LoopPollDue, RefInv, Promise!Next
<1>4. CASE LoopPollNotDue \/ Pump \/ UNCHANGED vars
  <2>1. UNCHANGED <<writes, fate, sends>>
    BY <1>4 DEF LoopPollNotDue, Pump, Answer, Garble, Decline, LoseRequest,
                LoseAnswer, history, driver, vars
  <2>. QED  BY <1>0, <2>1, QuietRefines DEF RefInv
<1>. QED  BY <1>1, <1>2, <1>3, <1>4 DEF Next, Loop

(* queue_write(), the timeouts and the echoes together keep the promise    *)
(* about writes: requests leave in order, each once, at most three times   *)
(* on the wire, the oldest giving way when the queue is full.              *)
THEOREM Implementation == Spec => ImplementsWriteService
<1>. QED  BY InitRefines, NextRefines, PTL DEF Spec, ImplementsWriteService, Promise!Spec

-----------------------------------------------------------------------------
Promised == INSTANCE WriteService_proof WITH Cap <- QueueCap, MaxAttempts <- Attempts

(* So whatever WriteService guarantees holds of the driver: no request is  *)
(* sent while an older one waits in writes_.                               *)
THEOREM NoOvertaking == Spec => []Promise!InOrder
<1>1. Promise!Init => Promised!Init
  BY DEF Promise!Init, Promised!Init, Promise!Request, Promised!Request
<1>2. [Promise!Next]_(Promise!vars) => [Promised!Next]_(Promised!vars)
  BY DEF Promise!Next, Promise!vars, Promise!Refuse, Promise!Accept, Promise!IsNext,
         Promise!Waiting, Promise!IsOldest, Promise!Conclude, Promise!Transmit,
         Promise!ConcludeOnly, Promise!TransmitOnly, Promise!ConcludeThenTransmit,
         Promise!TransmitAndConclude, Promise!Request, Promise!Finished,
         Promise!Cardinality,
         Promised!Next, Promised!vars, Promised!Refuse, Promised!Accept, Promised!IsNext,
         Promised!Waiting, Promised!IsOldest, Promised!Conclude, Promised!Transmit,
         Promised!ConcludeOnly, Promised!TransmitOnly, Promised!ConcludeThenTransmit,
         Promised!TransmitAndConclude, Promised!Request, Promised!Finished,
         Promised!Cardinality
<1>3. Promised!InOrder => Promise!InOrder
  BY DEF Promise!InOrder, Promised!InOrder, Promise!Request, Promised!Request
<1>. QED  BY <1>1, <1>2, <1>3, Promised!Ordering, Implementation, PTL
          DEF ImplementsWriteService, Promise!Spec, Promised!Spec

-----------------------------------------------------------------------------
(* What this means for the pump.  The requests that are under way to it    *)
(* are in the order in which they were issued, none older than the last    *)
(* one it carried out; and since no request is sent while an older one     *)
(* waits, the next one is as young as any that was ever sent.              *)
SentIn(s) == {w \in Request : s[w] > 0}

WritesIn(b) == {i \in 1..Len(b) : IsWrite(b[i].fc)}

InOrderUpTo(b, s, l) ==
  /\ b \in Seq(BusReq)
  /\ l \in Nat
  /\ \A i \in WritesIn(b) : b[i].data \in SentIn(s) /\ l <= b[i].data
  /\ \A i, j \in WritesIn(b) : i < j => b[i].data <= b[j].data
  /\ l # 0 => l \in SentIn(s)

InboxInv == InOrderUpTo(inbox, sends, latest)

LEMMA WordsAreNaturals == \A n : n \in Word <=> n \in Nat /\ n < 65536
<1>. DEFINE m == 65535
<1>1. m \in Nat /\ \A n \in Nat : n < 65536 <=> n <= m
  OBVIOUS
<1>2. Word = 0..m
  BY DEF Word
<1>. HIDE DEF m
<1>3. \A n : n \in 0..m <=> n \in Nat /\ n <= m
  BY <1>1
<1>. QED  BY <1>1, <1>2, <1>3

LEMMA ModIsWord == \A n \in Nat : n % 65536 \in Word
<1>1. ASSUME NEW n \in Nat PROVE n % 65536 \in Nat /\ n % 65536 < 65536
  OBVIOUS
<1>. QED  BY <1>1, WordsAreNaturals

LEMMA DataAreNaturals == ASSUME NEW r \in BusReq PROVE r.data \in Nat
<1>1. r.data \in Word
  BY DEF BusReq
<1>. QED  BY <1>1, WordsAreNaturals

LEMMA NextInboxInv == InboxInv' <=> InOrderUpTo(inbox', sends', latest')
  BY DEF InboxInv, InOrderUpTo, WritesIn, SentIn, IsWrite

(* One more request, and one more transmission.                            *)
LEMMA PushInOrder ==
  ASSUME NEW b, NEW s, NEW l, InOrderUpTo(b, s, l),
         NEW t, SentIn(s) \subseteq SentIn(t),
         NEW req \in BusReq,
         IsWrite(req.fc) => req.data \in SentIn(t) /\ \A w \in SentIn(s) : w <= req.data
  PROVE  InOrderUpTo(b, t, l) /\ InOrderUpTo(Append(b, req), t, l)
<1>1. /\ b \in Seq(BusReq) /\ l \in Nat
      /\ \A i \in WritesIn(b) : b[i].data \in SentIn(s) /\ l <= b[i].data
      /\ \A i, j \in WritesIn(b) : i < j => b[i].data <= b[j].data
      /\ l # 0 => l \in SentIn(s)
  BY DEF InOrderUpTo
<1>2. InOrderUpTo(b, t, l)
  BY <1>1 DEF InOrderUpTo
<1>. DEFINE c == Append(b, req)
<1>3. /\ c \in Seq(BusReq) /\ Len(c) = Len(b) + 1 /\ Len(b) \in Nat
      /\ \A i \in 1..Len(b) : c[i] = b[i]
      /\ c[Len(b) + 1] = req
  BY <1>1, AppendFacts
<1>. HIDE DEF c
<1>4. ASSUME NEW i \in WritesIn(c)
      PROVE  \/ i \in WritesIn(b) /\ c[i] = b[i]
             \/ i = Len(b) + 1 /\ c[i] = req /\ IsWrite(req.fc)
  <2>1. i \in 1..Len(c) /\ IsWrite(c[i].fc)
    BY DEF WritesIn
  <2>2. i \in 1..Len(b) \/ i = Len(b) + 1
    BY <1>3, <2>1
  <2>. QED  BY <1>3, <2>1, <2>2 DEF WritesIn
<1>5. req.data \in Nat
  BY DataAreNaturals
<1>6. IsWrite(req.fc) => l <= req.data
  BY <1>1, <1>5
<1>7. \A i \in WritesIn(c) : c[i].data \in SentIn(t) /\ l <= c[i].data
  BY <1>1, <1>4, <1>6
<1>8. ASSUME NEW i \in WritesIn(c), NEW j \in WritesIn(c), i < j
      PROVE  c[i].data <= c[j].data
  <2>1. CASE j \in WritesIn(b) /\ c[j] = b[j]
    <3>1. i # Len(b) + 1
      BY <1>3, <1>8, <2>1 DEF WritesIn
    <3>. QED  BY <1>1, <1>4, <1>8, <2>1, <3>1
  <2>2. CASE j = Len(b) + 1 /\ c[j] = req /\ IsWrite(req.fc)
    <3>0. i # Len(b) + 1
      BY <1>3, <1>8, <2>2
    <3>1. i \in WritesIn(b) /\ c[i] = b[i]
      BY <1>4, <3>0
    <3>. QED  BY <1>1, <2>2, <3>1
  <2>. QED  BY <1>4, <2>1, <2>2
<1>9. InOrderUpTo(c, t, l)
  BY <1>1, <1>3, <1>7, <1>8 DEF InOrderUpTo
<1>. QED  BY <1>2, <1>9 DEF c

(* The pump takes a request, and carries it out or not.                    *)
LEMMA TakeInOrder ==
  ASSUME NEW b, NEW s, NEW l, InOrderUpTo(b, s, l), b # <<>>
  PROVE  /\ InOrderUpTo(Tail(b), s, l)
         /\ IsWrite(Head(b).fc) =>
              Head(b).data >= l /\ InOrderUpTo(Tail(b), s, Head(b).data)
<1>1. /\ b \in Seq(BusReq) /\ l \in Nat
      /\ \A i \in WritesIn(b) : b[i].data \in SentIn(s) /\ l <= b[i].data
      /\ \A i, j \in WritesIn(b) : i < j => b[i].data <= b[j].data
      /\ l # 0 => l \in SentIn(s)
  BY DEF InOrderUpTo
<1>. DEFINE c == Tail(b)
<1>2. /\ c \in Seq(BusReq) /\ Len(c) = Len(b) - 1
      /\ \A i \in 1..Len(c) : c[i] = b[i + 1]
      /\ Head(b) = b[1] /\ Head(b) \in BusReq /\ Len(b) \in Nat \ {0}
  BY <1>1, TailFacts
<1>. HIDE DEF c
<1>3. ASSUME NEW i \in WritesIn(c)
      PROVE  i + 1 \in WritesIn(b) /\ i + 1 > 1 /\ c[i] = b[i + 1] /\ i \in Int
  BY <1>2 DEF WritesIn
<1>4. \A i, j \in WritesIn(c) : i < j => c[i].data <= c[j].data
  <2>. SUFFICES ASSUME NEW i \in WritesIn(c), NEW j \in WritesIn(c), i < j
                PROVE  c[i].data <= c[j].data
    OBVIOUS
  <2>1. i + 1 < j + 1
    BY <1>3
  <2>. QED  BY <1>1, <1>3, <2>1
<1>5. InOrderUpTo(c, s, l)
  BY <1>1, <1>2, <1>3, <1>4 DEF InOrderUpTo
<1>6. ASSUME IsWrite(Head(b).fc)
      PROVE  Head(b).data >= l /\ InOrderUpTo(c, s, Head(b).data)
  <2>1. 1 \in WritesIn(b) /\ Head(b).data = b[1].data /\ Head(b).data \in Nat
    BY <1>2, <1>6, DataAreNaturals DEF WritesIn
  <2>2. \A i \in WritesIn(c) : c[i].data \in SentIn(s) /\ b[1].data <= c[i].data
    BY <1>1, <1>3, <2>1
  <2>. QED  BY <1>1, <1>2, <1>4, <2>1, <2>2 DEF InOrderUpTo
<1>. QED  BY <1>5, <1>6 DEF c

-----------------------------------------------------------------------------
(* The front of the queue that goes out, and what was sent before.         *)
LEMMA NewestIsSent ==
  ASSUME RefInv', Promise!InOrder', PollOne, RefInv,
         SendWrite(Head(QueueAfterTimeout)), QueueAfterTimeout # <<>>
  PROVE  /\ Head(writes').raw \in Request
         /\ writes' = QueueAfterTimeout
         /\ sends' = [sends EXCEPT ![Head(writes').raw] = @ + 1]
         /\ \A v \in SentIn(sends) : v <= Head(writes').raw
<1>1. writes' = QueueAfterTimeout /\ writes' \in Seq(WriteReq)
  BY DEF PollOne, TimeOut, RefInv, Inv, DriverOK
<1>. DEFINE w == Head(writes').raw
<1>2. w \in Request /\ Promise!IsOldest(w, fate')
  BY <1>1, FrontIsPromised DEF RefInv
<1>3. fate'[w] = "queued"
  BY <1>2 DEF Promise!IsOldest, Promise!Waiting
<1>4. sends' = [sends EXCEPT ![w] = @ + 1] /\ sends \in [Request -> Nat]
  BY <1>1, RefTyped DEF SendWrite
<1>5. ASSUME NEW v \in SentIn(sends) PROVE v <= w
  <2>1. v \in Request /\ sends[v] > 0 /\ v \in Int /\ w \in Int
    BY <1>2, RequestsAreIntegers DEF SentIn
  <2>2. CASE w < v
    <3>1. sends'[v] = 0
      BY <1>2, <1>3, <2>1, <2>2 DEF Promise!InOrder, Promise!Request, Request
    <3>2. sends'[v] = sends[v]
      BY <1>2, <1>4, <2>1, <2>2
    <3>. QED  BY <2>1, <3>1, <3>2
  <2>. QED  BY <2>1, <2>2
<1>. HIDE DEF w
<1>. QED  BY <1>1, <1>2, <1>4, <1>5 DEF w

(* The requests on the wire have the right shape.                          *)
LEMMA WireIsWord ==
  ASSUME NEW a \in Word
  PROVE  Wire(a) \in Word
<1>1. a - 1 \in Int
  BY WordsAreNaturals
<1>2. \A n \in Int : n % 65536 \in Nat /\ n % 65536 < 65536
  OBVIOUS
<1>3. Wire(a) \in Nat /\ Wire(a) < 65536
  BY <1>1, <1>2 DEF Wire
<1>. QED  BY <1>3, WordsAreNaturals

LEMMA RequestsAreWords == Request \subseteq Word
<1>1. MaxWrites \in Nat /\ MaxWrites < 65536
  BY MasterAssumption, WordsAreNaturals
<1>2. \A n \in Request : n \in Nat /\ n < 65536
  BY <1>1 DEF Request
<1>. QED  BY <1>2, WordsAreNaturals

LEMMA PollKeepsOrder ==
  ASSUME RefInv, RefInv', Promise!InOrder', PollOne, InboxInv
  PROVE  InboxInv' /\ latest' = latest
<1>0. /\ latest' = latest /\ InOrderUpTo(inbox, sends, latest)
      /\ sends \in [Request -> Nat]
  BY RefTyped DEF PollOne, InboxInv
<1>1. CASE UNCHANGED <<inbox, sends>>
  BY <1>0, <1>1, NextInboxInv
<1>2. CASE QueueAfterTimeout # <<>> /\ SendWrite(Head(QueueAfterTimeout))
  <2>. DEFINE w == Head(writes')
              c == IF Wide(w.addr) THEN 16 ELSE WriteFc
              req == [fc |-> c, wire |-> Wire(w.addr), cnt |-> Words(w.addr), data |-> w.raw]
  <2>1. /\ w.raw \in Request /\ writes' = QueueAfterTimeout
        /\ sends' = [sends EXCEPT ![w.raw] = @ + 1]
        /\ \A v \in SentIn(sends) : v <= w.raw
    BY <1>2, NewestIsSent
  <2>2. w \in WriteReq
    <3>1. writes' \in Seq(WriteReq) /\ writes' # <<>>
      BY <1>2, <2>1 DEF RefInv, Inv, DriverOK
    <3>. QED  BY <3>1, TailFacts
  <2>3. req \in BusReq /\ req.data = w.raw
    <3>1. w.addr \in Word /\ w.raw \in Word
      BY <2>1, <2>2, RequestsAreWords DEF WriteReq
    <3>2. c \in {6, 16} /\ Words(w.addr) \in {1, 2} /\ Wire(w.addr) \in Word
      BY <3>1, CatalogTyped, WireIsWord
    <3>. HIDE DEF c, w
    <3>. QED  BY <3>1, <3>2 DEF BusReq
  <2>4. Tx(req)
    BY <1>2, <2>1 DEF SendWrite
  <2>5. SentIn(sends) \subseteq SentIn(sends') /\ w.raw \in SentIn(sends')
    <3>. DEFINE n == w.raw
    <3>1. n \in Request /\ sends' = [sends EXCEPT ![n] = @ + 1]
      BY <2>1
    <3>. HIDE DEF n
    <3>2. /\ \A v \in Request : v # n => sends'[v] = sends[v]
          /\ sends'[n] > 0
      BY <1>0, <3>1
    <3>3. SentIn(sends) \subseteq SentIn(sends') /\ n \in SentIn(sends')
      BY <3>1, <3>2 DEF SentIn
    <3>. QED  BY <3>3 DEF n
  <2>6. /\ InOrderUpTo(inbox, sends', latest)
        /\ InOrderUpTo(Append(inbox, req), sends', latest)
    <3>. HIDE DEF req
    <3>. QED  BY <1>0, <2>1, <2>3, <2>5, PushInOrder
  <2>. HIDE DEF req
  <2>. QED  BY <1>0, <2>4, <2>6, NextInboxInv DEF Tx
<1>3. CASE Polled # <<>> /\ SendRead(Polled[IdxAfterTimeout + 1])
  <2>. DEFINE a == Polled[IdxAfterTimeout + 1]
              req == [fc |-> ReadFc(a), wire |-> Wire(a), cnt |-> Words(a), data |-> 0]
  <2>1. a \in Word
    <3>1. pollIdx' = IdxAfterTimeout /\ pollIdx' \in Nat /\ pollIdx' < Len(Polled)
      BY <1>3, TimeOutStep DEF PollOne, RefInv
    <3>2. IdxAfterTimeout + 1 \in 1..Len(Polled)
      BY <3>1, MasterAssumption, LenProperties
    <3>. QED  BY <3>2, MasterAssumption, ElementOfSeq
  <2>2. req \in BusReq /\ ~IsWrite(req.fc)
    <3>1. ReadFc(a) \in {3, 4} /\ Words(a) \in {1, 2} /\ Wire(a) \in Word /\ 0 \in Word
      BY <2>1, CatalogTyped, WireIsWord, WordsAreNaturals
    <3>. HIDE DEF a
    <3>. QED  BY <3>1 DEF BusReq, IsWrite
  <2>3. Tx(req) /\ sends' = sends
    BY <1>3 DEF SendRead
  <2>4. /\ InOrderUpTo(inbox, sends', latest)
        /\ InOrderUpTo(Append(inbox, req), sends', latest)
    <3>. HIDE DEF req
    <3>. QED  BY <1>0, <2>2, <2>3, PushInOrder
  <2>. HIDE DEF req
  <2>. QED  BY <1>0, <2>3, <2>4, NextInboxInv DEF Tx
<1>4. CASE SendNothing
  BY <1>1, <1>4 DEF SendNothing
<1>. QED  BY <1>2, <1>3, <1>4 DEF PollOne

LEMMA PumpKeepsOrder ==
  ASSUME InboxInv, Pump
  PROVE  InboxInv' /\ latest' >= latest
<1>1. /\ inbox # <<>> /\ inbox' = Tail(inbox) /\ sends' = sends
      /\ \/ latest' = latest
         \/ IsWrite(Head(inbox).fc) /\ latest' = Head(inbox).data
  BY DEF Pump, Answer, Garble, Decline, LoseRequest, LoseAnswer, LineFree, history,
         CarryOut
<1>2. latest \in Nat /\ InOrderUpTo(inbox, sends, latest)
  BY DEF InboxInv, InOrderUpTo
<1>3. CASE latest' = latest
  BY <1>1, <1>2, <1>3, TakeInOrder, NextInboxInv
<1>4. CASE IsWrite(Head(inbox).fc) /\ latest' = Head(inbox).data
  BY <1>1, <1>2, <1>4, TakeInOrder, NextInboxInv
<1>. QED  BY <1>1, <1>3, <1>4

LEMMA NextKeepsOrder ==
  RefInv /\ RefInv' /\ Promise!InOrder' /\ InboxInv /\ [Next]_vars
    => InboxInv' /\ latest' >= latest
<1>. SUFFICES ASSUME RefInv, RefInv', Promise!InOrder', InboxInv, [Next]_vars
              PROVE  InboxInv' /\ latest' >= latest
  OBVIOUS
<1>0. latest \in Nat
  BY DEF InboxInv, InOrderUpTo
<1>1. CASE LoopPollDue
  BY <1>0, <1>1, PollKeepsOrder DEF LoopPollDue
<1>2. CASE Pump
  BY <1>2, PumpKeepsOrder
<1>3. CASE UNCHANGED <<inbox, sends, latest>>
  BY <1>0, <1>3, NextInboxInv DEF InboxInv
<1>. QED  BY <1>1, <1>2, <1>3
          DEF Next, Loop, LoopReceive, LoopPollNotDue, QueueWrite, line, history, vars

(* Retries, timeouts, a full queue, and answers and requests that are late *)
(* or lost never take the pump back to an older command.                   *)
THEOREM Forwards == Spec => NeverBackwards
<1>1. Init => InboxInv
  BY DEF Init, InboxInv, InOrderUpTo, WritesIn
<1>2. RefInv /\ RefInv' /\ Promise!InOrder' /\ InboxInv /\ [Next]_vars
        => [latest' >= latest]_vars
  BY NextKeepsOrder
<1>. QED  BY <1>1, <1>2, InitRefines, NextRefines, NextKeepsOrder, NoOvertaking, PTL
          DEF Spec, NeverBackwards

-----------------------------------------------------------------------------
(* Part 3: the bytes on the line.  What the pump sends in answer to a      *)
(* request, and what loop() makes of it however it is cut up.              *)

ChecksumIsWord == \A s \in Seq(Byte) : Checksum(s) \in Word

ReadOf(a) ==
  [fc |-> ReadFc(a), wire |-> Wire(a), cnt |-> Words(a), data |-> 0]

Reads  == {ReadOf(Polled[i]) : i \in 1..Len(Polled)}
Writes == [fc : {6, 16}, wire : Word, cnt : {1, 2}, data : Request]

Refusal(q) == Framed(<<Slave, Exception(q.fc), 2>>)

NumberIn(f, cnt) ==
  IF cnt = 2
  THEN (f[4] * 256 + f[5]) * 65536 + f[6] * 256 + f[7]
  ELSE f[4] * 256 + f[5]

LEMMA SlaveIsByte == Slave \in Byte /\ 2 \in Byte /\ 0 \in Byte
  BY SMTT(30), MasterAssumption DEF Byte

LEMMA WordIsTwoBytes ==
  ASSUME NEW x \in Word
  PROVE  Hi(x) \in Byte /\ Lo(x) \in Byte /\ Hi(x) * 256 + Lo(x) = x
  BY SMTT(30) DEF Word, Byte, Hi, Lo

LEMMA NumberIsTwoWords ==
  ASSUME NEW v \in Nat
  PROVE  /\ v % 65536 \in Word
         /\ (v \div 65536) * 65536 + (v % 65536) = v
<1>1. v % 65536 \in Word
  BY ModIsWord
<1>2. (v \div 65536) * 65536 + (v % 65536) = v
  OBVIOUS
<1>. QED  BY <1>1, <1>2

LEMMA RequestFacts ==
  ASSUME NEW q \in Reads \cup Writes
  PROVE  /\ q \in BusReq
         /\ q.fc \in Byte /\ Exception(q.fc) \in Byte
         /\ IsWrite(q.fc) <=> q \in Writes
         /\ IsRead(q.fc) <=> q \in Reads
<1>1. CASE q \in Reads
  <2>1. PICK i \in 1..Len(Polled) : q = ReadOf(Polled[i])
    BY <1>1 DEF Reads
  <2>. DEFINE a == Polled[i]
  <2>2. /\ ReadFc(a) \in {3, 4} /\ Words(a) \in {1, 2} /\ Wire(a) \in Word
        /\ 0 \in Word
    BY SMTT(30), <2>1, MasterAssumption, ElementOfSeq, CatalogTyped, WireIsWord, WordsAreNaturals
  <2>. HIDE DEF a
  <2>3. q = ReadOf(a)
    BY <2>1 DEF a
  <2>4. q \in BusReq /\ q.fc \in {3, 4}
    BY <2>2, <2>3 DEF ReadOf, BusReq
  <2>5. q \notin Writes /\ IsRead(q.fc) /\ ~IsWrite(q.fc)
    BY <2>4 DEF Writes, IsRead, IsWrite
  <2>6. q.fc \in Byte /\ Exception(q.fc) \in Byte
    <3>1. \A c \in {3, 4} : c \in Byte /\ Exception(c) \in Byte
      BY DEF Byte, Exception
    <3>. QED  BY <2>4, <3>1
  <2>. QED  BY <1>1, <2>4, <2>5, <2>6
<1>2. CASE q \in Writes
  <2>1. q \in BusReq
    BY <1>2, RequestsAreWords DEF Writes, BusReq
  <2>2. q.fc \in {6, 16}
    BY <1>2 DEF Writes
  <2>3. q.fc \in Byte /\ Exception(q.fc) \in Byte /\ IsWrite(q.fc) /\ ~IsRead(q.fc)
    BY <2>2 DEF Byte, Exception, IsRead, IsWrite
  <2>4. q \notin Reads
    <3>1. ASSUME NEW i \in 1..Len(Polled), q = ReadOf(Polled[i])
          PROVE  FALSE
      BY <2>2, <3>1, CatalogTyped DEF ReadOf
    <3>. QED  BY <3>1 DEF Reads
  <2>. QED  BY <1>2, <2>1, <2>3, <2>4
<1>. QED  BY <1>1, <1>2

\* s is a string of n bytes.
OfBytes(s, n) == n \in Nat /\ s \in Seq(Byte) /\ Len(s) = n

\* The first n bytes of s are those of t.
Begins(s, n, t) == \A i \in 1..n : s[i] = t[i]

\* The n bytes of s that follow the first m are those of t.
Continues(s, m, n, t) == \A i \in 1..n : s[m + i] = t[i]

LEMMA JoinedFacts ==
  ASSUME NEW s, NEW t, NEW m, NEW n, OfBytes(s, m), OfBytes(t, n)
  PROVE  /\ OfBytes(s \o t, m + n)
         /\ Begins(s \o t, m, s)
         /\ Continues(s \o t, m, n, t)
<1>0. s \in Seq(Byte) /\ t \in Seq(Byte) /\ m \in Nat /\ n \in Nat /\ Len(s) = m /\ Len(t) = n
  BY DEF OfBytes
<1>1. /\ s \o t \in Seq(Byte) /\ Len(s \o t) = m + n
      /\ \A i \in 1..m + n : (s \o t)[i] = IF i <= m THEN s[i] ELSE t[i - m]
  BY <1>0, ConcatProperties
<1>2. ASSUME NEW i \in 1..m PROVE (s \o t)[i] = s[i]
  <2>1. i \in 1..m + n /\ i <= m
    BY <1>0
  <2>. QED  BY <1>1, <2>1
<1>3. ASSUME NEW i \in 1..n PROVE (s \o t)[m + i] = t[i]
  <2>. DEFINE j == m + i
  <2>1. j \in 1..m + n /\ ~(j <= m) /\ j - m = i
    BY <1>0
  <2>. HIDE DEF j
  <2>2. (s \o t)[j] = t[j - m]
    BY <1>1, <2>1
  <2>. QED  BY <2>1, <2>2 DEF j
<1>4. OfBytes(s \o t, m + n)
  BY <1>0, <1>1 DEF OfBytes
<1>. QED  BY <1>2, <1>3, <1>4 DEF Begins, Continues

LEMMA Regrouped ==
  ASSUME NEW a, NEW b, NEW c, NEW i, NEW j, NEW k,
         OfBytes(a, i), OfBytes(b, j), OfBytes(c, k)
  PROVE  (a \o b) \o c = a \o (b \o c)
BY SMTT(30), ConcatAssociative DEF OfBytes

(* A body and two more bytes.                                              *)
LEMMA FramedFacts ==
  ASSUME ChecksumIsWord, NEW s, NEW n, OfBytes(s, n)
  PROVE  OfBytes(Framed(s), n + 2) /\ Begins(Framed(s), n, s)
<1>. DEFINE t == <<Lo(Checksum(s)), Hi(Checksum(s))>>
<1>1. Lo(Checksum(s)) \in Byte /\ Hi(Checksum(s)) \in Byte
  BY WordIsTwoBytes DEF ChecksumIsWord, OfBytes
<1>2. OfBytes(t, 2)
  BY <1>1 DEF OfBytes
<1>. HIDE DEF t
<1>3. Framed(s) = s \o t
  BY DEF Framed, t
<1>. QED  BY <1>2, <1>3, JoinedFacts

LEMMA RefusalFacts ==
  ASSUME ChecksumIsWord, NEW q \in Reads \cup Writes
  PROVE  /\ OfBytes(Refusal(q), 5)
         /\ Refusal(q)[1] = Slave /\ Refusal(q)[2] = Exception(q.fc)
<1>. DEFINE s == <<Slave, Exception(q.fc), 2>>
<1>1. OfBytes(s, 3) /\ s[1] = Slave /\ s[2] = Exception(q.fc)
  BY RequestFacts, SlaveIsByte DEF OfBytes
<1>. HIDE DEF s
<1>2. Refusal(q) = Framed(s)
  BY DEF Refusal, s
<1>3. OfBytes(Framed(s), 3 + 2) /\ Begins(Framed(s), 3, s)
  BY <1>1, FramedFacts
<1>. QED  BY <1>1, <1>2, <1>3 DEF Begins

LEMMA EchoFacts ==
  ASSUME ChecksumIsWord, NEW q \in Writes
  PROVE  LET f == Framed(Echo(q))
         IN  OfBytes(f, 8) /\ f[1] = Slave /\ f[2] = q.fc
<1>. DEFINE s == <<Slave, q.fc, Hi(q.wire), Lo(q.wire)>>
            t == IF q.fc = 6 THEN <<Hi(q.data), Lo(q.data)>> ELSE <<0, q.cnt>>
<1>1. q \in BusReq /\ q.fc \in Byte
  BY RequestFacts
<1>2. /\ Hi(q.wire) \in Byte /\ Lo(q.wire) \in Byte
      /\ Hi(q.data) \in Byte /\ Lo(q.data) \in Byte
  BY <1>1, WordIsTwoBytes DEF BusReq
<1>3. q.cnt \in Byte
  BY <1>1 DEF BusReq, Byte
<1>4. OfBytes(s, 4) /\ s[1] = Slave /\ s[2] = q.fc /\ OfBytes(t, 2)
  BY <1>1, <1>2, <1>3, SlaveIsByte DEF OfBytes
<1>. HIDE DEF s, t
<1>5. Echo(q) = s \o t
  BY DEF Echo, s, t
<1>6. OfBytes(s \o t, 4 + 2) /\ Begins(s \o t, 4, s)
  BY <1>4, JoinedFacts
<1>. DEFINE r == s \o t
<1>7. OfBytes(r, 6) /\ Begins(r, 4, s)
  BY <1>6
<1>. HIDE DEF r
<1>8. OfBytes(Framed(r), 6 + 2) /\ Begins(Framed(r), 6, r)
  BY <1>7, FramedFacts
<1>9. /\ r[1] = s[1] /\ r[2] = s[2]
      /\ Framed(r)[1] = r[1] /\ Framed(r)[2] = r[2]
  BY <1>7, <1>8 DEF Begins
<1>. QED  BY <1>4, <1>5, <1>8, <1>9 DEF r

LEMMA ReadReplyFacts ==
  ASSUME ChecksumIsWord, NEW q \in Reads, NEW v \in Content[Addr(q)]
  PROVE  LET f == Framed(ReadReply(q, v))
         IN  /\ OfBytes(f, 5 + 2 * q.cnt) /\ q.cnt \in {1, 2}
             /\ f[1] = Slave /\ f[2] = q.fc
             /\ NumberIn(f, q.cnt) = v
<1>. DEFINE up   == v \div 65536
            down == v % 65536
            s == <<Slave, q.fc, 2 * q.cnt>>
            t == IF q.cnt = 2 THEN <<Hi(up), Lo(up)>> ELSE <<>>
            u == <<Hi(down), Lo(down)>>
<1>1. PICK i \in 1..Len(Polled) : q = ReadOf(Polled[i])
  BY DEF Reads
<1>2. /\ v \in Nat /\ q.cnt \in {1, 2}
      /\ up \in Word /\ (q.cnt = 1 => up = 0)
  <2>1. q.wire = Wire(Polled[i]) /\ q.cnt = Words(Polled[i])
    BY <1>1 DEF ReadOf
  <2>2. i \in DOMAIN Polled
    BY MasterAssumption, LenProperties
  <2>3. v \in Nat /\ up \in IF Wide(Polled[i]) THEN Word ELSE {0}
    BY <2>1, <2>2, MasterAssumption DEF Addr
  <2>. QED  BY <2>1, <2>3, WordsAreNaturals DEF Words
<1>3. /\ down \in Word /\ up * 65536 + down = v
  BY <1>2, NumberIsTwoWords
<1>. HIDE DEF up, down
<1>4. /\ Hi(up) \in Byte /\ Lo(up) \in Byte /\ Hi(up) * 256 + Lo(up) = up
      /\ Hi(down) \in Byte /\ Lo(down) \in Byte /\ Hi(down) * 256 + Lo(down) = down
  BY <1>2, <1>3, WordIsTwoBytes
<1>5. q.fc \in Byte /\ 2 * q.cnt \in Byte
  BY SMTT(30), <1>2, RequestFacts DEF Byte
<1>6. /\ OfBytes(s, 3) /\ s[1] = Slave /\ s[2] = q.fc
      /\ OfBytes(u, 2) /\ u[1] = Hi(down) /\ u[2] = Lo(down)
  BY <1>4, <1>5, SlaveIsByte DEF OfBytes
<1>7. CASE q.cnt = 2
  <2>1. OfBytes(t, 2) /\ t[1] = Hi(up) /\ t[2] = Lo(up)
    BY <1>4, <1>7 DEF OfBytes
  <2>. HIDE DEF s, t, u
  <2>. DEFINE st == s \o t
              r  == st \o u
              f  == Framed(r)
  <2>2. /\ OfBytes(st, 3 + 2) /\ Begins(st, 3, s)
        /\ Continues(st, 3, 2, t)
    BY <1>6, <2>1, JoinedFacts
  <2>. HIDE DEF st
  <2>3. /\ OfBytes(r, 5 + 2) /\ Begins(r, 5, st)
        /\ Continues(r, 5, 2, u)
    <3>1. OfBytes(st, 5)
      BY <2>2
    <3>. QED  BY <1>6, <3>1, JoinedFacts
  <2>. HIDE DEF r
  <2>4. OfBytes(f, 7 + 2) /\ Begins(f, 7, r)
    <3>1. OfBytes(r, 7)
      BY <2>3
    <3>. QED  BY <3>1, FramedFacts
  <2>. HIDE DEF f
  <2>5. ReadReply(q, v) = r
    BY DEF ReadReply, s, t, u, up, down, st, r
  <2>6. /\ f[1] = s[1] /\ f[2] = s[2] /\ f[4] = t[1] /\ f[5] = t[2]
        /\ f[6] = u[1] /\ f[7] = u[2]
    <3>1. /\ f[1] = r[1] /\ f[2] = r[2] /\ f[4] = r[4] /\ f[5] = r[5]
          /\ f[6] = r[6] /\ f[7] = r[7]
      BY <2>4 DEF Begins
    <3>2. /\ r[1] = st[1] /\ r[2] = st[2] /\ r[4] = st[4] /\ r[5] = st[5]
          /\ r[5 + 1] = u[1] /\ r[5 + 2] = u[2]
      BY <2>3 DEF Begins, Continues
    <3>3. /\ st[1] = s[1] /\ st[2] = s[2] /\ st[3 + 1] = t[1] /\ st[3 + 2] = t[2]
      BY <2>2 DEF Begins, Continues
    <3>. QED  BY <3>1, <3>2, <3>3
  <2>7. /\ f[1] = Slave /\ f[2] = q.fc
        /\ f[4] = Hi(up) /\ f[5] = Lo(up) /\ f[6] = Hi(down) /\ f[7] = Lo(down)
    BY <1>6, <2>1, <2>6
  <2>8. NumberIn(f, q.cnt) = up * 65536 + down
    <3>1. NumberIn(f, q.cnt) = (Hi(up) * 256 + Lo(up)) * 65536 + Hi(down) * 256 + Lo(down)
      BY <1>7, <2>7 DEF NumberIn
    <3>2. \A a, b, c, d \in Byte : (a * 256 + b) * 65536 + c * 256 + d
                                    = (a * 256 + b) * 65536 + (c * 256 + d)
      BY DEF Byte
    <3>. QED  BY <1>4, <3>1, <3>2
  <2>. QED  BY <1>3, <1>7, <2>4, <2>5, <2>7, <2>8 DEF f
<1>8. CASE q.cnt = 1
  <2>1. t = <<>> /\ v = down
    <3>1. up = 0 /\ down \in Nat
      BY <1>2, <1>3, <1>8, WordsAreNaturals
    <3>. QED  BY <1>3, <1>8, <3>1
  <2>. HIDE DEF s, t, u
  <2>. DEFINE r == s \o u
              f == Framed(r)
  <2>2. s \o t = s
    BY <1>6, <2>1, ConcatEmptySeq DEF OfBytes
  <2>3. /\ OfBytes(r, 3 + 2) /\ Begins(r, 3, s)
        /\ Continues(r, 3, 2, u)
    BY <1>6, JoinedFacts
  <2>. HIDE DEF r
  <2>4. OfBytes(f, 5 + 2) /\ Begins(f, 5, r)
    <3>1. OfBytes(r, 5)
      BY <2>3
    <3>. QED  BY <3>1, FramedFacts
  <2>. HIDE DEF f
  <2>5. ReadReply(q, v) = r
    <3>1. ReadReply(q, v) = (s \o t) \o u
      BY DEF ReadReply, s, t, u, up, down
    <3>. QED  BY <2>2, <3>1 DEF r
  <2>6. f[1] = s[1] /\ f[2] = s[2] /\ f[4] = u[1] /\ f[5] = u[2]
    <3>1. f[1] = r[1] /\ f[2] = r[2] /\ f[4] = r[4] /\ f[5] = r[5]
      BY <2>4 DEF Begins
    <3>2. r[1] = s[1] /\ r[2] = s[2] /\ r[3 + 1] = u[1] /\ r[3 + 2] = u[2]
      BY <2>3 DEF Begins, Continues
    <3>. QED  BY <3>1, <3>2
  <2>7. f[1] = Slave /\ f[2] = q.fc /\ f[4] = Hi(down) /\ f[5] = Lo(down)
    BY <1>6, <2>6
  <2>8. NumberIn(f, q.cnt) = v
    BY <1>4, <1>8, <2>1, <2>7 DEF NumberIn
  <2>. QED  BY <1>8, <2>4, <2>5, <2>7, <2>8 DEF f
<1>. QED  BY <1>2, <1>7, <1>8

-----------------------------------------------------------------------------
(* What the requests on the bus are, and types.                            *)

\* The request that is out, with the data d of a write.
Asked(d) == [fc |-> pend.fc, wire |-> Wire(pend.addr), cnt |-> pend.cnt, data |-> d]

Matches(q, p) == q.fc = p.fc /\ q.wire = Wire(p.addr) /\ q.cnt = p.cnt

AskedInv ==
  pend.on => \/ IsRead(pend.fc) /\ Asked(0) \in Reads
             \/ IsWrite(pend.fc) /\ \A d \in Request : Asked(d) \in Writes

TrafficInv == LineOK /\ inbox \in Seq(Reads \cup Writes)

LEMMA Part ==
  ASSUME NEW S, NEW s \in Seq(S), NEW m \in Nat, m >= 1, NEW n \in Int, n <= Len(s)
  PROVE  /\ SubSeq(s, m, n) \in Seq(S)
         /\ Len(SubSeq(s, m, n)) = IF m <= n THEN n - m + 1 ELSE 0
         /\ \A i \in 1..n - m + 1 : SubSeq(s, m, n)[i] = s[m + i - 1]
<1>1. \A i \in m..n : i \in 1..Len(s) /\ s[i] \in S
  BY LenProperties, ElementOfSeq
<1>. QED  BY <1>1, SubSeqProperties

\* What is left of s behind its first k bytes.
LEMMA Rest ==
  ASSUME NEW s \in Seq(Byte), NEW k \in Nat
  PROVE  SubSeq(s, k + 1, Len(s)) \in Seq(Byte)
<1>1. Len(s) \in Nat /\ k + 1 \in Nat /\ k + 1 >= 1
  BY LenProperties
<1>. QED  BY <1>1, Part

LEMMA NewestFacts ==
  ASSUME NEW s \in Seq(Byte)
  PROVE  /\ Newest(s, MrxCap) \in Seq(Byte)
         /\ Len(s) <= MrxCap => Newest(s, MrxCap) = s
<1>1. Len(s) \in Nat /\ MrxCap \in Nat
  BY LenProperties, MasterAssumption
<1>2. CASE Len(s) > MrxCap
  <2>. DEFINE k == Len(s) - MrxCap
  <2>1. k \in Nat /\ ~(Len(s) <= MrxCap)
    BY <1>1, <1>2
  <2>. HIDE DEF k
  <2>2. SubSeq(s, k + 1, Len(s)) \in Seq(Byte)
    BY <2>1, Rest
  <2>. QED  BY <1>2, <2>1, <2>2 DEF Newest, k
<1>. QED  BY <1>1, <1>2 DEF Newest

\* After the receiving half the pending request is as it was or concluded.
LEMMA ReceivePend ==
  ASSUME NEW k, LoopReceive(k)
  PROVE  UNCHANGED pend \/ pend' = Idle
<1>1. ASSUME NEW f, OnModbusFrame(f) PROVE UNCHANGED pend \/ pend' = Idle
  BY <1>1 DEF OnModbusFrame, Ignore, Fail, AcceptRead, AcceptEcho
<1>2. ASSUME NEW s, Parse(s) PROVE UNCHANGED pend \/ pend' = Idle
  BY <1>1, <1>2 DEF Parse, Ignore
<1>. QED  BY <1>2 DEF LoopReceive, Ignore

LEMMA ReceiveTyped ==
  ASSUME Inv, TrafficInv, NEW k \in 0..Len(uart), LoopReceive(k)
  PROVE  TrafficInv'
<1>0. mrx \in Seq(Byte) /\ uart \in Seq(Byte)
  BY DEF TrafficInv, LineOK
<1>1. Len(uart) \in Nat /\ k \in Nat /\ k <= Len(uart)
  BY <1>0, LenProperties
<1>2. uart' \in Seq(Byte)
  BY <1>0, <1>1, Rest DEF LoopReceive
<1>. DEFINE s == Newest(mrx \o SubSeq(uart, 1, k), MrxCap)
<1>3. s \in Seq(Byte)
  <2>1. SubSeq(uart, 1, k) \in Seq(Byte)
    BY <1>0, <1>1, Part
  <2>2. mrx \o SubSeq(uart, 1, k) \in Seq(Byte)
    BY <1>0, <2>1, ConcatProperties
  <2>. QED  BY <2>2, NewestFacts
<1>4. mrx' \in Seq(Byte)
  <2>1. ASSUME NEW r \in Seq(Byte), Parse(r) PROVE mrx' \in Seq(Byte)
    <3>1. CASE Cut(r) = 0
      BY <2>1, <3>1 DEF Parse
    <3>2. CASE Cut(r) # 0 /\ Cut(r) \in Nat
      BY <2>1, <3>2, Rest DEF Parse
    <3>3. Cut(r) \in Nat
      <4>1. Cut(r) \in {0, 5, Need}
        BY DEF Cut
      <4>2. pend.cnt \in {0, 1, 2}
        BY DEF Inv, DriverOK
      <4>3. Need \in Nat
        BY <4>2 DEF Need
      <4>. QED  BY <4>1, <4>3
    <3>. QED  BY <3>1, <3>2, <3>3
  <2>2. CASE ~pend.on
    BY <1>3, <2>2 DEF LoopReceive
  <2>3. CASE pend.on
    <3>. HIDE DEF s
    <3>1. PICK j \in 0..Len(s) : Parse(SubSeq(s, j + 1, Len(s)))
      BY <2>3 DEF LoopReceive, s
    <3>2. j \in Nat
      BY <1>3, LenProperties
    <3>. QED  BY <1>3, <2>1, <3>1, <3>2, Rest
  <2>. QED  BY <2>2, <2>3
<1>5. UNCHANGED <<inbox, garbled, applied, latest>>
  BY DEF LoopReceive
<1>. QED  BY <1>2, <1>4, <1>5 DEF TrafficInv, LineOK

LEMMA ReceiveAsked ==
  ASSUME AskedInv, NEW k, LoopReceive(k)
  PROVE  AskedInv'
<1>1. CASE UNCHANGED pend
  BY <1>1 DEF AskedInv, Asked
<1>2. CASE pend' = Idle
  <2>1. ~pend'.on
    BY <1>2 DEF Idle
  <2>. QED  BY <2>1 DEF AskedInv
<1>. QED  BY <1>1, <1>2, ReceivePend

(* What poll_one_ sends: the write at the front of the queue, or a read of *)
(* the register under the cursor; the pump hears it or it does not.        *)
LEMMA PollSends ==
  ASSUME Inv, PollOne
  PROVE  \/ /\ ~pend'.on /\ inbox' = inbox
         \/ /\ pend'.on
            /\ \E q \in Reads \cup Writes :
                 /\ inbox' = inbox \/ inbox' = Append(inbox, q)
                 /\ Matches(q, pend')
                 /\ \/ IsRead(pend'.fc) /\ q.data = 0
                    \/ IsWrite(pend'.fc) /\ writes' # <<>> /\ q.data = writes'[1].raw
<1>0. /\ writes' \in Seq(WriteReq) /\ writes' = QueueAfterTimeout
      /\ pollIdx' = IdxAfterTimeout /\ pollIdx' \in Nat
      /\ (Polled # <<>> => pollIdx' < Len(Polled))
  BY TimeOutStep DEF PollOne
<1>1. CASE QueueAfterTimeout # <<>> /\ SendWrite(Head(QueueAfterTimeout))
  <2>. DEFINE w == Head(QueueAfterTimeout)
              c == IF Wide(w.addr) THEN 16 ELSE WriteFc
              q == [fc |-> c, wire |-> Wire(w.addr), cnt |-> Words(w.addr), data |-> w.raw]
  <2>1. w \in WriteReq /\ w = writes'[1] /\ writes' # <<>>
    BY <1>0, <1>1, TailFacts
  <2>2. /\ w.addr \in Word /\ w.raw \in Request
        /\ c \in {6, 16} /\ Words(w.addr) \in {1, 2} /\ Wire(w.addr) \in Word
    BY <2>1, CatalogTyped, WireIsWord DEF WriteReq
  <2>3. /\ pend' = [on |-> TRUE, addr |-> w.addr, fc |-> c, cnt |-> Words(w.addr)]
        /\ Tx(q)
    BY <1>1 DEF SendWrite
  <2>. HIDE DEF w, c
  <2>4. q \in Writes /\ q.data = w.raw
    BY <2>2 DEF Writes
  <2>5. Matches(q, pend') /\ IsWrite(pend'.fc) /\ pend'.on
    BY <2>2, <2>3 DEF Matches, IsWrite
  <2>6. inbox' = inbox \/ inbox' = Append(inbox, q)
    BY <2>3 DEF Tx
  <2>. HIDE DEF q
  <2>. QED  BY <2>1, <2>4, <2>5, <2>6
<1>2. CASE Polled # <<>> /\ SendRead(Polled[IdxAfterTimeout + 1])
  <2>. DEFINE i == IdxAfterTimeout + 1
              q == ReadOf(Polled[i])
  <2>1. i \in 1..Len(Polled)
    <3>1. Len(Polled) \in Nat
      BY MasterAssumption, LenProperties
    <3>. QED  BY <1>0, <1>2, <3>1
  <2>2. q \in Reads
    BY <2>1 DEF Reads
  <2>3. /\ pend' = [on |-> TRUE, addr |-> Polled[i], fc |-> ReadFc(Polled[i]),
                    cnt |-> Words(Polled[i])]
        /\ Tx(q)
    BY <1>2 DEF SendRead, ReadOf
  <2>. HIDE DEF i
  <2>4. q.data = 0
    BY DEF ReadOf
  <2>5. Matches(q, pend') /\ IsRead(pend'.fc) /\ pend'.on
    BY <2>3, CatalogTyped DEF Matches, IsRead, ReadOf
  <2>6. inbox' = inbox \/ inbox' = Append(inbox, q)
    BY <2>3 DEF Tx
  <2>. HIDE DEF q
  <2>. QED  BY <2>2, <2>4, <2>5, <2>6
<1>3. CASE SendNothing
  BY <1>3 DEF SendNothing, Idle
<1>. QED  BY <1>1, <1>2, <1>3 DEF PollOne

LEMMA PollTyped ==
  ASSUME TrafficInv, Inv, PollOne
  PROVE  TrafficInv' /\ AskedInv'
<1>1. UNCHANGED <<mrx, uart, garbled, applied, latest>>
  BY DEF PollOne
<1>2. \A q \in Reads \cup Writes : q \in BusReq
  BY RequestFacts
<1>3. CASE ~pend'.on /\ inbox' = inbox
  BY <1>1, <1>3 DEF TrafficInv, LineOK, AskedInv
<1>4. CASE pend'.on
  <2>1. PICK q \in Reads \cup Writes :
          /\ inbox' = inbox \/ inbox' = Append(inbox, q)
          /\ Matches(q, pend')
          /\ (IsRead(pend'.fc) /\ q.data = 0) \/ IsWrite(pend'.fc)
    BY <1>4, PollSends
  <2>2. inbox' \in Seq(Reads \cup Writes) /\ inbox' \in Seq(BusReq)
    <3>1. inbox \in Seq(Reads \cup Writes) /\ inbox \in Seq(BusReq)
      BY DEF TrafficInv, LineOK
    <3>2. Append(inbox, q) \in Seq(Reads \cup Writes)
      BY <3>1, AppendFacts
    <3>3. Append(inbox, q) \in Seq(BusReq)
      BY <1>2, <3>1, AppendFacts
    <3>. QED  BY <2>1, <3>1, <3>2, <3>3
  <2>3. TrafficInv'
    BY <1>1, <2>2 DEF TrafficInv, LineOK
  <2>4. q.fc = pend'.fc /\ q.wire = Wire(pend'.addr) /\ q.cnt = pend'.cnt
    BY <2>1 DEF Matches
  <2>5. CASE IsRead(pend'.fc) /\ q.data = 0
    <3>1. q \in Reads
      BY <2>4, <2>5, RequestFacts
    <3>2. q = [fc |-> pend'.fc, wire |-> Wire(pend'.addr), cnt |-> pend'.cnt, data |-> 0]
      BY <1>2, <2>4, <2>5 DEF BusReq
    <3>. QED  BY <2>3, <2>5, <3>1, <3>2 DEF AskedInv, Asked
  <2>6. CASE IsWrite(pend'.fc)
    <3>1. q \in Writes
      BY <2>4, <2>6, RequestFacts
    <3>2. \A d \in Request :
            [fc |-> pend'.fc, wire |-> Wire(pend'.addr), cnt |-> pend'.cnt, data |-> d] \in Writes
      BY <2>4, <3>1 DEF Writes
    <3>. QED  BY <2>3, <2>6, <3>2 DEF AskedInv, Asked
  <2>. QED  BY <2>1, <2>5, <2>6
<1>. QED  BY <1>3, <1>4, PollSends

\* Whatever the pump answers, and one byte of it damaged, is bytes.
LEMMA RepliesAreBytes ==
  ASSUME ChecksumIsWord, NEW q \in Reads \cup Writes, NEW r \in Replies(q)
  PROVE  /\ r \in Seq(Byte)
         /\ \A i \in DOMAIN r, d \in Noise : [r EXCEPT ![i] = (@ + d) % 256] \in Seq(Byte)
<1>1. r \in Seq(Byte)
  <2>1. CASE IsWrite(q.fc)
    BY <2>1, RequestFacts, EchoFacts DEF Replies, OfBytes
  <2>2. CASE ~IsWrite(q.fc)
    <3>1. PICK v \in Content[Addr(q)] : r = Framed(ReadReply(q, v))
      BY <2>2 DEF Replies
    <3>. QED  BY <2>2, <3>1, RequestFacts, ReadReplyFacts DEF OfBytes
  <2>. QED  BY <2>1, <2>2
<1>2. \A x \in Byte, d \in Noise : (x + d) % 256 \in Byte
  <2>1. \A d \in Noise : d \in Nat
    <3>1. Noise \subseteq 1..255
      BY MasterAssumption
    <3>. QED  BY <3>1
  <2>. QED  BY <2>1 DEF Byte
<1>3. ASSUME NEW i \in DOMAIN r, NEW d \in Noise
      PROVE  [r EXCEPT ![i] = (@ + d) % 256] \in Seq(Byte)
  <2>1. i \in 1..Len(r)
    BY <1>1, LenProperties
  <2>2. (r[i] + d) % 256 \in Byte
    BY <1>1, <1>2, <2>1, ElementOfSeq
  <2>. QED  BY <1>1, <2>1, <2>2, ExceptSeq
<1>. QED  BY <1>1, <1>3

LEMMA PumpTyped ==
  ASSUME ChecksumIsWord, TrafficInv, Pump
  PROVE  TrafficInv'
<1>0. /\ uart \in Seq(Byte) /\ inbox \in Seq(Reads \cup Writes) /\ inbox \in Seq(BusReq)
      /\ garbled \in 0..MaxGarbled /\ MaxGarbled \in Nat
      /\ applied \subseteq Request /\ latest \in 0..MaxWrites
  BY MasterAssumption DEF TrafficInv, LineOK
<1>. DEFINE q == Head(inbox)
<1>1. inbox # <<>> /\ inbox' = Tail(inbox) /\ mrx' = mrx
  BY DEF Pump, Answer, Garble, Decline, LoseRequest, LoseAnswer, LineFree, driver
<1>2. /\ q \in Reads \cup Writes
      /\ inbox' \in Seq(Reads \cup Writes) /\ inbox' \in Seq(BusReq)
  BY <1>0, <1>1, TailFacts
<1>. HIDE DEF q
<1>3. applied' \subseteq Request /\ latest' \in 0..MaxWrites
  <2>1. CASE CarryOut(q)
    <3>1. CASE IsWrite(q.fc)
      <4>1. q.data \in Request
        BY <1>2, <3>1, RequestFacts DEF Writes
      <4>2. q.data \in 0..MaxWrites
        BY <4>1, MasterAssumption, WordsAreNaturals DEF Request
      <4>. QED  BY <1>0, <2>1, <3>1, <4>1, <4>2 DEF CarryOut
    <3>2. CASE ~IsWrite(q.fc)
      BY <1>0, <2>1, <3>2 DEF CarryOut
    <3>. QED  BY <3>1, <3>2
  <2>2. CASE UNCHANGED <<applied, latest>>
    BY <1>0, <2>2
  <2>. QED  BY <2>1, <2>2
       DEF Pump, Answer, Garble, Decline, LoseRequest, LoseAnswer, history, q
<1>4. garbled' \in 0..MaxGarbled
  BY <1>0 DEF Pump, Answer, Garble, Decline, LoseRequest, LoseAnswer
<1>5. uart' \in Seq(Byte)
  <2>1. CASE \E r \in Seq(Byte) : uart' = uart \o r
    BY <1>0, <2>1, ConcatProperties
  <2>2. CASE UNCHANGED uart
    BY <1>0, <2>2
  <2>3. CASE Answer
    BY <1>2, <2>1, <2>3, RepliesAreBytes DEF Answer, q
  <2>4. CASE Garble
    <3>. DEFINE Noisy(r, i, d) == [r EXCEPT ![i] = (@ + d) % 256]
    <3>1. \E r \in Replies(q) : \E i \in DOMAIN r, d \in Noise : uart' = uart \o Noisy(r, i, d)
      BY <2>4 DEF Garble, q
    <3>2. \A r \in Replies(q) : \A i \in DOMAIN r, d \in Noise : Noisy(r, i, d) \in Seq(Byte)
      BY <1>2, RepliesAreBytes
    <3>. HIDE DEF Noisy
    <3>. QED  BY <2>1, <3>1, <3>2
  <2>5. CASE Decline
    BY <1>2, <2>1, <2>5, RefusalFacts DEF Decline, Refusal, OfBytes, q
  <2>. QED  BY <2>2, <2>3, <2>4, <2>5 DEF Pump, LoseRequest, LoseAnswer
<1>6. mrx' \in Seq(Byte)
  BY <1>1 DEF TrafficInv, LineOK
<1>. QED  BY <1>2, <1>3, <1>4, <1>5, <1>6 DEF TrafficInv, LineOK

LEMMA NextTyped ==
  ChecksumIsWord /\ Inv /\ TrafficInv /\ AskedInv /\ [Next]_vars
    => TrafficInv' /\ AskedInv'
<1>. SUFFICES ASSUME ChecksumIsWord, Inv, TrafficInv, AskedInv, [Next]_vars
              PROVE  TrafficInv' /\ AskedInv'
  OBVIOUS
<1>1. CASE UNCHANGED <<pend, mrx, line, applied, latest>>
  BY <1>1 DEF TrafficInv, LineOK, AskedInv, Asked, line
<1>2. CASE \E w \in Request, a \in WriteAddrs : QueueWrite(w, a)
  BY <1>1, <1>2 DEF QueueWrite
<1>3. CASE \E k \in 0..Len(uart) : LoopReceive(k)
  BY <1>3, ReceiveTyped, ReceiveAsked
<1>4. CASE LoopPollDue
  BY <1>4, PollTyped DEF LoopPollDue
<1>5. CASE LoopPollNotDue
  BY <1>1, <1>5 DEF LoopPollNotDue, history
<1>6. CASE Pump
  <2>1. pend' = pend
    BY <1>6 DEF Pump, Answer, Garble, Decline, LoseRequest, LoseAnswer, driver
  <2>. QED  BY <1>6, <2>1, PumpTyped DEF AskedInv, Asked
<1>7. CASE UNCHANGED vars
  BY <1>1, <1>7 DEF vars, driver, history
<1>. QED  BY <1>2, <1>3, <1>4, <1>5, <1>6, <1>7 DEF Next, Loop

LEMMA InitTyped == Init => TrafficInv /\ AskedInv
<1>. SUFFICES ASSUME Init PROVE TrafficInv /\ AskedInv
  OBVIOUS
<1>1. 0 \in 0..MaxGarbled /\ 0 \in 0..MaxWrites
  BY MasterAssumption, WordsAreNaturals
<1>2. /\ <<>> \in Seq(Byte) /\ <<>> \in Seq(BusReq) /\ <<>> \in Seq(Reads \cup Writes)
  BY EmptySeq
<1>3. TrafficInv
  BY <1>1, <1>2 DEF Init, TrafficInv, LineOK
<1>. QED  BY <1>3 DEF Init, AskedInv, NoRequest

(* Whatever comes in on the line, mrx_ holds bytes and the driver's state  *)
(* stays well typed; the requests on the bus are reads of polled registers *)
(* and writes that were asked for.  For a checksum of 16 bits.             *)
THEOREM Types ==
  ASSUME ChecksumIsWord
  PROVE  Spec => []TypeOK
<1>1. Init => TrafficInv /\ AskedInv
  BY InitTyped
<1>2. Inv /\ TrafficInv => TypeOK
  BY DEF Inv, TrafficInv, TypeOK
<1>3. Inv /\ TrafficInv /\ AskedInv /\ [Next]_vars => TrafficInv' /\ AskedInv'
  BY NextTyped
<1>. QED  BY <1>1, <1>2, <1>3, InitInv, NextInv, PTL DEF Spec

-----------------------------------------------------------------------------
(* Part 4: on a line that damages nothing, and with a pump that answers    *)
(* before the next poll or never, the bytes on their way are always one    *)
(* whole answer to the request that is out, so an answer is never taken    *)
(* for one to another request.  (How far damage is noticed depends on the  *)
(* checksum; that is model-checked.)                                       *)

\* An answer fits into mrx_, and register 0 is not polled.
Roomy == MrxCap >= 9 /\ \A i \in 1..Len(Polled) : Polled[i] # 0

NonePushedOut == \A w \in Request : fate[w] # "overflowed"

\* If d was asked for with a write, the write is the one at the front.
AtFront(d) ==
  IsWrite(pend.fc) /\ NonePushedOut => writes # <<>> /\ writes[1].raw = d

Silence == inbox = <<>> /\ uart = <<>> /\ mrx = <<>>

Underway ==
  /\ pend.on /\ mrx = <<>> /\ uart = <<>>
  /\ \E d \in Word : inbox = <<Asked(d)>> /\ AtFront(d)

\* f answers the request that is out; a write d has been carried out for it.
AnswerTo(f, d) ==
  \/ f = Refusal(Asked(d))
  \/ f \in Replies(Asked(d)) /\ (IsWrite(pend.fc) => d \in applied)

Coming ==
  /\ pend.on /\ inbox = <<>> /\ uart # <<>>
  /\ \E d \in Word : /\ Asked(d) \in Reads \cup Writes /\ AtFront(d)
                     /\ AnswerTo(mrx \o uart, d)

TalkInv ==
  garbled = 0 =>
    /\ Silence \/ Underway \/ Coming
    /\ AckedWasApplied /\ Attribution

-----------------------------------------------------------------------------
(* The fates that the property speaks of.                                  *)

\* No further request is acknowledged, and what was pushed out stays so.
Steady ==
  \A w \in Request : /\ fate'[w] = "acked" => fate[w] = "acked"
                     /\ fate[w] = "overflowed" => fate'[w] = "overflowed"

LEMMA FrontIsQueued ==
  ASSUME Inv, writes # <<>>
  PROVE  /\ Head(writes) = writes[1] /\ writes[1].raw \in Request
         /\ fate[writes[1].raw] = "queued"
         /\ fate \in [Request -> Fate]
<1>1. writes \in Seq(WriteReq)
  BY DEF Inv, DriverOK
<1>2. Head(writes) = writes[1] /\ Head(writes) \in WriteReq /\ Len(writes) \in Nat \ {0}
  BY <1>1, TailFacts
<1>3. 1 \in 1..Len(writes)
  BY <1>2
<1>. QED  BY <1>2, <1>3 DEF Inv, DriverOK, QueueInv, WriteReq

LEMMA SteadyKeeps ==
  ASSUME Steady, applied \subseteq applied'
  PROVE  /\ AckedWasApplied => AckedWasApplied'
         /\ NonePushedOut' => NonePushedOut
  BY DEF Steady, AckedWasApplied, NonePushedOut

LEMMA FrontGoes ==
  ASSUME Inv, writes # <<>>, NEW o \in {"acked", "abandoned"},
         fate' = [fate EXCEPT ![Head(writes).raw] = o]
  PROVE  /\ o = "abandoned" => Steady
         /\ NonePushedOut' => NonePushedOut
         /\ \A w \in Request : fate'[w] = "acked" => w = writes[1].raw \/ fate[w] = "acked"
<1>. DEFINE v == writes[1].raw
<1>1. /\ Head(writes).raw = v /\ v \in Request /\ fate[v] = "queued"
      /\ fate \in [Request -> Fate]
  BY FrontIsQueued
<1>. HIDE DEF v
<1>2. fate' = [fate EXCEPT ![v] = o]
  BY <1>1
<1>3. \A w \in Request : fate'[w] = IF w = v THEN o ELSE fate[w]
  BY <1>1, <1>2
<1>4. o = "abandoned" => Steady
  BY <1>1, <1>3 DEF Steady
<1>5. NonePushedOut' => NonePushedOut
  BY <1>1, <1>3 DEF NonePushedOut
<1>6. \A w \in Request : fate'[w] = "acked" => w = v \/ fate[w] = "acked"
  BY <1>3
<1>. QED  BY <1>4, <1>5, <1>6 DEF v

-----------------------------------------------------------------------------
(* queue_write()                                                           *)
LEMMA TalkQueueWrite ==
  ASSUME Inv, TalkInv, NEW w \in Request, NEW a \in WriteAddrs, QueueWrite(w, a)
  PROVE  TalkInv'
<1>0. /\ writes \in Seq(WriteReq) /\ fate \in [Request -> Fate]
      /\ QueueCap \in Nat \ {0}
      /\ fate[w] = "none"
      /\ UNCHANGED <<pend, mrx, uart, inbox, garbled, applied, pub>>
  BY MasterAssumption DEF Inv, DriverOK, QueueWrite, IsNext, line
<1>1. /\ Steady
      /\ NonePushedOut' /\ writes # <<>> => writes' # <<>> /\ writes'[1] = writes[1]
  <2>. DEFINE x == [addr |-> a, raw |-> w]
  <2>1. x \in WriteReq
    BY MasterAssumption DEF WriteReq
  <2>. HIDE DEF x
  <2>2. CASE ~IsWritable(a)
    <3>1. writes' = writes /\ fate' = [fate EXCEPT ![w] = "refused"]
      BY <2>2 DEF QueueWrite
    <3>. QED  BY <1>0, <3>1 DEF Steady
  <2>3. CASE Len(writes) >= QueueCap /\ IsWritable(a)
    <3>1. writes # <<>>
      BY <1>0, <2>3, EmptySeq
    <3>. DEFINE v == writes[1].raw
    <3>2. Head(writes).raw = v /\ v \in Request /\ fate[v] = "queued"
      BY <3>1, FrontIsQueued
    <3>. HIDE DEF v
    <3>3. fate' = [fate EXCEPT ![w] = "queued", ![v] = "overflowed"]
      <4>1. Len(writes) \in Nat /\ ~(Len(writes) < QueueCap)
        BY <1>0, <2>3, LenProperties
      <4>2. fate' = [fate EXCEPT ![w] = "queued", ![Head(writes).raw] = "overflowed"]
        BY <2>3, <4>1 DEF QueueWrite
      <4>. QED  BY <3>2, <4>2
    <3>4. v # w
      BY <1>0, <3>2
    <3>5. /\ fate'[v] = "overflowed" /\ fate'[w] = "queued"
          /\ \A u \in Request : u # v /\ u # w => fate'[u] = fate[u]
      BY <1>0, <3>2, <3>3, <3>4
    <3>6. ~NonePushedOut'
      BY <3>2, <3>5 DEF NonePushedOut
    <3>7. Steady
      BY <1>0, <3>2, <3>5 DEF Steady
    <3>. QED  BY <3>6, <3>7
  <2>4. CASE ~(Len(writes) >= QueueCap) /\ IsWritable(a)
    <3>1. writes' = Append(writes, x) /\ fate' = [fate EXCEPT ![w] = "queued"]
      BY <2>4 DEF QueueWrite, x
    <3>2. Steady
      BY <1>0, <3>1 DEF Steady
    <3>3. writes # <<>> => writes' # <<>> /\ writes'[1] = writes[1]
      BY <1>0, <2>1, <3>1, AppendFacts, TailFacts, EmptySeq
    <3>. QED  BY <3>2, <3>3
  <2>. QED  BY <2>2, <2>3, <2>4
<1>2. NonePushedOut' => NonePushedOut
  BY <1>0, <1>1, SteadyKeeps
<1>3. ASSUME NEW d, AtFront(d) PROVE AtFront(d)'
  BY <1>0, <1>1, <1>2, <1>3 DEF AtFront
<1>4. \A d : Asked(d)' = Asked(d)
  BY <1>0 DEF Asked
<1>. SUFFICES ASSUME garbled' = 0
              PROVE  /\ (Silence \/ Underway \/ Coming)'
                     /\ AckedWasApplied' /\ Attribution'
  BY DEF TalkInv
<1>5. (Silence \/ Underway \/ Coming) /\ AckedWasApplied /\ Attribution
  BY <1>0 DEF TalkInv
<1>6. AckedWasApplied' /\ Attribution'
  BY <1>0, <1>1, <1>5, SteadyKeeps DEF Attribution
<1>7. CASE Silence
  BY <1>0, <1>6, <1>7 DEF Silence
<1>8. CASE Underway
  <2>1. PICK d \in Word : inbox = <<Asked(d)>> /\ AtFront(d)
    BY <1>8 DEF Underway
  <2>2. inbox' = <<Asked(d)'>> /\ AtFront(d)'
    BY <1>0, <1>3, <1>4, <2>1
  <2>3. Underway'
    BY <1>0, <1>8, <2>2 DEF Underway
  <2>. QED  BY <1>6, <2>3
<1>9. CASE Coming
  <2>1. PICK d \in Word : /\ Asked(d) \in Reads \cup Writes /\ AtFront(d)
                          /\ AnswerTo(mrx \o uart, d)
    BY <1>9 DEF Coming
  <2>2. /\ Asked(d)' \in Reads \cup Writes /\ AtFront(d)'
        /\ AnswerTo(mrx \o uart, d)'
    BY <1>0, <1>3, <1>4, <2>1 DEF AnswerTo
  <2>3. Coming'
    BY <1>0, <1>9, <2>2 DEF Coming
  <2>. QED  BY <1>6, <2>3
<1>. QED  BY <1>5, <1>7, <1>8, <1>9

-----------------------------------------------------------------------------
(* poll_one_: nothing is on its way any more, and one request goes out.    *)
LEMMA TimeOutSteady ==
  ASSUME Inv, TimeOut
  PROVE  Steady
<1>1. CASE Expired /\ writes # <<>>
  BY <1>1, FrontGoes DEF TimeOut
<1>2. CASE ~(Expired /\ writes # <<>>)
  BY <1>2 DEF TimeOut, Steady
<1>. QED  BY <1>1, <1>2

LEMMA TalkPoll ==
  ASSUME Inv, TrafficInv, TalkInv, Prompt, LoopPollDue
  PROVE  TalkInv'
<1>0. /\ PollOne /\ TimeOut
      /\ inbox = <<>> /\ uart = <<>>
      /\ UNCHANGED <<mrx, uart, garbled, applied, pub>>
  BY DEF LoopPollDue, PollOne, Settled
<1>. SUFFICES ASSUME garbled' = 0
              PROVE  /\ (Silence \/ Underway \/ Coming)'
                     /\ AckedWasApplied' /\ Attribution'
  BY DEF TalkInv
<1>1. (Silence \/ Underway \/ Coming) /\ AckedWasApplied /\ Attribution
  BY <1>0 DEF TalkInv
<1>2. AckedWasApplied' /\ Attribution'
  BY <1>0, <1>1, TimeOutSteady, SteadyKeeps DEF Attribution
<1>3. mrx = <<>>
  <2>1. <<Asked(0)>> # <<>> /\ \A d : <<Asked(d)>> # <<>>
    OBVIOUS
  <2>. QED  BY <1>0, <1>1, <2>1 DEF Silence, Underway, Coming
<1>4. CASE inbox' = inbox
  BY <1>0, <1>2, <1>3, <1>4 DEF Silence
<1>5. CASE inbox' # inbox
  <2>1. PICK q \in Reads \cup Writes :
          /\ pend'.on
          /\ inbox' = Append(inbox, q)
          /\ Matches(q, pend')
          /\ \/ IsRead(pend'.fc) /\ q.data = 0
             \/ IsWrite(pend'.fc) /\ writes' # <<>> /\ q.data = writes'[1].raw
    BY <1>0, <1>5, PollSends
  <2>2. inbox' = <<q>>
    BY <1>0, <2>1
  <2>3. q \in BusReq
    BY RequestFacts
  <2>. DEFINE d == q.data
  <2>4. d \in Word /\ q = [fc |-> pend'.fc, wire |-> Wire(pend'.addr), cnt |-> pend'.cnt, data |-> d]
    BY <2>1, <2>3 DEF BusReq, Matches
  <2>5. IsRead(pend'.fc) => ~IsWrite(pend'.fc)
    BY DEF IsRead, IsWrite
  <2>6. IsWrite(pend'.fc) => writes' # <<>> /\ writes'[1].raw = d
    BY <2>1, <2>5
  <2>. HIDE DEF d
  <2>7. Underway'
    BY <1>0, <1>3, <2>1, <2>2, <2>4, <2>6 DEF Underway, Asked, AtFront
  <2>. QED  BY <1>2, <2>7
<1>. QED  BY <1>4, <1>5

-----------------------------------------------------------------------------
(* An answer, and how much of it loop() waits for.                         *)

\* f, of n bytes, has the form of an answer to the request that is out.
Formed(f, n) ==
  /\ OfBytes(f, n) /\ f[1] = Slave /\ n \in {5, 7, 8, 9}
  /\ \/ n = 5 /\ f[2] = Exception(pend.fc)
     \/ n = Need /\ n # 5 /\ f[2] = pend.fc

LEMMA AnswersAreFormed ==
  ASSUME ChecksumIsWord, NEW d, Asked(d) \in Reads \cup Writes
  PROVE  /\ Formed(Refusal(Asked(d)), 5)
         /\ \A f \in Replies(Asked(d)) : \E n \in {7, 8, 9} : Formed(f, n)
<1>. DEFINE q == Asked(d)
<1>1. q.fc = pend.fc /\ q.cnt = pend.cnt
  BY DEF Asked
<1>2. q \in Reads \cup Writes
  OBVIOUS
<1>. HIDE DEF q
<1>3. Formed(Refusal(q), 5)
  BY <1>1, <1>2, RefusalFacts DEF Formed
<1>4. ASSUME NEW f \in Replies(q) PROVE \E n \in {7, 8, 9} : Formed(f, n)
  <2>1. CASE IsWrite(q.fc)
    <3>1. f = Framed(Echo(q)) /\ q \in Writes
      BY <1>2, <2>1, RequestFacts DEF Replies
    <3>2. OfBytes(f, 8) /\ f[1] = Slave /\ f[2] = pend.fc
      BY <1>1, <3>1, EchoFacts
    <3>3. Need = 8
      BY <1>1, <2>1 DEF Need, IsRead, IsWrite
    <3>4. Formed(f, 8)
      BY <3>2, <3>3 DEF Formed
    <3>. QED  BY <3>4
  <2>2. CASE ~IsWrite(q.fc)
    <3>1. q \in Reads /\ IsRead(q.fc)
      BY <1>2, <2>2, RequestFacts
    <3>2. PICK v \in Content[Addr(q)] : f = Framed(ReadReply(q, v))
      BY <2>2 DEF Replies
    <3>3. /\ OfBytes(f, 5 + 2 * q.cnt) /\ q.cnt \in {1, 2}
          /\ f[1] = Slave /\ f[2] = pend.fc
      BY <1>1, <3>1, <3>2, ReadReplyFacts
    <3>4. Need = 5 + 2 * q.cnt
      BY <1>1, <3>1 DEF Need
    <3>5. 5 + 2 * q.cnt \in {7, 9}
      BY <3>3
    <3>6. Formed(f, 5 + 2 * q.cnt)
      BY <3>3, <3>4, <3>5 DEF Formed
    <3>. QED  BY <3>5, <3>6
  <2>. QED  BY <2>1, <2>2
<1>. QED  BY <1>3, <1>4 DEF q

LEMMA AnswersAreLong ==
  ASSUME ChecksumIsWord, NEW q \in Reads \cup Writes, NEW f \in Replies(q)
  PROVE  f \in Seq(Byte) /\ f # <<>>
<1>1. f \in Seq(Byte)
  BY RepliesAreBytes
<1>2. CASE IsWrite(q.fc)
  BY <1>2, RequestFacts, EchoFacts, EmptySeq DEF Replies, OfBytes
<1>3. CASE ~IsWrite(q.fc)
  <2>1. PICK v \in Content[Addr(q)] : f = Framed(ReadReply(q, v))
    BY <1>3 DEF Replies
  <2>2. OfBytes(f, 5 + 2 * q.cnt) /\ q.cnt \in {1, 2}
    BY <1>3, <2>1, RequestFacts, ReadReplyFacts
  <2>3. Len(f) # 0
    BY <2>2 DEF OfBytes
  <2>. QED  BY <1>1, <2>3, EmptySeq
<1>. QED  BY <1>1, <1>2, <1>3

\* Half an answer is left alone; a whole one is cut where it ends.
LEMMA CutWhereItEnds ==
  ASSUME AskedInv, pend.on, NEW f, NEW n, Formed(f, n),
         NEW s, NEW m, OfBytes(s, m), m <= n, Begins(s, m, f)
  PROVE  Cut(s) = IF m = n THEN n ELSE 0
<1>1. /\ m \in Nat /\ n \in Nat /\ Len(s) = m /\ n \in {5, 7, 8, 9}
  BY DEF OfBytes, Formed
<1>2. m >= 2 => s[2] = f[2]
  BY <1>1 DEF Begins
<1>3. Need >= 7 /\ Need \in Nat
  <2>1. IsRead(pend.fc) => pend.cnt \in {1, 2}
    <3>. SUFFICES ASSUME IsRead(pend.fc) PROVE pend.cnt \in {1, 2}
      OBVIOUS
    <3>1. Asked(0) \in Reads
      BY DEF AskedInv, IsRead, IsWrite
    <3>2. PICK i \in 1..Len(Polled) : Asked(0) = ReadOf(Polled[i])
      BY <3>1 DEF Reads
    <3>3. pend.cnt = Words(Polled[i])
      BY <3>2 DEF Asked, ReadOf
    <3>. QED  BY <3>3, CatalogTyped
  <2>. QED  BY <2>1 DEF Need
<1>4. pend.fc # Exception(pend.fc)
  <2>1. pend.fc \in {3, 4, 6, 16}
    BY DEF AskedInv, IsRead, IsWrite
  <2>. QED  BY <2>1 DEF Exception
<1>5. CASE n = 5 /\ f[2] = Exception(pend.fc)
  BY <1>1, <1>2, <1>3, <1>5 DEF Cut
<1>6. CASE n = Need /\ n # 5 /\ f[2] = pend.fc
  BY <1>1, <1>2, <1>3, <1>4, <1>6 DEF Cut
<1>. QED  BY <1>5, <1>6 DEF Formed

-----------------------------------------------------------------------------
(* The pump: it answers the one request there is, or keeps silent.         *)
LEMMA TalkPump ==
  ASSUME ChecksumIsWord, Inv, TrafficInv, TalkInv, Pump
  PROVE  TalkInv'
<1>0. /\ inbox # <<>> /\ inbox' = Tail(inbox)
      /\ UNCHANGED <<writes, pend, mrx, fate, pub>>
  BY DEF Pump, Answer, Garble, Decline, LoseRequest, LoseAnswer, LineFree, driver, history
<1>. SUFFICES ASSUME garbled' = 0
              PROVE  /\ (Silence \/ Underway \/ Coming)'
                     /\ AckedWasApplied' /\ Attribution'
  BY DEF TalkInv
<1>1. ~Garble /\ garbled = 0
  <2>1. garbled \in Nat
    BY MasterAssumption DEF TrafficInv, LineOK
  <2>2. ~Garble
    BY <2>1 DEF Garble
  <2>. QED  BY <2>2 DEF Pump, Answer, Decline, LoseRequest, LoseAnswer
<1>2. (Silence \/ Underway \/ Coming) /\ AckedWasApplied /\ Attribution
  BY <1>1 DEF TalkInv
<1>3. Underway
  BY <1>0, <1>2 DEF Silence, Coming
<1>4. PICK d \in Word : inbox = <<Asked(d)>> /\ AtFront(d)
  BY <1>3 DEF Underway
<1>. DEFINE q == Asked(d)
<1>5. /\ Head(inbox) = q /\ inbox' = <<>> /\ q.fc = pend.fc /\ q.data = d
  BY <1>0, <1>4 DEF Asked
<1>6. q \in Reads \cup Writes
  BY <1>0, <1>5, TailFacts DEF TrafficInv
<1>. HIDE DEF q
<1>7. Asked(d)' = q /\ AtFront(d)' /\ NonePushedOut' = NonePushedOut
  BY <1>0, <1>4 DEF Asked, q, AtFront, NonePushedOut
<1>8. applied \subseteq applied'
  BY <1>5 DEF Pump, Answer, Garble, Decline, LoseRequest, LoseAnswer, CarryOut, history
<1>9. AckedWasApplied' /\ Attribution'
  <2>1. Steady
    BY <1>0 DEF Steady
  <2>. QED  BY <1>0, <1>2, <1>8, <2>1, SteadyKeeps DEF Attribution
<1>10. mrx = <<>> /\ uart = <<>> /\ pend.on
  BY <1>3 DEF Underway
<1>11. ASSUME NEW f \in Seq(Byte), f # <<>>, uart' = uart \o f,
              f = Refusal(q) \/ (f \in Replies(q) /\ (IsWrite(pend.fc) => d \in applied'))
       PROVE  Coming'
  <2>1. uart' = f /\ mrx' \o uart' = f
    BY <1>0, <1>10, <1>11, ConcatEmptySeq
  <2>2. AnswerTo(f, d)'
    BY <1>0, <1>7, <1>11 DEF AnswerTo
  <2>3. (/\ Asked(d) \in Reads \cup Writes /\ AtFront(d)
         /\ AnswerTo(mrx \o uart, d))'
    BY <1>6, <1>7, <2>1, <2>2
  <2>. QED  BY <1>0, <1>5, <1>10, <1>11, <2>1, <2>3 DEF Coming
<1>12. CASE Answer
  <2>1. PICK f \in Replies(q) : uart' = uart \o f
    BY <1>5, <1>12 DEF Answer
  <2>2. f \in Seq(Byte) /\ f # <<>>
    BY <1>6, AnswersAreLong
  <2>3. IsWrite(pend.fc) => d \in applied'
    BY <1>5, <1>12 DEF Answer, CarryOut
  <2>. QED  BY <1>9, <1>11, <2>1, <2>2, <2>3
<1>13. CASE Decline
  <2>1. uart' = uart \o Refusal(q)
    BY <1>5, <1>13 DEF Decline, Refusal
  <2>2. Refusal(q) \in Seq(Byte) /\ Refusal(q) # <<>>
    BY <1>6, RefusalFacts, EmptySeq DEF OfBytes
  <2>. QED  BY <1>9, <1>11, <2>1, <2>2
<1>14. CASE LoseRequest \/ LoseAnswer
  <2>1. uart' = uart
    BY <1>14 DEF LoseRequest, LoseAnswer
  <2>. QED  BY <1>0, <1>5, <1>9, <1>10, <2>1 DEF Silence
<1>. QED  BY <1>1, <1>12, <1>13, <1>14 DEF Pump

-----------------------------------------------------------------------------
(* loop(): nothing comes in, or a further part of the answer does.         *)
LEMMA NothingComesIn ==
  ASSUME pend.cnt \in {0, 1, 2}, mrx = <<>>, uart = <<>>, NEW k \in 0..Len(uart), LoopReceive(k)
  PROVE  mrx' = <<>> /\ uart' = <<>> /\ Ignore
<1>1. k = 0 /\ Len(<<>>) = 0 /\ <<>> \in Seq(Byte)
  BY EmptySeq
<1>2. SubSeq(<<>>, 1, 0) = <<>>
  BY SubSeqEmpty
<1>3. Newest(mrx \o SubSeq(uart, 1, k), MrxCap) = <<>>
  <2>1. mrx \o SubSeq(uart, 1, k) = <<>>
    BY <1>1, <1>2, ConcatEmptySeq
  <2>2. MrxCap \in Nat
    BY MasterAssumption
  <2>3. Len(<<>>) <= MrxCap
    BY <1>1, <2>2
  <2>4. Newest(<<>>, MrxCap) = <<>>
    BY <1>1, <2>3, NewestFacts
  <2>. QED  BY <2>1, <2>4
<1>4. uart' = <<>>
  BY <1>1, <1>2 DEF LoopReceive
<1>5. CASE ~pend.on
  BY <1>3, <1>4, <1>5 DEF LoopReceive
<1>6. CASE pend.on
  <2>1. PICK j \in 0..Len(<<>>) : Parse(SubSeq(<<>>, j + 1, Len(<<>>)))
    BY <1>3, <1>6 DEF LoopReceive
  <2>2. Parse(<<>>)
    <3>1. j + 1 = 1 /\ Len(<<>>) = 0
      BY <1>1, <2>1
    <3>2. SubSeq(<<>>, j + 1, Len(<<>>)) = <<>>
      BY <1>2, <3>1
    <3>. QED  BY <2>1, <3>2
  <2>3. Cut(<<>>) = 0
    BY <1>1, <1>6 DEF Cut, Need
  <2>. QED  BY <1>4, <2>2, <2>3 DEF Parse
<1>. QED  BY <1>5, <1>6

LEMMA PartComesIn ==
  ASSUME AskedInv, pend.on, Roomy, mrx \in Seq(Byte), uart \in Seq(Byte), uart # <<>>,
         NEW n, Formed(mrx \o uart, n),
         NEW k \in 0..Len(uart), LoopReceive(k)
  PROVE  \/ /\ Ignore /\ mrx' \o uart' = mrx \o uart /\ uart' # <<>>
         \/ /\ OnModbusFrame(mrx \o uart)
            /\ mrx' = <<>> /\ uart' = <<>>
<1>. DEFINE f == mrx \o uart
            p == SubSeq(uart, 1, k)
            r == SubSeq(uart, k + 1, Len(uart))
            s == mrx \o p
            m == Len(mrx) + k
<1>1. /\ Len(mrx) \in Nat /\ Len(uart) \in Nat /\ k \in Nat /\ k <= Len(uart)
  BY LenProperties
<1>2. /\ p \in Seq(Byte) /\ Len(p) = k
      /\ r \in Seq(Byte) /\ Len(r) = Len(uart) - k
      /\ p \o r = uart
  <2>1. /\ 1 \in 1..Len(uart) + 1 /\ k \in 1 - 1..Len(uart) /\ Len(uart) \in k..Len(uart)
    BY <1>1
  <2>2. p \o r = SubSeq(uart, 1, Len(uart))
    BY <2>1, ConcatAdjacentSubSeq
  <2>3. SubSeq(uart, 1, Len(uart)) = uart
    BY SubSeqFull
  <2>4. p \in Seq(Byte) /\ Len(p) = k
    BY <1>1, Part
  <2>5. k + 1 \in Nat /\ k + 1 >= 1 /\ Len(uart) \in Int /\ Len(uart) <= Len(uart)
    BY <1>1
  <2>6. r \in Seq(Byte) /\ Len(r) = IF k + 1 <= Len(uart) THEN Len(uart) - (k + 1) + 1 ELSE 0
    BY <2>5, Part
  <2>7. Len(r) = Len(uart) - k
    BY <1>1, <2>6
  <2>. QED  BY <2>2, <2>3, <2>4, <2>6, <2>7
<1>3. uart' = r
  BY DEF LoopReceive
<1>. HIDE DEF p, r
<1>4. s \o r = f
  <2>1. OfBytes(mrx, Len(mrx)) /\ OfBytes(p, Len(p)) /\ OfBytes(r, Len(r))
    BY <1>2, LenProperties DEF OfBytes
  <2>2. (mrx \o p) \o r = mrx \o (p \o r)
    BY SMTT(30), <2>1, Regrouped
  <2>. QED  BY <1>2, <2>2
<1>5. OfBytes(s, m) /\ Len(f) = n /\ n = Len(mrx) + Len(uart) /\ f \in Seq(Byte)
  <2>1. s \in Seq(Byte) /\ Len(s) = Len(mrx) + Len(p)
    BY <1>2, ConcatProperties
  <2>2. f \in Seq(Byte) /\ Len(f) = Len(mrx) + Len(uart)
    BY ConcatProperties
  <2>. QED  BY <1>1, <1>2, <2>1, <2>2 DEF OfBytes, Formed
<1>6. Begins(s, m, f)
  <2>. SUFFICES ASSUME NEW i \in 1..m PROVE s[i] = f[i]
    BY DEF Begins
  <2>1. s \in Seq(Byte) /\ Len(s) = m
    BY <1>5 DEF OfBytes
  <2>. HIDE DEF s, m
  <2>2. i \in 1..Len(s) + Len(r) /\ i <= Len(s)
    <3>1. m \in Nat /\ Len(r) \in Nat
      BY <1>1, <1>2, <2>1, LenProperties
    <3>. QED  BY <2>1, <3>1
  <2>3. (s \o r)[i] = s[i]
    BY <1>2, <2>1, <2>2, ConcatProperties
  <2>. QED  BY <1>4, <2>3
<1>7. m \in Nat /\ m <= n /\ n <= 9 /\ n \in Nat
  BY <1>1, <1>5 DEF Formed, OfBytes
<1>8. Len(s) = m /\ s \in Seq(Byte)
  BY <1>5 DEF OfBytes
<1>9. Newest(s, MrxCap) = s
  <2>1. m <= MrxCap
    BY <1>7, MasterAssumption DEF Roomy
  <2>. QED  BY <1>8, <2>1, NewestFacts
<1>10. PICK j \in 0..Len(s) : Skips(s, j) /\ Parse(SubSeq(s, j + 1, Len(s)))
  BY <1>9 DEF LoopReceive, p
<1>. HIDE DEF s, m, f
<1>11. j = 0
  <2>1. CASE m = 0
    BY <1>8, <1>10, <2>1
  <2>2. CASE m # 0
    <3>1. 1 \in 1..m
      BY <1>7, <2>2
    <3>2. s[1] = Slave
      BY <1>6, <3>1 DEF Begins, Formed, f
    <3>. QED  BY <1>7, <1>8, <1>10, <3>2 DEF Skips
  <2>. QED  BY <2>1, <2>2
<1>12. Parse(s)
  <2>1. SubSeq(s, 1, Len(s)) = s
    BY <1>8, SubSeqFull
  <2>2. j + 1 = 1
    BY <1>11
  <2>3. SubSeq(s, j + 1, Len(s)) = s
    BY <2>1, <2>2
  <2>. QED  BY <1>10, <2>3
<1>13. Formed(f, n)
  BY DEF f
<1>14. Cut(s) = IF m = n THEN n ELSE 0
  BY <1>5, <1>6, <1>7, <1>13, CutWhereItEnds
<1>15. CASE m # n
  <2>1. mrx' = s /\ Ignore
    BY <1>12, <1>14, <1>15 DEF Parse
  <2>2. Len(r) # 0
    <3>1. Len(r) = Len(uart) - k /\ n = Len(mrx) + Len(uart) /\ Len(mrx) + k # n
      BY <1>2, <1>5, <1>15 DEF m
    <3>. QED  BY <1>1, <3>1
  <2>3. uart' # <<>>
    BY <1>3, <2>2, EmptySeq
  <2>. QED  BY <1>3, <1>4, <2>1, <2>3 DEF f
<1>16. CASE m = n
  <2>1. Len(r) = 0
    BY SMTT(30), <1>1, <1>2, <1>5, <1>16 DEF m
  <2>2. r = <<>>
    BY <1>2, <2>1, EmptySeq
  <2>3. s = f
    BY <1>4, <1>8, <2>2, ConcatEmptySeq
  <2>4. n # 0
    BY <1>13 DEF Formed
  <2>5. /\ mrx' = SubSeq(s, n + 1, Len(s))
        /\ OnModbusFrame(SubSeq(s, 1, n))
    BY <1>12, <1>14, <1>16, <2>4 DEF Parse
  <2>6. SubSeq(s, n + 1, Len(s)) = <<>>
    BY <1>7, <1>8, <1>16, SubSeqEmpty
  <2>7. SubSeq(s, 1, n) = f
    BY <1>8, <1>16, <2>3, SubSeqFull
  <2>. QED  BY <1>3, <2>2, <2>5, <2>6, <2>7 DEF f
<1>. QED  BY SMTT(30), <1>15, <1>16

(* What on_modbus_frame_ concludes from a whole answer.                    *)
LEMMA AnswerConcludes ==
  ASSUME ChecksumIsWord, Roomy, Inv, AskedInv, AckedWasApplied, Attribution, pend.on,
         NEW d \in Word, Asked(d) \in Reads \cup Writes, AtFront(d),
         NEW f, AnswerTo(f, d), OnModbusFrame(f), UNCHANGED applied
  PROVE  AckedWasApplied' /\ Attribution'
<1>. DEFINE q == Asked(d)
<1>0. q.fc = pend.fc /\ q.cnt = pend.cnt /\ q.wire = Wire(pend.addr) /\ q \in Reads \cup Writes
  BY DEF Asked
<1>. HIDE DEF q
<1>1. CASE UNCHANGED <<fate, pub>>
  BY <1>1, SteadyKeeps DEF Steady, Attribution
<1>2. CASE Fail
  <2>1. Steady
    <3>1. CASE UNCHANGED fate
      BY <3>1 DEF Steady
    <3>2. CASE PopWrite("abandoned")
      BY <3>1, <3>2, FrontGoes DEF PopWrite
    <3>. QED  BY <1>2, <3>1, <3>2 DEF Fail
  <2>. QED  BY <1>2, <2>1, SteadyKeeps DEF Fail, Attribution
<1>3. f[2] = pend.fc => f \in Replies(q) /\ (IsWrite(pend.fc) => d \in applied)
  <2>1. f = Refusal(q) => f[2] = Exception(pend.fc)
    BY <1>0, RefusalFacts
  <2>2. pend.fc # Exception(pend.fc)
    <3>1. pend.fc \in {3, 4, 6, 16}
      BY DEF AskedInv, IsRead, IsWrite
    <3>. QED  BY <3>1 DEF Exception
  <2>. QED  BY <2>1, <2>2 DEF AnswerTo, q
<1>4. CASE f[2] = pend.fc /\ IsRead(pend.fc) /\ AcceptRead(f) /\ ReadReplyOk(f)
  <2>1. q \in Reads /\ ~IsWrite(q.fc)
    BY <1>0, <1>4, RequestFacts DEF IsRead, IsWrite
  <2>2. PICK v \in Content[Addr(q)] : f = Framed(ReadReply(q, v))
    BY <1>3, <1>4, <2>1 DEF Replies
  <2>3. Value(f) = v
    BY <1>0, <2>1, <2>2, ReadReplyFacts DEF Value, NumberIn
  <2>4. Addr(q) = pend.addr
    <3>1. pend.addr \in Word /\ pend.addr # 0
      <4>1. Polled # <<>> /\ pend.addr = Polled[pollIdx + 1]
        BY <1>4 DEF Inv, RequestHasTarget
      <4>2. pollIdx + 1 \in 1..Len(Polled)
        <5>1. pollIdx \in Nat /\ pollIdx < Len(Polled) /\ Len(Polled) \in Nat
          BY <4>1, MasterAssumption, LenProperties DEF Inv, DriverOK
        <5>. QED  BY <5>1
      <4>. QED  BY <4>1, <4>2, MasterAssumption, ElementOfSeq DEF Roomy
    <3>2. pend.addr \in Nat /\ pend.addr < 65536
      BY <3>1, WordsAreNaturals
    <3>3. (pend.addr - 1) % 65536 = pend.addr - 1
      BY <3>1, <3>2
    <3>. QED  BY <1>0, <3>2, <3>3 DEF Addr, Wire
  <2>5. /\ pub' = [addr |-> pend.addr, value |-> v]
        /\ InRange(pend.addr, v) /\ UNCHANGED fate
    BY <1>4, <2>3 DEF AcceptRead, ReadReplyOk, Decodes
  <2>6. AckedWasApplied'
    BY <2>5, SteadyKeeps DEF Steady
  <2>7. Attribution'
    BY <2>2, <2>4, <2>5 DEF Attribution, InRange
  <2>. QED  BY <2>6, <2>7
<1>5. CASE f[2] = pend.fc /\ IsWrite(pend.fc) /\ AcceptEcho
  <2>1. /\ writes # <<>> /\ PopWrite("acked") /\ pub' = pub
    BY <1>5 DEF Inv, RequestHasTarget, AcceptEcho
  <2>2. fate' = [fate EXCEPT ![Head(writes).raw] = "acked"]
    BY <2>1 DEF PopWrite
  <2>3. /\ NonePushedOut' => NonePushedOut
        /\ \A w \in Request : fate'[w] = "acked" => w = writes[1].raw \/ fate[w] = "acked"
    BY <2>1, <2>2, FrontGoes
  <2>4. NonePushedOut => writes[1].raw = d /\ d \in applied
    BY <1>3, <1>5 DEF AtFront
  <2>5. AckedWasApplied'
    <3>. SUFFICES ASSUME NonePushedOut', NEW w \in Request, fate'[w] = "acked"
                  PROVE  w \in applied
      BY DEF AckedWasApplied, NonePushedOut
    <3>1. CASE w = writes[1].raw
      BY <2>3, <2>4, <3>1
    <3>2. CASE fate[w] = "acked"
      BY <2>3, <3>2 DEF AckedWasApplied, NonePushedOut
    <3>. QED  BY <2>3, <3>1, <3>2
  <2>. QED  BY <2>1, <2>5 DEF Attribution
<1>. QED  BY <1>1, <1>2, <1>4, <1>5 DEF OnModbusFrame, Ignore

LEMMA TalkReceive ==
  ASSUME ChecksumIsWord, Roomy, Inv, TrafficInv, AskedInv, TalkInv,
         NEW k \in 0..Len(uart), LoopReceive(k)
  PROVE  TalkInv'
<1>0. /\ mrx \in Seq(Byte) /\ uart \in Seq(Byte)
      /\ UNCHANGED <<inbox, garbled, applied>>
      /\ pend.cnt \in {0, 1, 2}
  BY DEF LoopReceive, TrafficInv, LineOK, Inv, DriverOK
<1>. SUFFICES ASSUME garbled' = 0
              PROVE  /\ (Silence \/ Underway \/ Coming)'
                     /\ AckedWasApplied' /\ Attribution'
  BY DEF TalkInv
<1>1. (Silence \/ Underway \/ Coming) /\ AckedWasApplied /\ Attribution
  BY <1>0 DEF TalkInv
<1>2. ASSUME Ignore
      PROVE  /\ AckedWasApplied' /\ Attribution'
             /\ UNCHANGED <<pend, writes, fate>>
             /\ \A d : Asked(d)' = Asked(d)
             /\ \A d : AtFront(d) => AtFront(d)'
  <2>1. UNCHANGED <<pend, writes, fate, pub>>
    BY <1>2 DEF Ignore
  <2>2. Steady
    BY <2>1 DEF Steady
  <2>. QED  BY <1>0, <1>1, <2>1, <2>2, SteadyKeeps DEF Attribution, Asked, AtFront, NonePushedOut
<1>3. CASE Silence
  <2>1. mrx' = <<>> /\ uart' = <<>> /\ Ignore
    BY <1>0, <1>3, NothingComesIn DEF Silence
  <2>. QED  BY <1>0, <1>2, <1>3, <2>1 DEF Silence
<1>4. CASE Underway
  <2>1. mrx' = <<>> /\ uart' = <<>> /\ Ignore
    BY <1>0, <1>4, NothingComesIn DEF Underway
  <2>2. PICK d \in Word : inbox = <<Asked(d)>> /\ AtFront(d)
    BY <1>4 DEF Underway
  <2>3. inbox' = <<Asked(d)'>> /\ AtFront(d)' /\ pend' = pend
    BY <1>0, <1>2, <2>1, <2>2
  <2>4. Underway'
    BY <1>4, <2>1, <2>3 DEF Underway
  <2>. QED  BY <1>2, <2>1, <2>4
<1>5. CASE Coming
  <2>1. PICK d \in Word : /\ Asked(d) \in Reads \cup Writes /\ AtFront(d)
                          /\ AnswerTo(mrx \o uart, d)
    BY <1>5 DEF Coming
  <2>2. PICK n : Formed(mrx \o uart, n)
    BY <2>1, AnswersAreFormed DEF AnswerTo
  <2>3. pend.on /\ inbox = <<>> /\ uart # <<>>
    BY <1>5 DEF Coming
  <2>4. \/ Ignore /\ mrx' \o uart' = mrx \o uart /\ uart' # <<>>
        \/ OnModbusFrame(mrx \o uart) /\ mrx' = <<>> /\ uart' = <<>>
    BY <1>0, <2>2, <2>3, PartComesIn
  <2>5. CASE Ignore /\ mrx' \o uart' = mrx \o uart /\ uart' # <<>>
    <3>1. Asked(d)' = Asked(d) /\ AtFront(d)' /\ UNCHANGED <<pend, writes, fate>>
      BY <1>2, <2>1, <2>5
    <3>2. /\ Asked(d)' \in Reads \cup Writes
          /\ AnswerTo(mrx \o uart, d)'
      BY <1>0, <2>1, <2>5, <3>1 DEF AnswerTo
    <3>3. Coming'
      BY <1>0, <2>3, <2>5, <3>1, <3>2 DEF Coming
    <3>. QED  BY <1>2, <2>5, <3>3
  <2>6. CASE OnModbusFrame(mrx \o uart) /\ mrx' = <<>> /\ uart' = <<>>
    <3>1. AckedWasApplied' /\ Attribution'
      BY <1>0, <1>1, <2>1, <2>3, <2>6, AnswerConcludes
    <3>2. Silence'
      BY <1>0, <2>3, <2>6 DEF Silence
    <3>. QED  BY <3>1, <3>2
  <2>. QED  BY <2>4, <2>5, <2>6
<1>. QED  BY <1>1, <1>3, <1>4, <1>5

-----------------------------------------------------------------------------
LEMMA InitTalk == Init => TalkInv
  BY DEF Init, TalkInv, Silence, AckedWasApplied, Attribution, NoValue

LEMMA NextTalk ==
  ASSUME ChecksumIsWord, Roomy, Prompt, Inv, TrafficInv, AskedInv, TalkInv, [Next]_vars
  PROVE  TalkInv'
<1>1. CASE \E w \in Request, a \in WriteAddrs : QueueWrite(w, a)
  BY <1>1, TalkQueueWrite
<1>2. CASE \E k \in 0..Len(uart) : LoopReceive(k)
  BY <1>2, TalkReceive
<1>3. CASE LoopPollDue
  BY <1>3, TalkPoll
<1>4. CASE Pump
  BY <1>4, TalkPump
<1>5. CASE UNCHANGED <<writes, pend, mrx, line, history>>
  BY <1>5 DEF line, history, TalkInv, Silence, Underway, Coming, Asked, AtFront, AnswerTo,
              NonePushedOut, AckedWasApplied, Attribution, InRange
<1>. QED  BY <1>1, <1>2, <1>3, <1>4, <1>5
          DEF Next, Loop, LoopPollNotDue, vars, driver, line

(* As long as no byte has been damaged and no request was pushed out, a    *)
(* write is reported done only when the pump has carried it out: whatever  *)
(* was lost, declined, sent again or cut up, and however the queue was     *)
(* filled meanwhile, the echo concludes the request it echoes.             *)
THEOREM Acknowledged ==
  ASSUME ChecksumIsWord, Roomy, Prompt
  PROVE  Spec => [](garbled = 0 => AckedWasApplied)
<1>1. Init => TrafficInv /\ AskedInv
  BY InitTyped
<1>2. Inv /\ TrafficInv /\ AskedInv /\ TalkInv /\ [Next]_vars
        => TrafficInv' /\ AskedInv' /\ TalkInv'
  BY NextTyped, NextTalk
<1>3. TalkInv => (garbled = 0 => AckedWasApplied)
  BY DEF TalkInv
<1>. QED  BY <1>1, <1>2, <1>3, InitInv, InitTalk, NextInv, PTL DEF Spec

(* As long as no byte has been damaged, what an entity shows for a         *)
(* register was read from that register, and lies within its range.        *)
THEOREM Attributed ==
  ASSUME ChecksumIsWord, Roomy, Prompt
  PROVE  Spec => [](garbled = 0 => Attribution)
<1>1. Init => TrafficInv /\ AskedInv
  BY InitTyped
<1>2. Inv /\ TrafficInv /\ AskedInv /\ TalkInv /\ [Next]_vars
        => TrafficInv' /\ AskedInv' /\ TalkInv'
  BY NextTyped, NextTalk
<1>3. TalkInv => (garbled = 0 => Attribution)
  BY DEF TalkInv
<1>. QED  BY <1>1, <1>2, <1>3, InitInv, InitTalk, NextInv, PTL DEF Spec
=============================================================================
