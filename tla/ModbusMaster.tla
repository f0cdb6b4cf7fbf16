---------------------------- MODULE ModbusMaster ----------------------------
(***************************************************************************)
(* HeatWhisper as a Modbus-RTU master: the Modbus half of                  *)
(* HeatWhisperComponent::loop(), poll_one_(), on_modbus_frame_() and the   *)
(* write queue of queue_write(), with the serial line and the heat pump    *)
(* that answers on it.                                                     *)
(*                                                                         *)
(* loop() does two things in order: it drains the UART into mrx_ and       *)
(* handles at most one frame (LoopReceive), and it runs poll_one_() when   *)
(* 5 s have passed (LoopPoll).  The two halves are two actions, because    *)
(* the picker's web handlers run on another task and call queue_write()    *)
(* between them; "half" says which one comes next.                         *)
(*                                                                         *)
(* Bytes are bytes: a reply is parsed, cut and checked as the code does,   *)
(* so a damaged, late or half-received reply has the effect it has in the  *)
(* code.  The checksum is a parameter; Crc16 is its definition.            *)
(***************************************************************************)
EXTENDS Integers, Sequences

CONSTANTS
  Slave,        \* modbus_addr_
  Polled,       \* polled_, filled before the first loop()
  Meta,         \* HW_META: the registers of the catalog
  WriteFc,      \* write_fc_for_model_()
  Checksum(_),  \* crc16_modbus
  WriteAddrs,   \* registers the users write
  Content,      \* the values each register of the pump may hold
  MaxWrites,    \* bound: write requests ever issued
  MaxGarbled,   \* bound: replies damaged on the line
  Noise,        \* what damage adds to a byte, modulo 256
  QueueCap,     \* requests that can wait (4 in the code)
  MrxCap,       \* bytes kept in mrx_ (256 in the code)
  InboxCap,     \* requests the pump holds unanswered
  Prompt        \* TRUE: an answer arrives before the next poll, or never

Byte     == 0..255
Word     == 0..65535
Attempts == 3
Request  == 1..MaxWrites

(* The catalog, as poll_one_ uses it, and the numbers that registers go by *)
(* on the wire: less one, as 16 bits.                                      *)
Known(a)   == a \in DOMAIN Meta
Wide(a)    == Known(a) /\ Meta[a].wide
Words(a)   == IF Wide(a) THEN 2 ELSE 1
ReadFc(a)  == IF Known(a) /\ Meta[a].fc = 4 THEN 4 ELSE 3
Wire(a)    == (a - 1) % 65536

ASSUME MasterAssumption ==
  /\ Slave \in 1..247
  /\ Polled \in Seq(Word)
  /\ WriteFc \in {6, 16}
  /\ WriteAddrs \subseteq Word
  /\ MaxWrites \in Word
  /\ MaxGarbled \in Nat
  /\ Noise \subseteq 1..255
  /\ QueueCap \in Nat \ {0}
  /\ MrxCap \in Nat
  /\ InboxCap \in Nat
  /\ Prompt \in BOOLEAN
  /\ \A i \in DOMAIN Polled : \A v \in Content[Wire(Polled[i]) + 1] :
       v \in Nat /\ v \div 65536 \in IF Wide(Polled[i]) THEN Word ELSE {0}

VARIABLES
  half,      \* which half of loop() runs next
  writes,    \* writes_
  pend,      \* pending_, pending_addr_, pending_fc_, pending_cnt_
  retry,     \* retry_
  pollIdx,   \* poll_idx_ modulo the size of polled_
  mrx,       \* mrx_
  uart,      \* bytes on the line and in the UART, not yet read
  inbox,     \* requests the pump has not answered
  garbled,   \* replies damaged so far
  fate,      \* history: what has become of each write request
  sends,     \* history: how often each was transmitted
  applied,   \* history: the write requests the pump has carried out
  latest,    \* history: the last one it carried out
  pub        \* history: what on_value was last called with

driver  == <<half, writes, pend, retry, pollIdx, mrx>>
line    == <<uart, inbox, garbled>>
history == <<fate, sends, applied, latest, pub>>
vars    == <<driver, line, history>>

-----------------------------------------------------------------------------
(* decode_modbus_ refuses what lies outside the range, where there is one. *)
InRange(a, v) ==
  \/ Meta[a].min = 0 /\ Meta[a].max = 0
  \/ v \in Meta[a].min .. Meta[a].max

IsRead(fc)  == fc \in {3, 4}
IsWrite(fc) == fc \in {6, 16}

(* Frames: a body and its checksum, low byte first.                        *)
Hi(x) == x \div 256
Lo(x) == x % 256

Framed(body) == body \o <<Lo(Checksum(body)), Hi(Checksum(body))>>

CrcUnchecked(f) == TRUE

CrcOk(f) ==
  LET n == Len(f)
  IN  Checksum(SubSeq(f, 1, n - 2)) = f[n - 1] + 256 * f[n]

Exception(fc) == fc + 128

-----------------------------------------------------------------------------
(* queue_write: requests below 20000 are dropped; when QueueCap wait, the  *)
(* oldest gives way.  The raw value of a request is its number.            *)
IsNext(w) == fate[w] = "none" /\ \A v \in Request : v < w => fate[v] # "none"

IsWritable(a) == a >= 20000

QueueWriteDropNewest(w, a) ==
  /\ IsNext(w) /\ IsWritable(a)
  /\ LET kept == IF Len(writes) >= QueueCap THEN SubSeq(writes, 1, QueueCap - 1) ELSE writes
     IN  writes' = Append(kept, [addr |-> a, raw |-> w])
  /\ fate' = [v \in Request |->
                IF v = w THEN "queued"
                ELSE IF Len(writes) >= QueueCap /\ v = writes[QueueCap].raw
                     THEN "overflowed" ELSE fate[v]]
  /\ UNCHANGED <<half, pend, retry, pollIdx, mrx, line, sends, applied, latest, pub>>

QueueWrite(w, a) ==
  /\ IsNext(w)
  /\ \/ /\ ~IsWritable(a)
        /\ fate' = [fate EXCEPT ![w] = "refused"]
        /\ UNCHANGED writes
     \/ /\ IsWritable(a)
        /\ Len(writes) >= QueueCap
        /\ writes' = Append(Tail(writes), [addr |-> a, raw |-> w])
        /\ fate' = [fate EXCEPT ![w] = "queued", ![Head(writes).raw] = "overflowed"]
     \/ /\ IsWritable(a)
        /\ Len(writes) < QueueCap
        /\ writes' = Append(writes, [addr |-> a, raw |-> w])
        /\ fate' = [fate EXCEPT ![w] = "queued"]
  /\ UNCHANGED <<half, pend, retry, pollIdx, mrx, line, sends, applied, latest, pub>>

(* writes_.pop(), when there is one                                        *)
PopWrite(outcome) ==
  IF writes = <<>> THEN UNCHANGED <<writes, fate>>
  ELSE /\ writes' = Tail(writes)
       /\ fate' = [fate EXCEPT ![Head(writes).raw] = outcome]

NextIdxUnwrapped(i) == i + 1

NextIdx(i) == IF i + 1 < Len(Polled) THEN i + 1 ELSE 0

-----------------------------------------------------------------------------
(* on_modbus_frame_: the outcomes of one frame.                            *)
Idle == [pend EXCEPT !.on = FALSE]

Ignore == UNCHANGED <<pend, retry, writes, pollIdx, fate, pub>>

(* fail_: the third failure gives the request up.                          *)
Fail ==
  /\ pend' = Idle
  /\ UNCHANGED pub
  /\ IF retry + 1 >= Attempts
     THEN /\ retry' = 0
          /\ IF IsWrite(pend.fc)
             THEN PopWrite("abandoned") /\ UNCHANGED pollIdx
             ELSE pollIdx' = NextIdx(pollIdx) /\ UNCHANGED <<writes, fate>>
     ELSE retry' = retry + 1 /\ UNCHANGED <<writes, fate, pollIdx>>

Value(f) ==
  IF pend.cnt = 2
  THEN (f[4] * 256 + f[5]) * 65536 + f[6] * 256 + f[7]
  ELSE f[4] * 256 + f[5]

(* decode_modbus_ for unsigned registers of factor 1.  Signs and factors   *)
(* are Values' matter: here they would change the value and the range, not *)
(* what becomes of a reply that is in range or of one that is not.         *)
Decodes(f) == Known(pend.addr) /\ InRange(pend.addr, Value(f))

ReadReplyOk(f) == f[3] = 2 * pend.cnt /\ CrcOk(f) /\ Decodes(f)

EchoOk(f) ==
  CrcOk(f) /\ f[3] = Hi(Wire(pend.addr)) /\ f[4] = Lo(Wire(pend.addr))

AcceptRead(f) ==
  /\ pend' = Idle
  /\ retry' = 0
  /\ pollIdx' = NextIdx(pollIdx)
  /\ pub' = [addr |-> pend.addr, value |-> Value(f)]
  /\ UNCHANGED <<writes, fate>>

AcceptEchoStillPending ==
  /\ retry' = 0
  /\ PopWrite("acked")
  /\ UNCHANGED <<pollIdx, pub, pend>>

AcceptEcho ==
  /\ pend' = Idle
  /\ retry' = 0
  /\ PopWrite("acked")
  /\ UNCHANGED <<pollIdx, pub>>

OnModbusFrameExceptionAsEcho(f) ==
  IF f[2] \notin {pend.fc, Exception(pend.fc)} THEN Ignore
  ELSE IF IsWrite(pend.fc)
       THEN IF CrcOk(f) THEN AcceptEcho ELSE Fail
       ELSE IF ReadReplyOk(f) THEN AcceptRead(f) ELSE Fail

OnModbusFrame(f) ==
  CASE f[2] = Exception(pend.fc) -> IF CrcOk(f) THEN Fail ELSE Ignore
    [] f[2] = pend.fc /\ IsRead(pend.fc) ->
         IF ReadReplyOk(f) THEN AcceptRead(f) ELSE Fail
    [] f[2] = pend.fc /\ IsWrite(pend.fc) ->
         IF EchoOk(f) THEN AcceptEcho ELSE Fail
    [] OTHER -> Ignore

-----------------------------------------------------------------------------
(* The receiving half of loop().  Bytes that are not the slave's address   *)
(* are skipped; what follows is cut by the length the pending request      *)
(* calls for, or as an exception, and left alone while it is too short.    *)
Newest(s, n) == IF Len(s) > n THEN SubSeq(s, Len(s) - n + 1, Len(s)) ELSE s

Skips(s, j) ==
  /\ \A i \in 1..j : s[i] # Slave
  /\ j < Len(s) => s[j + 1] = Slave

NeedOneMore == IF IsRead(pend.fc) THEN 6 + 2 * pend.cnt ELSE 9

Need == IF IsRead(pend.fc) THEN 5 + 2 * pend.cnt ELSE 8

Cut(s) ==
  IF Len(s) >= 5 /\ s[2] = Exception(pend.fc) THEN 5
  ELSE IF Len(s) >= Need THEN Need ELSE 0

Parse(s) ==
  IF Cut(s) = 0 THEN mrx' = s /\ Ignore
  ELSE /\ mrx' = SubSeq(s, Cut(s) + 1, Len(s))
       /\ OnModbusFrame(SubSeq(s, 1, Cut(s)))

LoopReceive(k) ==
  /\ half = "receive"
  /\ half' = "poll"
  /\ k \in 0..Len(uart)
  /\ uart' = SubSeq(uart, k + 1, Len(uart))
  /\ LET s == Newest(mrx \o SubSeq(uart, 1, k), MrxCap)
     IN  IF pend.on
         THEN \E j \in 0..Len(s) : Skips(s, j) /\ Parse(SubSeq(s, j + 1, Len(s)))
         ELSE mrx' = s /\ Ignore
  /\ UNCHANGED <<inbox, garbled, sends, applied, latest>>

-----------------------------------------------------------------------------
(* poll_one_: a request that is still pending has timed out, and the third *)
(* failure gives up; then the oldest write goes out, else the next read.   *)
ExpiredLate == pend.on /\ retry + 1 > Attempts

Expired == pend.on /\ retry + 1 >= Attempts

QueueRotated ==
  IF pend.on /\ writes # <<>> THEN Append(Tail(writes), Head(writes)) ELSE writes

QueueAfterTimeout == IF Expired /\ writes # <<>> THEN Tail(writes) ELSE writes
IdxUnmoved == pollIdx

IdxAfterTimeout   == IF Expired /\ writes = <<>> THEN NextIdx(pollIdx) ELSE pollIdx

TimeOut ==
  /\ writes' = QueueAfterTimeout
  /\ pollIdx' = IdxAfterTimeout
  /\ retry' = IF ~pend.on THEN retry ELSE IF Expired THEN 0 ELSE retry + 1
  /\ fate' = IF Expired /\ writes # <<>>
             THEN [fate EXCEPT ![Head(writes).raw] = "abandoned"]
             ELSE fate

(* tx_: the pump hears the request unless it holds InboxCap already.       *)
Tx(req) ==
  inbox' = IF Len(inbox) < InboxCap THEN Append(inbox, req) ELSE inbox

SendWrite(w) ==
  LET fc == IF Wide(w.addr) THEN 16 ELSE WriteFc
  IN  /\ pend' = [on |-> TRUE, addr |-> w.addr, fc |-> fc, cnt |-> Words(w.addr)]
      /\ Tx([fc |-> fc, wire |-> Wire(w.addr), cnt |-> Words(w.addr), data |-> w.raw])
      /\ sends' = [sends EXCEPT ![w.raw] = @ + 1]

SendRead(a) ==
  /\ pend' = [on |-> TRUE, addr |-> a, fc |-> ReadFc(a), cnt |-> Words(a)]
  /\ Tx([fc |-> ReadFc(a), wire |-> Wire(a), cnt |-> Words(a), data |-> 0])
  /\ UNCHANGED sends

SendNothing == pend' = Idle /\ UNCHANGED <<inbox, sends>>

PollOneReadsFirst ==
  /\ TimeOut
  /\ \/ Polled # <<>> /\ SendRead(Polled[IdxAfterTimeout + 1])
     \/ Polled = <<>> /\ QueueAfterTimeout # <<>> /\ SendWrite(Head(QueueAfterTimeout))
     \/ Polled = <<>> /\ QueueAfterTimeout = <<>> /\ SendNothing
  /\ UNCHANGED <<mrx, uart, garbled, applied, latest, pub>>

PollOne ==
  /\ TimeOut
  /\ \/ QueueAfterTimeout # <<>> /\ SendWrite(Head(QueueAfterTimeout))
     \/ QueueAfterTimeout = <<>> /\ Polled # <<>> /\ SendRead(Polled[IdxAfterTimeout + 1])
     \/ QueueAfterTimeout = <<>> /\ Polled = <<>> /\ SendNothing
  /\ UNCHANGED <<mrx, uart, garbled, applied, latest, pub>>

(* Under Prompt the 5 s are long enough for the answer to have come and    *)
(* been handled: nothing is on its way, and mrx_ holds no frame.           *)
Settled ==
  /\ inbox = <<>> /\ uart = <<>>
  /\ pend.on => \A j \in 0..Len(mrx) :
                  Skips(mrx, j) => Cut(SubSeq(mrx, j + 1, Len(mrx))) = 0

LoopPollDue ==
  /\ half = "poll"
  /\ Prompt => Settled
  /\ half' = "receive"
  /\ PollOne

LoopPollNotDue ==
  /\ half = "poll"
  /\ half' = "receive"
  /\ UNCHANGED <<writes, pend, retry, pollIdx, mrx, line, history>>

-----------------------------------------------------------------------------
(* The heat pump and the line: external, as a Modbus-RTU slave behaves.    *)
Addr(req) == req.wire + 1

ReadReply(req, v) ==
  <<Slave, req.fc, 2 * req.cnt>> \o
  (IF req.cnt = 2 THEN <<Hi(v \div 65536), Lo(v \div 65536)>> ELSE <<>>) \o
  <<Hi(v % 65536), Lo(v % 65536)>>

Echo(req) ==
  <<Slave, req.fc, Hi(req.wire), Lo(req.wire)>> \o
  (IF req.fc = 6 THEN <<Hi(req.data), Lo(req.data)>> ELSE <<0, req.cnt>>)

CarryOut(req) ==
  IF IsWrite(req.fc)
  THEN applied' = applied \cup {req.data} /\ latest' = req.data
  ELSE UNCHANGED <<applied, latest>>

Replies(req) ==
  IF IsWrite(req.fc) THEN {Framed(Echo(req))}
  ELSE {Framed(ReadReply(req, v)) : v \in Content[Addr(req)]}

\* loop() reads the UART many times between one reply and the next.
LineFree == inbox # <<>> /\ uart = <<>>

Answer ==
  /\ LineFree
  /\ CarryOut(Head(inbox))
  /\ \E r \in Replies(Head(inbox)) : uart' = uart \o r
  /\ inbox' = Tail(inbox)
  /\ UNCHANGED <<driver, garbled, fate, sends, pub>>

(* A reply of which one byte is damaged; 128 makes a function code that of *)
(* an exception, which is cut after five bytes.                            *)
Garble ==
  /\ LineFree /\ garbled < MaxGarbled
  /\ CarryOut(Head(inbox))
  /\ \E r \in Replies(Head(inbox)) :
       \E i \in DOMAIN r, d \in Noise : uart' = uart \o [r EXCEPT ![i] = (@ + d) % 256]
  /\ inbox' = Tail(inbox)
  /\ garbled' = garbled + 1
  /\ UNCHANGED <<driver, fate, sends, pub>>

(* An exception reply: the request is not carried out.                     *)
Decline ==
  /\ LineFree
  /\ uart' = uart \o Framed(<<Slave, Exception(Head(inbox).fc), 2>>)
  /\ inbox' = Tail(inbox)
  /\ UNCHANGED <<driver, garbled, history>>

(* A request that never arrives, and an answer that never does.            *)
LoseRequest ==
  /\ inbox # <<>>
  /\ inbox' = Tail(inbox)
  /\ UNCHANGED <<driver, uart, garbled, history>>

LoseAnswer ==
  /\ inbox # <<>>
  /\ CarryOut(Head(inbox))
  /\ inbox' = Tail(inbox)
  /\ UNCHANGED <<driver, uart, garbled, fate, sends, pub>>

Pump == Answer \/ Garble \/ Decline \/ LoseRequest \/ LoseAnswer

-----------------------------------------------------------------------------
NoRequest == [on |-> FALSE, addr |-> 0, fc |-> 0, cnt |-> 0]
NoValue   == [addr |-> 0, value |-> 0]

Init ==
  /\ half = "receive"
  /\ writes = <<>>
  /\ pend = NoRequest
  /\ retry = 0
  /\ pollIdx = 0
  /\ mrx = <<>>
  /\ uart = <<>>
  /\ inbox = <<>>
  /\ garbled = 0
  /\ fate = [w \in Request |-> "none"]
  /\ sends = [w \in Request |-> 0]
  /\ applied = {}
  /\ latest = 0
  /\ pub = NoValue

Loop == (\E k \in 0..Len(uart) : LoopReceive(k)) \/ LoopPollDue \/ LoopPollNotDue

Next ==
  \/ \E w \in Request, a \in WriteAddrs : QueueWrite(w, a)
  \/ Loop
  \/ Pump

Spec == Init /\ [][Next]_vars

(* loop() is called for ever and the 5 s pass again and again; every byte  *)
(* that has come in is read sooner or later; a request is answered or not. *)
Fairness ==
  /\ WF_vars(Loop)
  /\ SF_vars(LoopReceive(Len(uart)))
  /\ SF_vars(LoopPollDue)
  /\ WF_vars(Pump)

FairSpec == Spec /\ Fairness

-----------------------------------------------------------------------------
WriteReq == [addr : Word, raw : Request]
BusReq   == [fc : {3, 4, 6, 16}, wire : Word, cnt : {1, 2}, data : Word]
Fate     == {"none", "refused", "queued", "overflowed", "acked", "abandoned"}

DriverOK ==
  /\ half \in {"receive", "poll"}
  /\ writes \in Seq(WriteReq)
  /\ Len(writes) <= QueueCap
  /\ pend \in [on : BOOLEAN, addr : Word, fc : {0, 3, 4, 6, 16}, cnt : {0, 1, 2}]
  /\ retry \in 0 .. Attempts - 1
  /\ pollIdx \in Nat
  /\ Polled # <<>> => pollIdx < Len(Polled)
  /\ fate \in [Request -> Fate]
  /\ sends \in [Request -> Nat]

LineOK ==
  /\ mrx \in Seq(Byte)
  /\ uart \in Seq(Byte)
  /\ inbox \in Seq(BusReq)
  /\ garbled \in 0..MaxGarbled
  /\ applied \subseteq Request
  /\ latest \in 0..MaxWrites

TypeOK == DriverOK /\ LineOK

-----------------------------------------------------------------------------
(* The write queue: what waits is marked so, nothing waits twice, and only *)
(* the front may have been on the wire.                                    *)
QueueInv ==
  /\ \A i \in 1..Len(writes) : fate[writes[i].raw] = "queued"
  /\ \A i, j \in 1..Len(writes) : writes[i].raw = writes[j].raw => i = j
  /\ \A i \in 2..Len(writes) : sends[writes[i].raw] = 0
  /\ \A w \in Request : fate[w] = "none" => sends[w] = 0

(* retry_ counts the transmissions of the front write, less the one that   *)
(* is still pending; while a read is pending no waiting write was sent.    *)
AttemptsInv ==
  writes # <<>> =>
    LET n == sends[writes[1].raw]
    IN  /\ ~pend.on => n <= retry
        /\ pend.on /\ IsWrite(pend.fc) => n <= retry + 1
        /\ pend.on /\ ~IsWrite(pend.fc) => n = 0

(* A write request is put on the wire three times at most, whatever is     *)
(* lost, damaged or refused, and whatever is queued meanwhile (retry_ is   *)
(* one counter for reads and writes alike).                                *)
BoundedRetransmission == \A w \in Request : sends[w] <= Attempts

(* The request that is out belongs to the driver's current target: a read  *)
(* is for the register under the cursor, and while a write is out the      *)
(* queue is not empty, so that popping on its outcome pops something.      *)
RequestHasTarget ==
  pend.on =>
    /\ IsRead(pend.fc) => Polled # <<>> /\ pend.addr = Polled[pollIdx + 1]
    /\ IsWrite(pend.fc) => writes # <<>>

(* Retries never take the pump back to an older command: once a write has  *)
(* been carried out, no earlier one is carried out after it.               *)
NeverBackwards == [][latest' >= latest]_vars

(* As long as the queue has not overflowed, a write that is reported done  *)
(* has been carried out by the pump.                                       *)
AckedWasApplied ==
  (\A w \in Request : fate[w] # "overflowed") =>
    \A w \in Request : fate[w] = "acked" => w \in applied

(* A value that reaches the entities of a register was read from that      *)
(* register, undamaged, and lies within its range.                         *)
Attribution ==
  pub # NoValue =>
    pub.value \in Content[pub.addr] /\ InRange(pub.addr, pub.value)

(* A write that is given up has been on the wire: the timeout path drops   *)
(* the "failing write".                                                    *)
AbandonedWasSent == \A w \in Request : fate[w] = "abandoned" => sends[w] > 0

(* Every write request leaves the queue, even if the pump never answers.   *)
WritesResolve == \A w \in Request : fate[w] = "queued" ~> fate[w] # "queued"

(* No register is left out of the polling, even if others never answer.    *)
ReadsGoOn ==
  \A i \in DOMAIN Polled :
    []<>(pend.on /\ IsRead(pend.fc) /\ pend.addr = Polled[i])

(* Undamaged replies get through, whatever a damaged one has left behind:  *)
(* a register whose value the pump sends again and again, complete and     *)
(* within its range, reaches its entities again and again.                 *)
Answered(i) ==
  /\ pend.on /\ pend.addr = Polled[i] /\ Known(Polled[i])
  /\ \E v \in Content[Polled[i]] :
       /\ InRange(Polled[i], v)
       /\ uart = Framed(ReadReply([fc |-> pend.fc, cnt |-> pend.cnt], v))

RepliesGetThrough ==
  \A i \in DOMAIN Polled : []<>Answered(i) => []<>(pub.addr = Polled[i])

(* The driver keeps the promise both transports make about writes.         *)
Promise == INSTANCE WriteService WITH Cap <- QueueCap, MaxAttempts <- Attempts

ImplementsWriteService == Promise!Spec
=============================================================================
