----------------------------- MODULE NibeFraming -----------------------------
(***************************************************************************)
(* How HeatWhisper finds the pump's frames in the bytes of the NIBE bus:   *)
(* the NIBE half of HeatWhisperComponent::loop() and calc_crc_5c().        *)
(*                                                                         *)
(* A frame is 5C 00 ADDR CMD LEN DATA CHK; a 5C in the data is sent twice, *)
(* LEN counts both, and a checksum of 5C is sent as C5.  loop() drains the *)
(* UART into rx_ and scans it until no complete frame is left; one action  *)
(* here is one iteration of that scan.                                     *)
(*                                                                         *)
(* The pump sends its messages round and round; last and count tell which  *)
(* of them on_frame_() has got.                                            *)
(***************************************************************************)
EXTENDS Bytes, Sequences, SequencesExt

CONSTANTS
  Messages,    \* what the pump sends: a sequence of [to, cmd, data]
  DamagedTo,   \* bytes a damaged byte may turn into
  MaxDamaged,  \* bound: frames damaged on the line
  LineCap,     \* bound: bytes on the line and in the UART
  Prompt       \* TRUE: loop() has read and scanned a frame before the next

Start  == 92     \* 5C
Swap   == 197    \* C5
MaxLen == 128
RxCap  == 512

\* The pump sends a 5C of its data twice.
Sent(b) == IF b = Start THEN <<b, b>> ELSE <<b>>

Escaped(data) ==
  LET e[n \in 0..Len(data)] == IF n = 0 THEN <<>> ELSE e[n - 1] \o Sent(data[n])
  IN  e[Len(data)]

ASSUME FramingAssumption ==
  /\ Messages \in Seq([to : Byte, cmd : Byte, data : Seq(Byte)]) /\ Messages # <<>>
  /\ \A i \in DOMAIN Messages : Len(Escaped(Messages[i].data)) <= MaxLen
  /\ DamagedTo \subseteq Byte
  /\ MaxDamaged \in Nat /\ LineCap \in Nat
  /\ Prompt \in BOOLEAN

VARIABLES
  line,      \* bytes on the line and in the UART, not yet read
  rx,        \* rx_
  scanning,  \* loop() is in its for(;;)
  turn,      \* the message the pump sends next
  damaged,   \* frames damaged so far
  last,      \* history: the last frame on_frame_() was called with
  count      \* history: how many it was called with, in rounds of Messages

vars == <<line, rx, scanning, turn, damaged, last, count>>

Following(i) == (i % Len(Messages)) + 1

-----------------------------------------------------------------------------
(* calc_crc_5c: all bytes from ADDR to the last of DATA.                   *)
Sum(bytes) ==
  LET c[n \in 0..Len(bytes)] == IF n = 0 THEN 0 ELSE ByteXor[c[n - 1]][bytes[n]]
  IN  c[Len(bytes)]

SumOk(calc, wire) == calc = wire \/ (calc = Start /\ wire = Swap)

UnsqueezedData(data) == data

(* The squeeze: as long as two neighbours in the data are both 5C, one of  *)
(* them goes; what stays of a run of 5C is one.                            *)
Squeezed(data) ==
  LET Doubled(n) == n > 1 /\ data[n] = Start /\ data[n - 1] = Start
      d[n \in 0..Len(data)] ==
        IF n = 0 THEN <<>>
        ELSE IF Doubled(n) THEN d[n - 1] ELSE Append(d[n - 1], data[n])
  IN  d[Len(data)]

LenField(r)  == r[5]
Complete(r)  == Len(r) >= LenField(r) + 6
HeaderOkAnyLen(r) == r[2] = 0

HeaderOk(r)  == r[2] = 0 /\ LenField(r) <= MaxLen
ChecksumOk(r) ==
  SumOk(Sum(SubSeq(r, 3, LenField(r) + 5)), r[LenField(r) + 6])

\* nothing is wrong with the header, nor with the checksum if it is there
Plausible(r) == HeaderOk(r) /\ (Complete(r) => ChecksumOk(r))

Received(r) ==
  [to |-> r[3], cmd |-> r[4], data |-> Squeezed(SubSeq(r, 6, LenField(r) + 5))]

\* only a 06 in front of the 5C goes
AlignedPastAck(s) ==
  IF Len(s) >= 2 /\ s[1] = 6 /\ s[2] = Start THEN Tail(s) ELSE s

\* rx_ without what comes before the first 5C, a leading 06 included
Aligned(s) ==
  LET starts == {i \in DOMAIN s : s[i] = Start}
  IN  IF starts = {} THEN <<>>
      ELSE SubSeq(s, CHOOSE i \in starts : \A j \in starts : i <= j, Len(s))

-----------------------------------------------------------------------------
Newest(s, n) == IF Len(s) > n THEN SubSeq(s, Len(s) - n + 1, Len(s)) ELSE s

Drain(k) ==
  /\ ~scanning
  /\ k \in 0..Len(line)
  /\ rx' = Newest(rx \o SubSeq(line, 1, k), RxCap)
  /\ line' = SubSeq(line, k + 1, Len(line))
  /\ scanning' = TRUE
  /\ UNCHANGED <<turn, damaged, last, count>>

Await(r) ==
  /\ Len(r) >= 5 => Plausible(r) /\ ~Complete(r)
  /\ rx' = r
  /\ scanning' = FALSE
  /\ UNCHANGED <<last, count>>

RejectKeeping(r) ==
  /\ Len(r) >= 5 /\ ~Plausible(r)
  /\ rx' = r
  /\ UNCHANGED <<scanning, last, count>>

\* Only the 5C goes: the scan resumes inside the frame.
Reject(r) ==
  /\ Len(r) >= 5 /\ ~Plausible(r)
  /\ rx' = Tail(r)
  /\ UNCHANGED <<scanning, last, count>>

HandOver(r) ==
  /\ Len(r) >= 5 /\ Plausible(r) /\ Complete(r)
  /\ rx' = SubSeq(r, LenField(r) + 7, Len(r))
  /\ last' = Received(r)
  /\ count' = Following(count)
  /\ UNCHANGED scanning

Scan ==
  /\ scanning
  /\ LET r == Aligned(rx) IN Await(r) \/ Reject(r) \/ HandOver(r)
  /\ UNCHANGED <<line, turn, damaged>>

-----------------------------------------------------------------------------
(* The pump and the line: external.                                        *)
OnWire(m) ==
  LET body == <<m.to, m.cmd, Len(Escaped(m.data))>> \o Escaped(m.data)
      sum  == Sum(body)
  IN  <<Start, 0>> \o body \o <<IF sum = Start THEN Swap ELSE sum>>

Send(bytes) ==
  /\ Len(line) + Len(bytes) <= LineCap
  /\ Prompt => line = <<>> /\ ~scanning
  /\ line' = line \o bytes
  /\ turn' = Following(turn)
  /\ UNCHANGED <<rx, scanning, last, count>>

PumpSends == Send(OnWire(Messages[turn])) /\ UNCHANGED damaged

(* One byte of a frame is changed, or lost.                                *)
PumpSendsDamaged ==
  /\ damaged < MaxDamaged
  /\ damaged' = damaged + 1
  /\ LET f == OnWire(Messages[turn])
     IN  \E i \in DOMAIN f :
           \/ \E b \in DamagedTo \ {f[i]} : Send([f EXCEPT ![i] = b])
           \/ Send(RemoveAt(f, i))

-----------------------------------------------------------------------------
Init ==
  /\ line = <<>>
  /\ rx = <<>>
  /\ scanning = FALSE
  /\ turn = 1
  /\ damaged = 0
  /\ last = Messages[Len(Messages)]
  /\ count = Len(Messages)

Next ==
  \/ \E k \in 0..Len(line) : Drain(k)
  \/ Scan
  \/ PumpSends
  \/ PumpSendsDamaged

Spec == Init /\ [][Next]_vars

(* loop() is called for ever, comes to its end each time, and reads every  *)
(* byte sooner or later; the pump sends for ever.                          *)
FairSpec ==
  /\ Spec
  /\ WF_vars(Scan)
  /\ WF_vars(Drain(Len(line)))
  /\ SF_vars(Drain(Len(line)))
  /\ SF_vars(PumpSends)

-----------------------------------------------------------------------------
(* What waits in rx_ between calls of loop() is the front of a frame.      *)
TypeOK ==
  /\ line \in Seq(Byte) /\ Len(line) <= LineCap
  /\ rx \in Seq(Byte)   /\ Len(rx) <= RxCap
  /\ ~scanning /\ rx # <<>> => rx[1] = Start
  /\ scanning \in BOOLEAN
  /\ turn \in 1..Len(Messages) /\ count \in 1..Len(Messages)
  /\ damaged \in 0..MaxDamaged
  /\ last \in [to : Byte, cmd : Byte, data : Seq(Byte)]

(* On an undamaged line on_frame_() gets the messages the pump sends, each *)
(* once, in order, with their data restored, however the bytes are cut up  *)
(* into calls of loop(); and once all bytes are read it has got them all.  *)
CleanDelivery ==
  damaged = 0 =>
    /\ last = Messages[count]
    /\ line = <<>> /\ ~scanning => Following(count) = turn

(* Between calls of loop(), rx_ holds less than one frame of the greatest  *)
(* length: the limit of 512 bytes is a reserve that no length byte reaches.*)
BufferBounded == ~scanning => Len(rx) < MaxLen + 6

(* After any damage, a false start or a false length included, each of the *)
(* pump's messages gets through again.                                     *)
Recovers == \A i \in DOMAIN Messages : []<>(last = Messages[i])
=============================================================================
