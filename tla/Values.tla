------------------------------- MODULE Values -------------------------------
(***************************************************************************)
(* What the words of a register mean and what is sent to change them:      *)
(* decode_modbus_(), the walk through a NIBE value message in on_frame_(), *)
(* HeatWhisperNumber::control(), encode_write() and the write requests of  *)
(* poll_one_().                                                            *)
(*                                                                         *)
(* A register of the catalog is a record [size, factor, min, max, wo].     *)
(* Its raw number is an integer; the value it stands for is a multiple of  *)
(* 1/Unit, where every factor divides Unit, in place of the code's float.  *)
(* Bytes are taken in pairs, as the 16-bit words all of the code steps by. *)
(***************************************************************************)
EXTENDS Integers, Sequences

CONSTANT Unit

Word == 0..65535

Wide(reg)   == reg.size \in {"u32", "s32"}
Factor(reg) == IF reg.factor = 0 THEN 1 ELSE reg.factor
Ranged(reg) == (reg.min # 0 \/ reg.max # 0) /\ reg.factor # 0

Scaled(reg, raw) == raw * (Unit \div Factor(reg))

\* A value beyond the catalog's range is corrupt and passed over.
InRange(reg, raw) == Ranged(reg) => raw \in reg.min .. reg.max

Signed(x, n) == IF x >= n \div 2 THEN x - n ELSE x

Joined(reg, hi, lo) == (IF reg.size = "s32" THEN Signed(hi, 65536) ELSE hi) * 65536 + lo

-----------------------------------------------------------------------------
(* decode_modbus_                                                          *)
RawModbus(reg, words) ==
  CASE reg.size = "u8"  -> words[1] % 256
    [] reg.size = "s8"  -> Signed(words[1] % 256, 256)
    [] reg.size = "s16" -> Signed(words[1], 65536)
    [] reg.size = "u16" -> words[1]
    [] Wide(reg) /\ reg.wo = 1 -> Joined(reg, words[2], words[1])
    [] Wide(reg) /\ reg.wo = 0 -> Joined(reg, words[1], words[2])

(* on_frame_, value messages.  The register is at i in the message; a wide *)
(* one spreads over two entries of a 0x68 list, and is in one piece, high  *)
(* word first, in any other message.                                       *)
RawNibe(reg, cmd, words, i) ==
  CASE reg.size \in {"u8", "u16"} -> words[i + 1]
    [] reg.size = "s8" -> IF words[i + 1] \in 129..32767 THEN words[i + 1] - 256
                          ELSE Signed(words[i + 1], 65536)
    [] reg.size = "s16" -> Signed(words[i + 1], 65536)
    [] Wide(reg) /\ cmd = "list" -> Joined(reg, words[i + 3], words[i + 1])
    [] Wide(reg) /\ cmd # "list" -> Joined(reg, words[i + 1], words[i + 2])

NeedAsInList(reg, cmd) == IF Wide(reg) THEN 4 ELSE 2

Need(reg, cmd) == IF ~Wide(reg) THEN 2 ELSE IF cmd = "list" THEN 4 ELSE 3

ReadingOf(addr, reg, raw) == IF InRange(reg, raw) THEN <<[addr |-> addr, value |-> Scaled(reg, raw)]>>
                             ELSE <<>>

\* The calls of on_value() that one message leads to.
Heard(meta, cmd, words) ==
  LET walk[i \in 1 .. Len(words) + 3] ==
        IF i + 1 > Len(words) THEN <<>>
        ELSE IF words[i] \notin DOMAIN meta THEN walk[i + 2]
        ELSE LET reg  == meta[words[i]]
                 next == i + Need(reg, cmd)
             IN  IF next > Len(words) + 1 THEN <<>>
                 ELSE ReadingOf(words[i], reg, RawNibe(reg, cmd, words, i)) \o walk[next]
  IN  walk[1]

-----------------------------------------------------------------------------
(* HeatWhisperNumber::control: lround of the value x times the factor, cut *)
(* to the range of the register; and what it then shows.                   *)
LroundDown(x, factor) == (x * factor) \div Unit

\* Halves go away from zero.
Lround(x, factor) ==
  IF x >= 0 THEN (2 * x * factor + Unit) \div (2 * Unit)
  ELSE -((-2 * x * factor + Unit) \div (2 * Unit))

Clamped(reg, raw) ==
  IF ~Ranged(reg) THEN raw
  ELSE IF raw < reg.min THEN reg.min
  ELSE IF raw > reg.max THEN reg.max
  ELSE raw

RawToWrite(reg, x) == Clamped(reg, Lround(x, Factor(reg)))

ShownAfter(reg, x) == IF Ranged(reg) THEN Scaled(reg, RawToWrite(reg, x)) ELSE x

\* encode_write: the two low and the two high bytes of the raw number.
NibeWrite(raw) == <<raw % 65536, (raw \div 65536) % 65536>>

\* poll_one_: the words of an FC06 or FC16 request, whatever the word order
\* of the register.
ModbusWrite(reg, raw) ==
  IF Wide(reg) THEN <<(raw \div 65536) % 65536, raw % 65536>> ELSE <<raw % 65536>>
=============================================================================
