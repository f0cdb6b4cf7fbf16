-------------------------------- MODULE Crc16 --------------------------------
(***************************************************************************)
(* HeatWhisperComponent::crc16_modbus: the CRC-16 of Modbus-RTU, polynomial*)
(* 0xA001 (40961), initial value 0xFFFF.                                   *)
(*                                                                         *)
(* Crc is the code's loop over bytes and bits.  FastCrc computes the same  *)
(* a byte at a time from a table, and is what the model-checking modules   *)
(* give ModbusMaster; Codec compares the two.                              *)
(***************************************************************************)
EXTENDS Bytes, Sequences

\* Exclusive or of two 16-bit words.
Xor(x, y) == 256 * ByteXor[x \div 256][y \div 256] + ByteXor[x % 256][y % 256]

ShiftPlain(c) == c \div 2

\* With the polynomial as the standard prints it, highest power first.
ShiftUnreflected(c) == IF c % 2 = 1 THEN Xor(c \div 2, 32773) ELSE c \div 2

Shift(c) == IF c % 2 = 1 THEN Xor(c \div 2, 40961) ELSE c \div 2

FourShifts(c) == Shift(Shift(Shift(Shift(c))))

EightShifts(c) == FourShifts(FourShifts(c))

\* The loop over the bytes, from what crc is at its start.
CrcFrom(start, bytes) ==
  LET c[n \in 0..Len(bytes)] == IF n = 0 THEN start ELSE EightShifts(Xor(c[n - 1], bytes[n]))
  IN  c[Len(bytes)]

CrcFromZero(bytes) == CrcFrom(0, bytes)

Crc(bytes) == CrcFrom(65535, bytes)

\* The end of poll_one_(): the request and its checksum, low byte first.
Sealed(bytes) == LET c == Crc(bytes) IN bytes \o <<c % 256, c \div 256>>

\* The comparison that on_modbus_frame_() makes.
CrcHolds(f) ==
  LET n == Len(f) IN Crc(SubSeq(f, 1, n - 2)) = f[n - 1] + 256 * f[n]

-----------------------------------------------------------------------------
CrcTable == [x \in Byte |-> EightShifts(x)]

\* CrcTable[x] ^ h for a byte h
Mix(t, h) == 256 * (t \div 256) + ByteXor[t % 256][h]

FastCrc(bytes) ==
  LET c[n \in 0..Len(bytes)] ==
        IF n = 0 THEN 65535
        ELSE LET d == c[n - 1]
             IN  Mix(CrcTable[ByteXor[d % 256][bytes[n]]], d \div 256)
  IN  c[Len(bytes)]
=============================================================================
