--------------------------- MODULE MCModbusMaster ---------------------------
(* Small instances of ModbusMaster for TLC.                                *)
EXTENDS ModbusMaster, FiniteSets, TLC

C16 == INSTANCE Crc16

MCCrc(bytes) == C16!FastCrc(bytes)

\* A checksum that TLC computes quickly and that notices damage to a single
\* byte as well, for the runs that need not tell it from the true one.
PolyCrc(bytes) ==
  LET c[n \in 0..Len(bytes)] ==
        IF n = 0 THEN 65535 ELSE (31 * c[n - 1] + bytes[n]) % 65521
  IN  c[Len(bytes)]

\* Registers of the catalog's kinds: a 16-bit holding register, and a 16-bit
\* input register with a range.
MCMeta == 40033 :> [wide |-> FALSE, fc |-> 3, min |-> 0, max |-> 0]
       @@ 30013 :> [wide |-> FALSE, fc |-> 4, min |-> 0, max |-> 100]

OnePolled == <<40033>>
TwoPolled == <<40033, 30013>>

MCContent == 40033 :> {20} @@ 30013 :> {33, 200}

\* Registers that read 1, the slave's address.
OnContent == 40033 :> {1} @@ 30013 :> {1}
=============================================================================
