-------------------------------- MODULE Codec --------------------------------
(***************************************************************************)
(* What passes over the two buses, on any inputs: messages byte by byte    *)
(* for the checksum; messages of a pump, register by register, for what is *)
(* read and what is written; and what pumps announce themselves as, word   *)
(* by word.  The algorithms of Crc16, Values and ModelNames are compared   *)
(* with definitions of their own.                                          *)
(***************************************************************************)
EXTENDS Crc16, Values, ModelNames

CONSTANTS
  Catalog,      \* HW_META: register -> its size, factor, range and word order
  Numbers,      \* size -> numbers that registers of it hold
  Strangers,    \* registers the catalog does not know, each with a word it holds
  Models,       \* names of models: a family and a word, or one word
  Sample,       \* bytes that messages are made of
  Text,         \* words and marks that follow the name of a model
  Offsets,      \* how far from a register's number users set it, in 1/Unit
  Reach,        \* bound: up to where a nearer number is looked for
  MaxLen,       \* bound: bytes in one message
  MaxItems,     \* bound: registers in one message of the pump
  MaxTail       \* bound: words and marks after the name of a model

Sizes == {"u8", "s8", "u16", "s16", "u32", "s32"}

\* The numbers that a register of a size can hold.
Fits(size, n) ==
  /\ n \in Int
  /\ CASE size = "u8"  -> 0 <= n /\ n <= 255
       [] size = "s8"  -> -128 <= n /\ n <= 127
       [] size = "u16" -> 0 <= n /\ n <= 65535
       [] size = "s16" -> -32768 <= n /\ n <= 32767
       [] size = "u32" -> 0 <= n /\ n \div 65536 <= 65535
       [] size = "s32" -> -32768 <= n \div 65536 /\ n \div 65536 <= 32767

Mark == {"space", "dash", "comma"}

\* A model as its pump spells it.
Spelling(name) == IF Len(name) = 2 THEN <<name[1], "space", name[2]>> ELSE name

ASSUME CodecAssumption ==
  /\ Unit \in Nat \ {0}
  /\ DOMAIN Catalog \subseteq Word
  /\ \A a \in DOMAIN Catalog :
       LET reg == Catalog[a]
       IN  /\ reg.size \in Sizes /\ reg.wo \in {0, 1}
           /\ reg.factor \in Nat \ {0} /\ Unit % reg.factor = 0
           /\ reg.min \in Int /\ reg.max \in Int /\ reg.min <= reg.max
           /\ \A n \in Numbers[reg.size] : Fits(reg.size, n)
  /\ \A s \in Strangers : s[1] \notin DOMAIN Catalog
  /\ \A name \in Models :
       \/ Len(name) = 1 /\ name = <<name[1]>> /\ name \notin Families /\ name[1] \notin Mark
       \/ Len(name) = 2 /\ name = <<name[1], name[2]>> /\ <<name[1]>> \in Families
          /\ name[2] \notin Mark
  /\ Sample \subseteq Byte
  /\ Offsets \subseteq Int /\ Reach \in Nat

VARIABLES
  bytes,     \* a message
  items,     \* registers a pump sends, each with the number it holds
  how,       \* as a list of registers, or one at a time
  said       \* a pump's announcement: the model it is, and the text of it

codecVars == <<bytes, items, how, said>>

Nobody == [is |-> <<>>, text |-> <<>>]

CodecInit == bytes = <<>> /\ items = <<>> /\ how \in {"list", "single"} /\ said = Nobody

Longer  == Len(bytes) < MaxLen /\ \E b \in Sample : bytes' = Append(bytes, b)
Shorter == Len(bytes) = MaxLen /\ bytes' = <<>>

-----------------------------------------------------------------------------
\* How a pump writes down a number of one word: a signed byte with or without
\* its sign in the upper half.  -128 is left out of the second form, which
\* on_frame_() takes for 128, as the implementation it follows does.
Forms(reg, n) ==
  {n % 65536} \cup (IF reg.size = "s8" /\ n # -128 THEN {n % 256} ELSE {})

KnownItem == UNION {UNION {{[addr |-> a, n |-> n, form |-> w] : w \in Forms(Catalog[a], n)} :
                             n \in Numbers[Catalog[a].size]} : a \in DOMAIN Catalog}

Item == KnownItem \cup {[addr |-> s[1], n |-> 0, form |-> s[2]] : s \in Strangers}

More == /\ bytes = <<>>
        /\ Len(items) < (IF how = "list" THEN MaxItems ELSE 1)
        /\ \E it \in Item : items' = Append(items, it)
        /\ UNCHANGED <<bytes, how>>

Again == items # <<>> /\ items' = <<>> /\ UNCHANGED <<bytes, how>>

-----------------------------------------------------------------------------
TailLength == Len(said.text) - Len(Spelling(said.is))

Announce == said = Nobody /\ \E name \in Models : said' = [is |-> name, text |-> Spelling(name)]

\* What follows the name is set off from it by a mark.
SayMore ==
  /\ said # Nobody /\ TailLength < MaxTail
  /\ \E t \in (IF TailLength = 0 THEN Mark ELSE Text) : said' = [said EXCEPT !.text = Append(@, t)]

Hush == TailLength = MaxTail /\ said' = Nobody

CodecNext ==
  \/ items = <<>> /\ said = Nobody /\ (Longer \/ Shorter) /\ UNCHANGED <<items, how, said>>
  \/ said = Nobody /\ (More \/ Again) /\ UNCHANGED said
  \/ bytes = <<>> /\ items = <<>> /\ (Announce \/ SayMore \/ Hush) /\ UNCHANGED <<bytes, items, how>>

CodecSpec == CodecInit /\ [][CodecNext]_codecVars

-----------------------------------------------------------------------------
(* The table-driven checksum that ModbusMaster is model-checked with is    *)
(* crc16_modbus().                                                         *)
FastCrcIsCrc == FastCrc(bytes) = Crc(bytes)

(* The checksum of the Modbus standard, as the standard states it: a frame *)
(* is a polynomial over the bits, each byte from its lowest bit on, and a  *)
(* receiver divides it by x^16 + x^15 + x^2 + 1 in a register that starts  *)
(* with ones.  A frame is sound if nothing remains.  reg[i] stands at x^i. *)
TakeIn(reg, bit) ==
  LET out == (reg[15] + bit) % 2
  IN  [i \in 0..15 |-> ((IF i = 0 THEN 0 ELSE reg[i - 1])
                          + (IF i \in {0, 2, 15} THEN out ELSE 0)) % 2]

TakeFour(reg, n) ==
  TakeIn(TakeIn(TakeIn(TakeIn(reg, n % 2), (n \div 2) % 2), (n \div 4) % 2), (n \div 8) % 2)

TakeByte(reg, b) == TakeFour(TakeFour(reg, b), b \div 16)

Remainder(f) ==
  LET reg[n \in 0..Len(f)] ==
        IF n = 0 THEN [i \in 0..15 |-> 1] ELSE TakeByte(reg[n - 1], f[n])
  IN  reg[Len(f)]

Divides(f) == Remainder(f) = [i \in 0..15 |-> 0]

(* crc16_modbus() is the standard's checksum: polynomial, first value, the *)
(* order of the bits and the order of the two bytes in the frame.  Every   *)
(* request that poll_one_() seals is sound for any slave that follows the  *)
(* standard, and on_modbus_frame_() accepts just the frames that are sound.*)
FramesDivide ==
  /\ Divides(Sealed(bytes)) /\ CrcHolds(Sealed(bytes))
  /\ \A lo, hi \in Sample :
       LET f == bytes \o <<lo, hi>> IN CrcHolds(f) <=> Divides(f)

(* Damage to any one byte of a message is noticed, wherever it is and      *)
(* whatever the byte becomes.                                              *)
DamageIsNoticed ==
  \A i \in DOMAIN bytes : \A b \in Byte \ {bytes[i]} :
    FastCrc([bytes EXCEPT ![i] = b]) # Crc(bytes)

-----------------------------------------------------------------------------
IsKnown(it) == it.addr \in DOMAIN Catalog
IsWide(it)  == IsKnown(it) /\ Wide(Catalog[it.addr])
High(n) == (n \div 65536) % 65536
Low(n)  == n % 65536

\* An item as the pump puts it into a message.
Words(it) ==
  IF ~IsWide(it) THEN <<it.addr, it.form>>
  ELSE IF how = "list" THEN <<it.addr, Low(it.n), 65535, High(it.n)>>
  ELSE <<it.addr, High(it.n), Low(it.n)>>

\* The message up to its k-th item.
Message(k) ==
  LET text[j \in 0..k] == IF j = 0 THEN <<>> ELSE text[j - 1] \o Words(items[j])
  IN  text[k]

Believable(it) ==
  LET reg == Catalog[it.addr]
  IN  (reg.min = 0 /\ reg.max = 0) \/ (reg.min <= it.n /\ it.n <= reg.max)

\* What entities should show of an item, in 1/Unit.
Reading(it) == [addr |-> it.addr, value |-> (Unit * it.n) \div Catalog[it.addr].factor]

\* What should be heard of the first k items.
Readings(k) ==
  LET good(it) == IF IsKnown(it) /\ Believable(it) THEN <<Reading(it)>> ELSE <<>>
      heard[j \in 0..k] == IF j = 0 THEN <<>> ELSE heard[j - 1] \o good(items[j])
  IN  heard[k]

ModbusWords(it) ==
  IF ~IsWide(it) THEN <<it.form>>
  ELSE IF Catalog[it.addr].wo = 0 THEN <<High(it.n), Low(it.n)>> ELSE <<Low(it.n), High(it.n)>>

(* A message of the pump, read to its end or cut off after any word, leads *)
(* to just the readings it contains: the number each known register holds, *)
(* in its own scale, and nothing for registers that are unknown, out of    *)
(* range or incomplete, whatever their neighbours are.  On Modbus, the     *)
(* words of a reply give the number back for every size and word order.    *)
ReadsTrue ==
  /\ \A k \in 0..Len(items) :
       /\ Heard(Catalog, how, Message(k)) = Readings(k)
       /\ k < Len(items) =>
            \A more \in 1 .. Len(Words(items[k + 1])) - 1 :
              Heard(Catalog, how, Message(k) \o SubSeq(Words(items[k + 1]), 1, more)) = Readings(k)
  /\ \A i \in DOMAIN items : IsKnown(items[i]) =>
       /\ RawModbus(Catalog[items[i].addr], ModbusWords(items[i])) = items[i].n
       /\ InRange(Catalog[items[i].addr], items[i].n) = Believable(items[i])

-----------------------------------------------------------------------------
Distance(a, b) == IF a > b THEN a - b ELSE b - a

\* The number of a register that a pump takes from 32 bits, or from the words
\* of a Modbus request.
Taken(reg, hi, lo) ==
  CASE reg.size = "u8"  -> lo % 256
    [] reg.size = "s8"  -> IF lo % 256 > 127 THEN (lo % 256) - 256 ELSE lo % 256
    [] reg.size = "u16" -> lo
    [] reg.size = "s16" -> IF lo > 32767 THEN lo - 65536 ELSE lo
    [] reg.size = "u32" -> hi * 65536 + lo
    [] reg.size = "s32" -> (IF hi > 32767 THEN hi - 65536 ELSE hi) * 65536 + lo

OverNibe(reg, x) ==
  LET w == NibeWrite(RawToWrite(reg, x)) IN Taken(reg, w[2], w[1])

OverModbus(reg, x) ==
  LET w == ModbusWrite(reg, RawToWrite(reg, x))
  IN  Taken(reg, w[1], w[Len(w)])

\* The value that a number of a register stands for.
At(reg, n) == (Unit * n) \div reg.factor

\* Home Assistant keeps what a user sets to the bounds of the number entity.
SetNear(reg, n) ==
  {x \in {At(reg, n) + d : d \in Offsets} : At(reg, reg.min) <= x /\ x <= At(reg, reg.max)}

\* A range that the size can hold: nothing else makes sense for a register
\* that is written, and the catalog has nothing else.
Writable(reg) ==
  (reg.min # 0 \/ reg.max # 0) /\ Fits(reg.size, reg.min) /\ Fits(reg.size, reg.max)

(* A pump ends up with the number, of those its register allows, that is   *)
(* nearest to what the user has set, over either bus, and the entity shows *)
(* that number and not what was typed, so that the next reading does not   *)
(* change it.                                                              *)
WritesNearest ==
  \A i \in DOMAIN items : IsKnown(items[i]) /\ Believable(items[i]) =>
    LET reg == Catalog[items[i].addr]
        n   == items[i].n
    IN  Writable(reg) =>
          \A x \in SetNear(reg, n) :
            LET got == OverNibe(reg, x)
            IN  /\ reg.min <= got /\ got <= reg.max
                /\ \A r \in n - Reach .. n + Reach : reg.min <= r /\ r <= reg.max =>
                     Distance(At(reg, got), x) <= Distance(At(reg, r), x)
                /\ OverModbus(reg, x) = got
                /\ ShownAfter(reg, x) = At(reg, got)

-----------------------------------------------------------------------------
(* A pump that the catalog knows is recognised under one name, the name of *)
(* the catalog, whatever its announcement adds to it: a size in kW, a      *)
(* variant or a further word.  A name that is not the catalog's would be   *)
(* saved as the model and leave the device without registers.              *)
NamesRecognised == ParseModel(said.text) = said.is
=============================================================================
