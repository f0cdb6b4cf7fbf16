--------------------------- MODULE Entities_proof ---------------------------
(***************************************************************************)
(* Proofs about Entities and Codec, for every set of registers, every      *)
(* register map, every queue and every message.                            *)
(*                                                                         *)
(* Part 1, Entities: a register comes to hold what its entity was last set *)
(* to.  WishGranted speaks of registers that no request waits for.         *)
(* Inductive is what it takes for it to hold once the last request has     *)
(* left: of the requests that wait for a register, the newest asks for the *)
(* wish.                                                                   *)
(*                                                                         *)
(* Parts 2 to 7, Codec: the numbers, what is written, what is read, the    *)
(* checksum and the names.  Its states are any inputs (CodecInv), and what *)
(* is to be shown of them is what the algorithms of Values, Crc16 and      *)
(* ModelNames compute, for inputs of every length.                         *)
(***************************************************************************)
EXTENDS Entities, Codec, Lemmas_proof

(* Part 1: wishes.                                                         *)

\* The requests that controls and the page's button can make.
AsksFor(a) ==
  CASE Kind[a] = "number" -> {Request(a, RawToWrite(Meta[a], x)) : x \in Wishes[a]}
    [] Kind[a] = "switch" -> {Request(a, IF on THEN 1 ELSE 0) : on \in BOOLEAN}
    [] Kind[a] = "select" -> {Request(a, Options[a][i]) : i \in DOMAIN Options[a]}
    [] OTHER -> {}

Asks == {Request(AlarmReset, 1)} \cup UNION {AsksFor(a) : a \in Registers}

\* The newest request for a that waits in q.
Newest(a, i, q) ==
  /\ i \in 1..Len(q) /\ q[i].addr = a
  /\ \A j \in 1..Len(q) : j > i => q[j].addr # a

\* Register a will hold want, or does hold it and none waits.
Coming(a, want, q, n) ==
  want # Free =>
    /\ \A i \in 1..Len(q) : Newest(a, i, q) => q[i].raw = want.raw
    /\ ~Waits(a, q) => n = want.raw

WishInv ==
  /\ writes \in Seq(Asks)
  /\ cell = [a \in Registers |-> cell[a]]
  /\ wish = [a \in Registers |-> wish[a]]
  /\ \A a \in Registers : Coming(a, wish[a], writes, cell[a])

-----------------------------------------------------------------------------
(* What becomes of a wish as the queue changes.                            *)

LEMMA DomainOfSeq == ASSUME NEW S, NEW q \in Seq(S) PROVE DOMAIN q = 1..Len(q) /\ Len(q) \in Nat
  BY LenProperties

\* The front leaves: a wish for its register stays good if a newer request
\* for it waits, or if the register now holds what the front asked for.
LEMMA PopComing ==
  ASSUME NEW S, NEW q \in Seq(S), q # <<>>, NEW a, NEW want, NEW n, NEW m,
         Coming(a, want, q, n),
         Head(q).addr = a => Waits(a, Tail(q)) \/ m = Head(q).raw,
         Head(q).addr # a => m = n
  PROVE  Coming(a, want, Tail(q), m)
<1>. DEFINE t == Tail(q)
<1>1. /\ Len(q) \in Nat \ {0} /\ Head(q) = q[1] /\ Len(t) = Len(q) - 1
      /\ \A i \in 1..Len(t) : t[i] = q[i + 1]
      /\ DOMAIN q = 1..Len(q) /\ DOMAIN t = 1..Len(t)
  BY TailFacts, DomainOfSeq
<1>. HIDE DEF t
<1>2. \A i \in 1..Len(t) : i + 1 \in 1..Len(q)
  BY <1>1
<1>3. \A i \in 1..Len(q) : i = 1 \/ (i - 1 \in 1..Len(t) /\ t[i - 1] = q[i])
  BY <1>1
<1>. SUFFICES ASSUME want # Free PROVE Coming(a, want, t, m)
  BY DEF Coming, t
<1>4. ASSUME NEW i \in 1..Len(t), Newest(a, i, t) PROVE t[i].raw = want.raw
  <2>1. Newest(a, i + 1, q)
    BY <1>1, <1>2, <1>3, <1>4 DEF Newest
  <2>. QED  BY <1>1, <1>2, <2>1 DEF Coming
<1>5. ASSUME ~Waits(a, t) PROVE m = want.raw
  <2>1. \A i \in 1..Len(q) : q[i].addr = a => i = 1
    BY <1>1, <1>3, <1>5 DEF Waits
  <2>2. CASE q[1].addr = a
    <3>1. Newest(a, 1, q)
      BY <1>1, <2>1, <2>2 DEF Newest
    <3>2. q[1].raw = want.raw
      BY <1>1, <3>1 DEF Coming
    <3>. QED  BY <1>1, <1>5, <2>2, <3>2 DEF t
  <2>3. CASE q[1].addr # a
    <3>1. ~Waits(a, q)
      BY <1>1, <2>1, <2>3 DEF Waits
    <3>. QED  BY <1>1, <2>3, <3>1 DEF Coming
  <2>. QED  BY <2>2, <2>3
<1>. QED  BY <1>4, <1>5 DEF Coming

\* A request joins: it is its own register's newest, and no other's.
LEMMA PushComing ==
  ASSUME NEW S, NEW q \in Seq(S), NEW r \in S, NEW a, NEW want, NEW n,
         r.addr = a => want = Free \/ want.raw = r.raw,
         r.addr # a => Coming(a, want, q, n)
  PROVE  Coming(a, want, Append(q, r), n)
<1>. DEFINE p == Append(q, r)
<1>1. /\ Len(q) \in Nat /\ Len(p) = Len(q) + 1
      /\ \A i \in 1..Len(q) : p[i] = q[i]
      /\ p[Len(q) + 1] = r
      /\ DOMAIN q = 1..Len(q) /\ DOMAIN p = 1..Len(p)
  BY AppendFacts, DomainOfSeq
<1>. HIDE DEF p
<1>. SUFFICES ASSUME want # Free PROVE Coming(a, want, p, n)
  BY DEF Coming, p
<1>2. \A i \in 1..Len(p) : i \in 1..Len(q) \/ i = Len(q) + 1
  BY <1>1
<1>3. CASE r.addr = a
  <2>1. Waits(a, p)
    BY <1>1, <1>3 DEF Waits
  <2>2. ASSUME NEW i \in 1..Len(p), Newest(a, i, p) PROVE i = Len(q) + 1
    BY <1>1, <1>2, <1>3, <2>2 DEF Newest
  <2>. QED  BY <1>1, <1>3, <2>1, <2>2 DEF Coming
<1>4. CASE r.addr # a
  <2>1. ASSUME NEW i \in 1..Len(p), Newest(a, i, p) PROVE p[i].raw = want.raw
    <3>1. i \in 1..Len(q)
      BY <1>1, <1>2, <1>4, <2>1 DEF Newest
    <3>2. Newest(a, i, q)
      BY <1>1, <2>1, <3>1 DEF Newest
    <3>. QED  BY <1>1, <1>4, <3>1, <3>2 DEF Coming
  <2>2. ~Waits(a, p) => ~Waits(a, q)
    BY <1>1 DEF Waits
  <2>. QED  BY <1>4, <2>1, <2>2 DEF Coming
<1>. QED  BY <1>3, <1>4

-----------------------------------------------------------------------------
LEMMA InitWish == Init => WishInv
<1>. SUFFICES ASSUME Init PROVE WishInv
  OBVIOUS
<1>1. writes \in Seq(Asks)
  BY EmptySeq DEF Init
<1>2. cell = [a \in Registers |-> cell[a]] /\ wish = [a \in Registers |-> wish[a]]
  BY DEF Init
<1>3. \A a \in Registers : wish[a] = Free
  BY DEF Init
<1>. QED  BY <1>1, <1>2, <1>3 DEF WishInv, Coming

(* queue_write, with room in the queue or without.                         *)
LEMMA QueueWriteWish ==
  ASSUME WishInv, NEW r \in Asks, NEW want, want = Free \/ want.raw = r.raw,
         QueueWrite(r, want), cell' = cell
  PROVE  WishInv'
<1>. DEFINE full  == Len(writes) >= QueueCap
            kept  == IF full THEN Tail(writes) ELSE writes
            known == IF full THEN Forgotten(Head(writes), Pushed(r)) ELSE wish
<1>1. /\ writes \in Seq(Asks) /\ Len(writes) \in Nat
      /\ (full => writes # <<>>)
  BY EntityAssumption, DomainOfSeq, EmptySeq DEF WishInv
<1>2. kept \in Seq(Asks) /\ Pushed(r) = Append(kept, r)
  BY <1>1, TailFacts DEF Pushed
<1>3. Pushed(r) \in Seq(Asks)
  BY <1>2, AppendFacts
<1>4. ASSUME NEW a \in Registers, a # r.addr PROVE Waits(a, Pushed(r)) <=> Waits(a, kept)
  <2>. DEFINE p == Append(kept, r)
  <2>1. /\ Len(kept) \in Nat /\ Len(p) = Len(kept) + 1
        /\ \A i \in 1..Len(kept) : p[i] = kept[i]
        /\ p[Len(kept) + 1] = r
        /\ DOMAIN kept = 1..Len(kept) /\ DOMAIN p = 1..Len(p)
    BY <1>2, AppendFacts, DomainOfSeq
  <2>. HIDE DEF p, kept
  <2>. QED  BY <1>2, <1>4, <2>1 DEF Waits, p
<1>5. known = [a \in Registers |-> known[a]]
  BY DEF Forgotten, WishInv
<1>6. ASSUME NEW a \in Registers, a # r.addr PROVE Coming(a, known[a], kept, cell[a])
  <2>1. CASE ~full
    BY <2>1 DEF WishInv
  <2>2. CASE full /\ Head(writes).addr = a /\ ~Waits(a, kept)
    <3>1. known[a] = Free
      BY <1>4, <1>6, <2>2 DEF Forgotten, WishInv
    <3>. QED  BY <3>1 DEF Coming
  <2>3. CASE full /\ ~(Head(writes).addr = a /\ ~Waits(a, kept))
    <3>1. known[a] = wish[a]
      BY <1>4, <1>6, <2>3 DEF Forgotten, WishInv
    <3>2. Coming(a, wish[a], Tail(writes), cell[a])
      BY <1>1, <2>3, PopComing DEF WishInv
    <3>. QED  BY <2>3, <3>1, <3>2
  <2>. QED  BY <2>1, <2>2, <2>3
<1>. HIDE DEF kept, known
<1>7. /\ writes' = Append(kept, r)
      /\ wish' = IF r.addr \in Registers THEN [known EXCEPT ![r.addr] = want] ELSE known
  BY <1>2 DEF QueueWrite, kept, known
<1>8. wish' = [a \in Registers |-> wish'[a]]
  BY <1>5, <1>7
<1>9. ASSUME NEW a \in Registers PROVE Coming(a, wish'[a], writes', cell'[a])
  <2>1. wish'[a] = IF a = r.addr THEN want ELSE known[a]
    BY <1>5, <1>7
  <2>. QED  BY <1>2, <1>6, <1>7, <2>1, PushComing
<1>. QED  BY <1>2, <1>3, <1>7, <1>8, <1>9 DEF WishInv

LEMMA AsksForOne == ASSUME NEW a \in Registers, NEW r \in AsksFor(a) PROVE r \in Asks
  BY DEF Asks

LEMMA ControlWish == ASSUME WishInv, Control PROVE WishInv'
<1>1. ASSUME NEW a, NEW raw, NEW state, Request(a, raw) \in Asks, Set(a, raw, state)
      PROVE  WishInv'
  BY <1>1, QueueWriteWish DEF Set, Request
<1>2. ASSUME NEW a \in OfKind("number"), NEW x \in Wishes[a], NumberControl(a, x)
      PROVE  WishInv'
  <2>1. a \in Registers /\ Kind[a] = "number"
    BY DEF OfKind
  <2>2. Request(a, RawToWrite(Meta[a], x)) \in AsksFor(a)
    BY <2>1 DEF AsksFor
  <2>3. Request(a, RawToWrite(Meta[a], x)) \in Asks
    BY <2>1, <2>2, AsksForOne
  <2>4. Set(a, RawToWrite(Meta[a], x), ShownAfter(Meta[a], x))
    BY <1>2 DEF NumberControl
  <2>. QED  BY <1>1, <2>3, <2>4
<1>3. ASSUME NEW a \in OfKind("switch"), NEW on \in BOOLEAN, SwitchWriteState(a, on)
      PROVE  WishInv'
  <2>1. a \in Registers /\ Kind[a] = "switch"
    BY DEF OfKind
  <2>2. Request(a, IF on THEN 1 ELSE 0) \in AsksFor(a)
    BY <2>1 DEF AsksFor
  <2>3. Request(a, IF on THEN 1 ELSE 0) \in Asks
    BY <2>1, <2>2, AsksForOne
  <2>4. Set(a, IF on THEN 1 ELSE 0, on)
    BY <1>3 DEF SwitchWriteState
  <2>. QED  BY <1>1, <2>3, <2>4
<1>4. ASSUME NEW a \in OfKind("select"), NEW i \in DOMAIN Options[a], SelectControl(a, i)
      PROVE  WishInv'
  <2>1. a \in Registers /\ Kind[a] = "select"
    BY DEF OfKind
  <2>2. Request(a, Options[a][i]) \in AsksFor(a)
    BY <2>1 DEF AsksFor
  <2>3. Request(a, Options[a][i]) \in Asks
    BY <2>1, <2>2, AsksForOne
  <2>4. Set(a, Options[a][i], i)
    BY <1>4 DEF SelectControl
  <2>. QED  BY <1>1, <2>3, <2>4
<1>5. CASE ResetAlarm
  BY <1>5, QueueWriteWish DEF ResetAlarm, Asks
<1>. QED  BY <1>2, <1>3, <1>4, <1>5 DEF Control

(* A request leaves the queue, carried out or not.                         *)
LEMMA WriteDoneWish == ASSUME WishInv, WriteDone PROVE WishInv'
<1>1. Tail(writes) \in Seq(Asks)
  BY TailFacts DEF WishInv, WriteDone
<1>2. cell' = [a \in Registers |-> cell'[a]]
  BY DEF WishInv, WriteDone, CarriedOut
<1>3. ASSUME NEW a \in Registers PROVE Coming(a, wish[a], Tail(writes), cell'[a])
  <2>1. cell'[a] = IF Head(writes).addr = a THEN Head(writes).raw ELSE cell[a]
    BY DEF WishInv, WriteDone, CarriedOut
  <2>. QED  BY <2>1, PopComing DEF WishInv, WriteDone
<1>. QED  BY <1>1, <1>2, <1>3 DEF WishInv, WriteDone

LEMMA WriteLostWish == ASSUME WishInv, WriteLost PROVE WishInv'
<1>. DEFINE r == Head(writes)
<1>1. Tail(writes) \in Seq(Asks)
  BY TailFacts DEF WishInv, WriteLost
<1>2. wish' = [a \in Registers |-> wish'[a]]
  BY DEF WishInv, WriteLost, Forgotten
<1>3. ASSUME NEW a \in Registers PROVE Coming(a, wish'[a], Tail(writes), cell[a])
  <2>1. CASE r.addr = a /\ ~Waits(a, Tail(writes))
    <3>1. wish'[a] = Free
      BY <2>1 DEF WishInv, WriteLost, Forgotten
    <3>. QED  BY <3>1 DEF Coming
  <2>2. CASE ~(r.addr = a /\ ~Waits(a, Tail(writes)))
    <3>1. wish'[a] = wish[a]
      BY <2>2 DEF WishInv, WriteLost, Forgotten
    <3>. QED  BY <2>2, <3>1, PopComing DEF WishInv, WriteLost
  <2>. QED  BY <2>1, <2>2
<1>. QED  BY <1>1, <1>2, <1>3 DEF WishInv, WriteLost

(* The pump's registers change while the queue stands still.               *)
LEMMA WriteUnconfirmedWish == ASSUME WishInv, WriteUnconfirmed PROVE WishInv'
<1>1. cell' = [a \in Registers |-> cell'[a]]
  BY DEF WishInv, WriteUnconfirmed, CarriedOut
<1>2. Waits(Head(writes).addr, writes)
  <2>1. Len(writes) \in Nat \ {0} /\ Head(writes) = writes[1] /\ DOMAIN writes = 1..Len(writes)
    BY TailFacts, DomainOfSeq DEF WishInv, WriteUnconfirmed
  <2>. QED  BY <2>1 DEF Waits
<1>3. ASSUME NEW a \in Registers PROVE Coming(a, wish[a], writes, cell'[a])
  <2>1. CASE a = Head(writes).addr
    BY <1>2, <2>1 DEF WishInv, Coming
  <2>2. CASE a # Head(writes).addr
    <3>1. cell'[a] = cell[a]
      BY <2>2 DEF WishInv, WriteUnconfirmed, CarriedOut
    <3>. QED  BY <3>1 DEF WishInv
  <2>. QED  BY <2>1, <2>2
<1>. QED  BY <1>1, <1>3 DEF WishInv, WriteUnconfirmed

LEMMA PumpChangesWish ==
  ASSUME WishInv, NEW b \in Registers, PumpChanges(b)
  PROVE  WishInv'
<1>1. cell' = [a \in Registers |-> cell'[a]] /\ wish' = [a \in Registers |-> wish'[a]]
  BY DEF WishInv, PumpChanges
<1>2. ASSUME NEW a \in Registers PROVE Coming(a, wish'[a], writes, cell'[a])
  <2>1. CASE a # b
    <3>1. cell'[a] = cell[a] /\ wish'[a] = wish[a]
      BY <2>1 DEF WishInv, PumpChanges
    <3>. QED  BY <3>1 DEF WishInv
  <2>2. CASE a = b /\ Waits(b, writes)
    BY <2>2 DEF WishInv, PumpChanges, Coming
  <2>3. CASE a = b /\ ~Waits(b, writes)
    <3>1. wish'[a] = Free
      BY <2>3 DEF WishInv, PumpChanges
    <3>. QED  BY <3>1 DEF Coming
  <2>. QED  BY <2>1, <2>2, <2>3
<1>. QED  BY <1>1, <1>2 DEF WishInv, PumpChanges

LEMMA NextWish == ASSUME WishInv, [Next]_vars PROVE WishInv'
<1>1. CASE UNCHANGED vars
  BY <1>1 DEF vars, WishInv
<1>2. CASE Control
  BY <1>2, ControlWish
<1>3. CASE Receive \/ ReplyLost
  BY <1>3 DEF Receive, ReplyLost, WishInv
<1>4. CASE WriteDone \/ WriteLost \/ WriteUnconfirmed
  BY <1>4, WriteDoneWish, WriteLostWish, WriteUnconfirmedWish
<1>5. ASSUME NEW a \in Registers, PumpAnswers(a) PROVE WishInv'
  BY <1>5 DEF PumpAnswers, WishInv
<1>6. ASSUME NEW a \in Registers, PumpChanges(a) PROVE WishInv'
  BY <1>6, PumpChangesWish
<1>. QED  BY <1>1, <1>2, <1>3, <1>4, <1>5, <1>6 DEF Next

(* Whatever else is queued, pushed out, lost or repeated: a register that  *)
(* no request waits for holds what its entity was last set to, unless that *)
(* last request was itself lost or pushed out, or the pump has changed the *)
(* register since.                                                         *)
THEOREM WishesGranted == Spec => []WishGranted
<1>1. Init => WishInv
  BY InitWish
<1>2. WishInv /\ [Next]_vars => WishInv'
  BY NextWish
<1>3. WishInv => WishGranted
  BY DEF WishInv, Coming, WishGranted
<1>. QED  BY <1>1, <1>2, <1>3, PTL DEF Spec

-----------------------------------------------------------------------------
(* Part 2: the numbers.  What a user sets is rounded to a number that the  *)
(* register can hold; what is sent for a number reads as that number.      *)

LEMMA InWord == ASSUME NEW x \in Int, 0 <= x, x < 65536 PROVE x \in Word
<1>. DEFINE m == 65535
<1>1. m \in Int /\ x <= m
  OBVIOUS
<1>2. Word = 0..m
  BY DEF Word
<1>. HIDE DEF m
<1>. QED  BY <1>1, <1>2, Interval

LEMMA OfWord == ASSUME NEW x \in Word PROVE x \in Nat /\ x < 65536
<1>. DEFINE m == 65535
<1>1. m \in Int
  BY SMTT(30)
<1>2. Word = 0..m
  BY DEF Word
<1>3. x \in Int /\ 0 <= x /\ x <= m
  <2>. HIDE DEF m
  <2>1. x \in Int
    BY <1>1, <1>2
  <2>. QED  BY <1>1, <1>2, <2>1, Interval
<1>. QED  BY <1>3

\* The least and the greatest number that a register of a size can hold.
Least(size) ==
  CASE size = "s8"  -> -128
    [] size = "s16" -> -32768
    [] size = "s32" -> -(32768 * 65536)
    [] OTHER        -> 0

Greatest(size) ==
  CASE size = "u8"  -> 255
    [] size = "s8"  -> 127
    [] size = "u16" -> 65535
    [] size = "s16" -> 32767
    [] size = "u32" -> 65536 * 65536 - 1
    [] size = "s32" -> 32768 * 65536 - 1

Within(size, n) == n \in Int /\ Least(size) <= n /\ n <= Greatest(size)

LEMMA FitsWithin == ASSUME NEW size \in Sizes, NEW n, Fits(size, n) PROVE Within(size, n)
<1>. USE DEF Within, Least, Greatest
<1>1. CASE size = "u8"
  BY <1>1 DEF Fits
<1>2. CASE size = "s8"
  BY <1>2 DEF Fits
<1>3. CASE size = "u16"
  BY <1>3 DEF Fits
<1>4. CASE size = "s16"
  BY <1>4 DEF Fits
<1>5. CASE size = "u32"
  BY <1>5 DEF Fits
<1>6. CASE size = "s32"
  BY <1>6 DEF Fits
<1>. HIDE DEF Within, Least, Greatest
<1>. QED  BY <1>1, <1>2, <1>3, <1>4, <1>5, <1>6 DEF Sizes

\* Numbers between two that fit.
LEMMA BetweenFits ==
  ASSUME NEW size \in Sizes, NEW l \in Int, NEW n \in Int, NEW g \in Int,
         Fits(size, l), Fits(size, g), l <= n, n <= g
  PROVE  Within(size, n)
<1>1. Within(size, l) /\ Within(size, g)
  BY FitsWithin
<1>2. Least(size) \in Int /\ Greatest(size) \in Int
  BY DEF Least, Greatest, Sizes
<1>. QED  BY <1>1, <1>2 DEF Within

LEMMA Quotient ==
  ASSUME NEW a \in Nat, NEW d \in Nat \ {0}
  PROVE  a \div d \in Nat /\ d * (a \div d) <= a /\ a < d * (a \div d) + d
  OBVIOUS

LEMMA Cancel ==
  ASSUME NEW f \in Nat \ {0}, NEW a \in Int, NEW b \in Int
  PROVE  /\ f * a <= f * b => a <= b
         /\ f * a < f * b => a < b
  OBVIOUS

\* One number further is one step of the scale further, or more.
LEMMA Further ==
  ASSUME NEW u \in Nat \ {0}, NEW r \in Int, NEW s \in Int, r < s
  PROVE  r * u \in Int /\ s * u \in Int /\ r * u + u <= s * u
  OBVIOUS

LEMMA HalfAStep ==
  ASSUME NEW u \in Nat \ {0}, NEW f \in Nat \ {0}, Unit = u * f, NEW y \in Nat
  PROVE  LET m == (2 * y * f + Unit) \div (2 * Unit)
         IN  m \in Nat /\ 2 * (m * u) <= 2 * y + u /\ 2 * y < 2 * (m * u) + u
<1>. DEFINE a == 2 * y * f + Unit
            d == 2 * Unit
            m == a \div d
<1>1. a \in Nat /\ d \in Nat \ {0}
  OBVIOUS
<1>2. m \in Nat /\ d * m <= a /\ a < d * m + d
  <2>. HIDE DEF a, d
  <2>. QED  BY <1>1, Quotient
<1>3. a = f * (2 * y + u) /\ d * m = f * (2 * (m * u)) /\ d * m + d = f * (2 * (m * u) + 2 * u)
  <2>1. a = f * (2 * y + u)
    OBVIOUS
  <2>. HIDE DEF m
  <2>2. d * m = f * (2 * (m * u)) /\ d * m + d = f * (2 * (m * u) + 2 * u)
    BY <1>2
  <2>. QED  BY <2>1, <2>2
<1>4. 2 * (m * u) <= 2 * y + u /\ 2 * y + u < 2 * (m * u) + 2 * u
  <2>. DEFINE p == 2 * (m * u)
              q == 2 * y + u
              r == 2 * (m * u) + 2 * u
  <2>1. p \in Int /\ q \in Int /\ r \in Int
    BY <1>2
  <2>2. f * p <= f * q /\ f * q < f * r
    BY <1>2, <1>3
  <2>. HIDE DEF p, q, r
  <2>3. p <= q /\ q < r
    BY <2>1, <2>2, Cancel
  <2>. QED  BY <2>3 DEF p, q, r
<1>. HIDE DEF m
<1>5. m \in Nat /\ 2 * (m * u) <= 2 * y + u /\ 2 * y < 2 * (m * u) + u
  BY <1>2, <1>4
<1>. QED  BY <1>5 DEF m, a, d

\* Rounding is off by half a step of the scale at most.
LEMMA LroundFacts ==
  ASSUME NEW u \in Nat \ {0}, NEW f \in Nat \ {0}, Unit = u * f, NEW x \in Int
  PROVE  /\ Lround(x, f) \in Int
         /\ 2 * (Lround(x, f) * u) <= 2 * x + u
         /\ 2 * x <= 2 * (Lround(x, f) * u) + u
<1>1. CASE x >= 0
  <2>. DEFINE m == (2 * x * f + Unit) \div (2 * Unit)
  <2>1. m \in Nat /\ 2 * (m * u) <= 2 * x + u /\ 2 * x < 2 * (m * u) + u
    BY <1>1, HalfAStep
  <2>2. Lround(x, f) = m
    BY <1>1 DEF Lround
  <2>. HIDE DEF m
  <2>. QED  BY <2>1, <2>2
<1>2. CASE ~(x >= 0)
  <2>. DEFINE y == -x
              m == (2 * y * f + Unit) \div (2 * Unit)
  <2>1. y \in Nat
    BY <1>2
  <2>2. m \in Nat /\ 2 * (m * u) <= 2 * y + u /\ 2 * y < 2 * (m * u) + u
    <3>. HIDE DEF y
    <3>. QED  BY <2>1, HalfAStep
  <2>3. Lround(x, f) = -m
    <3>1. -2 * x * f = 2 * y * f
      OBVIOUS
    <3>. QED  BY <1>2, <3>1 DEF Lround
  <2>. HIDE DEF m
  <2>4. (-m) * u = -(m * u)
    BY <2>2
  <2>. QED  BY <2>2, <2>3, <2>4
<1>. QED  BY <1>1, <1>2

(* control(): of the numbers that the register allows, the one written is  *)
(* nearest to what was set, for any factor and range and any value, halves *)
(* and negative ones included; and the entity shows just that number.      *)
THEOREM Nearest ==
  ASSUME NEW reg, Ranged(reg), reg.min \in Int, reg.max \in Int, reg.min <= reg.max,
         reg.factor \in Nat \ {0},
         NEW u \in Nat \ {0}, Unit = u * reg.factor,
         NEW x \in Int
  PROVE  LET raw == RawToWrite(reg, x)
         IN  /\ raw \in reg.min .. reg.max
             /\ \A r \in reg.min .. reg.max :
                  Distance(Scaled(reg, raw), x) <= Distance(Scaled(reg, r), x)
             /\ ShownAfter(reg, x) = Scaled(reg, raw)
<1>. DEFINE n   == Lround(x, reg.factor)
            raw == RawToWrite(reg, x)
<1>1. Factor(reg) = reg.factor /\ Unit \div Factor(reg) = u
  <2>1. Factor(reg) = reg.factor
    BY DEF Factor
  <2>2. ASSUME NEW f \in Nat \ {0}, Unit = u * f PROVE Unit \div f = u
    BY <2>2
  <2>. QED  BY <2>1, <2>2
<1>2. /\ n \in Int /\ 2 * (n * u) <= 2 * x + u /\ 2 * x <= 2 * (n * u) + u
  BY LroundFacts
<1>3. raw = Clamped(reg, n)
  BY <1>1 DEF RawToWrite
<1>4. \A r : Scaled(reg, r) = r * u
  BY <1>1 DEF Scaled
<1>5. ShownAfter(reg, x) = Scaled(reg, raw)
  BY DEF ShownAfter
<1>. HIDE DEF n, raw
<1>6. /\ raw \in reg.min .. reg.max
      /\ n \in reg.min .. reg.max => raw = n
      /\ n < reg.min => raw = reg.min
      /\ n > reg.max => raw = reg.max
  BY <1>2, <1>3 DEF Clamped
<1>7. ASSUME NEW r \in reg.min .. reg.max
      PROVE  Distance(raw * u, x) <= Distance(r * u, x)
  <2>0. r \in Int /\ raw \in Int
    BY <1>6
  <2>1. /\ n * u \in Int /\ r * u \in Int /\ raw * u \in Int
        /\ r < n => r * u + u <= n * u
        /\ n < r => n * u + u <= r * u
        /\ n < raw => n * u + u <= raw * u
        /\ raw < n => raw * u + u <= n * u
        /\ raw < r => raw * u + u <= r * u
        /\ r < raw => r * u + u <= raw * u
    BY <1>2, <2>0, Further
  <2>2. CASE r = raw
    BY <2>1, <2>2 DEF Distance
  <2>3. CASE r # raw /\ n = raw
    BY <1>2, <2>0, <2>1, <2>3 DEF Distance
  <2>4. CASE r # raw /\ n < raw
    <3>1. raw < r
      BY <1>2, <1>6, <2>0, <2>4
    <3>. QED  BY <1>2, <2>0, <2>1, <2>4, <3>1 DEF Distance
  <2>5. CASE r # raw /\ raw < n
    <3>1. r < raw
      BY <1>2, <1>6, <2>0, <2>5
    <3>. QED  BY <1>2, <2>0, <2>1, <2>5, <3>1 DEF Distance
  <2>. QED  BY <1>2, <2>0, <2>2, <2>3, <2>4, <2>5
<1>. QED  BY <1>4, <1>5, <1>6, <1>7 DEF raw

-----------------------------------------------------------------------------
\* A wide number is put together again from its halves.
LEMMA Halves ==
  ASSUME NEW reg, NEW n, reg.size \in {"u32", "s32"}, Within(reg.size, n)
  PROVE  Joined(reg, (n \div 65536) % 65536, n % 65536) = n
<1>1. CASE reg.size = "u32"
  <2>1. n \in Int /\ 0 <= n /\ n < 65536 * 65536
    BY <1>1 DEF Within, Least, Greatest
  <2>2. (n \div 65536) % 65536 = n \div 65536 /\ (n \div 65536) * 65536 + (n % 65536) = n
    BY <2>1
  <2>3. Joined(reg, n \div 65536, n % 65536) = (n \div 65536) * 65536 + (n % 65536)
    BY <1>1 DEF Joined
  <2>. QED  BY <2>2, <2>3
<1>2. CASE reg.size = "s32"
  BY <1>2 DEF Within, Least, Greatest, Joined, Signed
<1>. QED  BY <1>1, <1>2

\* The words with which a register that holds n answers.
Replied(reg, n) ==
  LET w == ModbusWrite(reg, n) IN IF Wide(reg) /\ reg.wo = 1 THEN <<w[2], w[1]>> ELSE w

(* Modbus: the words of a register, in its own order, are read as the      *)
(* number it holds, for every size and every such number; and the words    *)
(* sent for a number read as that number.  poll_one_() sends the high word *)
(* first to any register, so that this second part leaves out the wide     *)
(* registers of the other order.                                           *)
THEOREM ModbusReadsBack ==
  ASSUME NEW reg, reg.size \in Sizes, reg.wo \in {0, 1},
         NEW n, Within(reg.size, n)
  PROVE  /\ RawModbus(reg, Replied(reg, n)) = n
         /\ ~Wide(reg) \/ reg.wo = 0 => RawModbus(reg, ModbusWrite(reg, n)) = n
<1>. USE DEF Within, Least, Greatest, ModbusWrite, Replied, RawModbus, Wide, Signed, Joined
<1>1. CASE reg.size = "u8"
  BY <1>1
<1>2. CASE reg.size = "s8"
  BY <1>2
<1>3. CASE reg.size = "u16"
  BY <1>3
<1>4. CASE reg.size = "s16"
  BY <1>4
<1>. HIDE DEF Within, Joined
<1>5. CASE reg.size \in {"u32", "s32"}
  <2>1. CASE reg.wo = 0
    BY <1>5, <2>1, Halves
  <2>2. CASE reg.wo = 1
    BY <1>5, <2>2, Halves
  <2>. HIDE DEF Least, Greatest, ModbusWrite, Replied, RawModbus, Wide, Signed
  <2>. QED  BY <2>1, <2>2
<1>. HIDE DEF Least, Greatest, ModbusWrite, Replied, RawModbus, Wide, Signed
<1>. QED  BY <1>1, <1>2, <1>3, <1>4, <1>5 DEF Sizes

\* What a pump says a register holds, in a list of registers or in a message
\* about one.
Said(reg, cmd, addr, n) ==
  LET w == NibeWrite(n)
  IN  CASE Wide(reg) /\ cmd = "list"   -> <<addr, w[1], 65535, w[2]>>
        [] Wide(reg) /\ cmd = "single" -> <<addr, w[2], w[1]>>
        [] ~Wide(reg)                  -> <<addr, w[1]>>

\* A word read as a signed byte, with its sign in the upper half or without.
SignedByte(w) == IF w \in 129..32767 THEN w - 256 ELSE Signed(w, 65536)

LEMMA SignedBytes ==
  ASSUME NEW n \in Int, -128 <= n, n <= 127
  PROVE  SignedByte(n % 65536) = n /\ (n # -128 => SignedByte(n % 256) = n)
<1>1. ASSUME NEW w \in Int
      PROVE  /\ 129 <= w /\ w <= 32767 => SignedByte(w) = w - 256
             /\ w < 129 => SignedByte(w) = w
             /\ w >= 32768 => SignedByte(w) = w - 65536
  <2>. DEFINE l == 129
              m == 32767
  <2>1. (w < 32768 => Signed(w, 65536) = w) /\ (w >= 32768 => Signed(w, 65536) = w - 65536)
    BY DEF Signed
  <2>2. l \in Int /\ m \in Int
    OBVIOUS
  <2>3. SignedByte(w) = IF w \in l..m THEN w - 256 ELSE Signed(w, 65536)
    BY DEF SignedByte
  <2>4. w \in l..m <=> l <= w /\ w <= m
    <3>. HIDE DEF l, m
    <3>. QED  BY <2>2, Interval
  <2>5. SignedByte(w) = IF l <= w /\ w <= m THEN w - 256 ELSE Signed(w, 65536)
    <3>. HIDE DEF l, m
    <3>. QED  BY <2>3, <2>4
  <2>. QED  BY <2>1, <2>5
<1>2. CASE n >= 0
  <2>1. n % 65536 = n /\ n % 256 = n
    BY <1>2
  <2>2. SignedByte(n) = n
    BY <1>1, <1>2
  <2>. QED  BY <2>1, <2>2
<1>3. CASE n < 0
  <2>1. n % 65536 = n + 65536 /\ n % 256 = n + 256
    BY <1>3
  <2>2. SignedByte(n + 65536) = n
    BY <1>1, <1>3
  <2>3. n # -128 => SignedByte(n + 256) = n
    BY <1>1, <1>3
  <2>. QED  BY <2>1, <2>2, <2>3
<1>. QED  BY <1>2, <1>3

(* NIBE: the words that are sent for a number, handed back by the pump in  *)
(* either kind of message, are read as that number; and so is a number of  *)
(* one signed byte whose upper half the pump leaves zero, except -128.     *)
THEOREM NibeReadsBack ==
  ASSUME NEW reg, reg.size \in Sizes, NEW n, Within(reg.size, n),
         NEW cmd \in {"list", "single"}, NEW addr
  PROVE  /\ RawNibe(reg, cmd, Said(reg, cmd, addr, n), 1) = n
         /\ reg.size = "s8" /\ n # -128 => RawNibe(reg, cmd, <<addr, n % 256>>, 1) = n
<1>. USE DEF Within, Least, Greatest, NibeWrite, RawNibe, Said, Wide, Signed, Joined
<1>1. CASE reg.size = "u8"
  BY <1>1
<1>2. CASE reg.size = "s8"
  <2>1. n \in Int /\ -128 <= n /\ n <= 127
    BY <1>2
  <2>2. SignedByte(n % 65536) = n /\ (n # -128 => SignedByte(n % 256) = n)
    BY <2>1, SignedBytes
  <2>3. \A w : RawNibe(reg, cmd, <<addr, w>>, 1) = SignedByte(w)
    BY <1>2 DEF SignedByte
  <2>4. Said(reg, cmd, addr, n) = <<addr, n % 65536>>
    BY <1>2
  <2>. HIDE DEF RawNibe, Said, Fits, NibeWrite, Wide, Signed, Joined
  <2>. QED  BY <2>2, <2>3, <2>4
<1>3. CASE reg.size = "u16"
  BY <1>3
<1>4. CASE reg.size = "s16"
  BY <1>4
<1>. HIDE DEF Within, Joined
<1>5. CASE reg.size \in {"u32", "s32"}
  <2>1. Joined(reg, (n \div 65536) % 65536, n % 65536) = n
    BY <1>5, Halves
  <2>2. CASE cmd = "list"
    <3>1. /\ Said(reg, cmd, addr, n) = <<addr, n % 65536, 65535, (n \div 65536) % 65536>>
          /\ \A w : RawNibe(reg, cmd, w, 1) = Joined(reg, w[4], w[2])
      BY <1>5, <2>2
    <3>. HIDE DEF Said, RawNibe
    <3>. QED  BY <1>5, <2>1, <3>1
  <2>3. CASE cmd = "single"
    <3>. HIDE DEF Least, Greatest, Signed
    <3>1. Said(reg, cmd, addr, n) = <<addr, (n \div 65536) % 65536, n % 65536>>
      BY SMTT(30), <1>5, <2>3
    <3>2. \A w : RawNibe(reg, cmd, w, 1) = Joined(reg, w[2], w[3])
      <4>1. Wide(reg) /\ cmd # "list" /\ reg.size \notin {"u8", "u16", "s8", "s16"}
        BY <1>5, <2>3
      <4>. HIDE DEF Said, Wide
      <4>. QED  BY <1>5, <4>1
    <3>. HIDE DEF Said, RawNibe
    <3>. QED  BY <1>5, <2>1, <3>1, <3>2
  <2>. HIDE DEF Least, Greatest, NibeWrite, RawNibe, Said, Wide, Signed
  <2>. QED  BY <2>2, <2>3
<1>. HIDE DEF Least, Greatest, NibeWrite, RawNibe, Said, Wide, Signed
<1>. QED  BY <1>1, <1>2, <1>3, <1>4, <1>5 DEF Sizes

-----------------------------------------------------------------------------
(* Part 3: the states of Codec.  What is said on the bus is made of the    *)
(* model's own words, and begins with the spelling of a name it knows.     *)

\* The words and marks of announcements.
Token == Mark \cup Text \cup {name[1] : name \in Models} \cup {name[Len(name)] : name \in Models}

\* An announcement is a model as its pump spells it, or that with a mark and
\* more behind it.
Announced(a) ==
  /\ a.is \in Models /\ a.text \in Seq(Token)
  /\ LET k == Len(Spelling(a.is))
     IN  /\ k <= Len(a.text) /\ \A i \in 1..k : a.text[i] = Spelling(a.is)[i]
         /\ Len(a.text) > k => a.text[k + 1] \in Mark

SaidInv(a) == a = Nobody \/ (a = [is |-> a.is, text |-> a.text] /\ Announced(a))

CodecInv ==
  /\ bytes \in Seq(Byte)
  /\ items \in Seq(Item)
  /\ how \in {"list", "single"}
  /\ SaidInv(said)

LEMMA SpellingFacts ==
  ASSUME NEW name \in Models
  PROVE  /\ Spelling(name) \in Seq(Token)
         /\ \/ Len(name) = 1 /\ Spelling(name) = name /\ Len(Spelling(name)) = 1
               /\ name = <<name[1]>> /\ name \notin Families /\ name[1] \notin Mark
            \/ Len(name) = 2 /\ Spelling(name) = <<name[1], "space", name[2]>>
               /\ Len(Spelling(name)) = 3
               /\ name = <<name[1], name[2]>> /\ <<name[1]>> \in Families /\ name[2] \notin Mark
<1>1. name[1] \in Token /\ name[Len(name)] \in Token /\ "space" \in Token
  BY DEF Token, Mark
<1>2. CASE /\ Len(name) = 1 /\ name = <<name[1]>> /\ name \notin Families /\ name[1] \notin Mark
  <2>1. Spelling(name) = name
    BY <1>2 DEF Spelling
  <2>2. <<name[1]>> \in Seq(Token)
    BY <1>1
  <2>. QED  BY <1>2, <2>1, <2>2
<1>3. CASE /\ Len(name) = 2 /\ name = <<name[1], name[2]>> /\ <<name[1]>> \in Families
           /\ name[2] \notin Mark
  <2>1. Spelling(name) = <<name[1], "space", name[2]>>
    BY <1>3 DEF Spelling
  <2>2. <<name[1], "space", name[2]>> \in Seq(Token) /\ Len(<<name[1], "space", name[2]>>) = 3
    BY <1>1, <1>3
  <2>. QED  BY <1>3, <2>1, <2>2
<1>. QED  BY <1>2, <1>3, CodecAssumption

LEMMA CodecTypes == CodecSpec => []CodecInv
<1>1. CodecInit => CodecInv
  BY DEF CodecInit, CodecInv, SaidInv
<1>2. CodecInv /\ [CodecNext]_codecVars => CodecInv'
  <2>. SUFFICES ASSUME CodecInv, [CodecNext]_codecVars PROVE CodecInv'
    OBVIOUS
  <2>. USE DEF CodecInv
  <2>1. CASE Longer /\ UNCHANGED <<items, how, said>>
    <3>1. PICK b \in Sample : bytes' = Append(bytes, b)
      BY <2>1 DEF Longer
    <3>2. b \in Byte
      BY CodecAssumption
    <3>. QED  BY <2>1, <3>1, <3>2, AppendProperties
  <2>2. CASE Shorter /\ UNCHANGED <<items, how, said>>
    <3>1. bytes' \in Seq(Byte)
      BY <2>2 DEF Shorter
    <3>. QED  BY <2>2, <3>1
  <2>3. CASE More /\ UNCHANGED said
    <3>1. PICK it \in Item : items' = Append(items, it)
      BY <2>3 DEF More
    <3>2. items' \in Seq(Item)
      BY <3>1, AppendProperties
    <3>. QED  BY <2>3, <3>2 DEF More
  <2>4. CASE Again /\ UNCHANGED said
    <3>1. items' \in Seq(Item)
      BY <2>4 DEF Again
    <3>. QED  BY <2>4, <3>1 DEF Again
  <2>5. CASE Announce /\ UNCHANGED <<bytes, items, how>>
    <3>1. PICK name \in Models : said' = [is |-> name, text |-> Spelling(name)]
      BY <2>5 DEF Announce
    <3>2. Spelling(name) \in Seq(Token) /\ Len(Spelling(name)) \in Nat
      BY SpellingFacts, LenProperties
    <3>3. Announced([is |-> name, text |-> Spelling(name)])
      <4>. DEFINE t == Spelling(name)
      <4>1. /\ [is |-> name, text |-> t].is = name /\ [is |-> name, text |-> t].text = t
        OBVIOUS
      <4>. HIDE DEF t
      <4>. QED  BY <3>2, <4>1 DEF Announced, t
    <3>4. SaidInv([is |-> name, text |-> Spelling(name)])
      BY <3>3 DEF SaidInv
    <3>. QED  BY <2>5, <3>1, <3>4
  <2>6. CASE SayMore /\ UNCHANGED <<bytes, items, how>>
    <3>. DEFINE k == Len(Spelling(said.is))
    <3>1. /\ said # Nobody
          /\ \E t \in (IF TailLength = 0 THEN Mark ELSE Text) :
               said' = [said EXCEPT !.text = Append(said.text, t)]
      BY <2>6 DEF SayMore
    <3>2. PICK t \in (IF TailLength = 0 THEN Mark ELSE Text) :
            said' = [said EXCEPT !.text = Append(said.text, t)]
      BY <3>1
    <3>3. said = [is |-> said.is, text |-> said.text] /\ Announced(said)
      BY <3>1 DEF SaidInv
    <3>. DEFINE new == Append(said.text, t)
    <3>4. said' = [is |-> said.is, text |-> new]
      BY <3>2, <3>3
    <3>5. t \in Token /\ (TailLength = 0 => t \in Mark)
      BY <3>2 DEF Token
    <3>6. /\ said.text \in Seq(Token) /\ Len(said.text) \in Nat
          /\ new \in Seq(Token) /\ Len(new) = Len(said.text) + 1
          /\ \A i \in 1..Len(said.text) : new[i] = said.text[i]
          /\ new[Len(said.text) + 1] = t
      BY <3>3, <3>5, AppendFacts DEF Announced
    <3>7. said.is \in Models /\ k \in Nat /\ k <= Len(said.text)
          /\ (\A i \in 1..k : said.text[i] = Spelling(said.is)[i])
          /\ (Len(said.text) > k => said.text[k + 1] \in Mark)
      <4>1. said.is \in Models
        BY <3>3 DEF Announced
      <4>2. k \in Nat
        BY <4>1, SpellingFacts
      <4>. QED  BY <3>3, <4>1, <4>2 DEF Announced
    <3>8. TailLength = Len(said.text) - k
      BY DEF TailLength
    <3>. HIDE DEF new, k
    <3>9. k <= Len(new) /\ (\A i \in 1..k : new[i] = Spelling(said.is)[i])
      BY <3>6, <3>7
    <3>10. Len(new) > k => new[k + 1] \in Mark
      <4>1. CASE Len(said.text) = k
        BY <3>5, <3>6, <3>8, <4>1
      <4>2. CASE Len(said.text) > k
        BY <3>6, <3>7, <4>2
      <4>. QED  BY <3>6, <3>7, <4>1, <4>2
    <3>11. Announced([is |-> said.is, text |-> new])
      BY <3>6, <3>7, <3>9, <3>10 DEF Announced, k
    <3>12. SaidInv([is |-> said.is, text |-> new])
      BY <3>11 DEF SaidInv
    <3>. QED  BY <2>6, <3>4, <3>12
  <2>7. CASE Hush /\ UNCHANGED <<bytes, items, how>>
    BY <2>7 DEF Hush, SaidInv
  <2>8. CASE UNCHANGED codecVars
    BY <2>8 DEF codecVars
  <2>. QED  BY <2>1, <2>2, <2>3, <2>4, <2>5, <2>6, <2>7, <2>8 DEF CodecNext
<1>. QED  BY <1>1, <1>2, PTL DEF CodecSpec

-----------------------------------------------------------------------------
(* Part 4: what is written.                                                *)

LEMMA RegFacts ==
  ASSUME NEW a \in DOMAIN Catalog
  PROVE  LET reg == Catalog[a]
             u   == Unit \div reg.factor
         IN  /\ reg.size \in Sizes /\ reg.wo \in {0, 1} /\ reg.factor \in Nat \ {0}
             /\ reg.min \in Int /\ reg.max \in Int /\ reg.min <= reg.max
             /\ \A n \in Numbers[reg.size] : Fits(reg.size, n)
             /\ u \in Nat \ {0} /\ Unit = u * reg.factor
             /\ \A n \in Int : At(reg, n) = n * u /\ Scaled(reg, n) = n * u
<1>. DEFINE reg == Catalog[a]
            f   == reg.factor
            u   == Unit \div f
<1>1. /\ reg.size \in Sizes /\ reg.wo \in {0, 1} /\ f \in Nat \ {0} /\ Unit % f = 0
      /\ reg.min \in Int /\ reg.max \in Int /\ reg.min <= reg.max
      /\ \A n \in Numbers[reg.size] : Fits(reg.size, n)
      /\ Unit \in Nat \ {0}
  BY CodecAssumption
<1>2. Factor(reg) = f /\ (\A n : At(reg, n) = (Unit * n) \div f) /\ (\A n : Scaled(reg, n) = n * (Unit \div Factor(reg)))
  BY <1>1 DEF Factor, At, Scaled
<1>. HIDE DEF reg, f
<1>3. u \in Nat \ {0} /\ Unit = u * f
  <2>1. u \in Nat /\ f * u <= Unit /\ Unit < f * u + f
    BY <1>1, Quotient
  <2>2. Unit = f * u + (Unit % f)
    BY <1>1
  <2>. QED  BY <1>1, <2>1, <2>2
<1>4. ASSUME NEW n \in Int PROVE (Unit * n) \div f = n * u
  <2>. HIDE DEF u
  <2>1. Unit * n = f * (n * u) /\ n * u \in Int
    BY <1>1, <1>3
  <2>2. \A k \in Int : (f * k) \div f = k
    BY <1>1
  <2>. QED  BY <2>1, <2>2
<1>5. \A n \in Int : At(reg, n) = n * u /\ Scaled(reg, n) = n * u
  BY <1>2, <1>4
<1>. QED  BY <1>1, <1>3, <1>5 DEF reg, f, u

LEMMA KnownFacts ==
  ASSUME NEW it \in Item, IsKnown(it)
  PROVE  LET reg == Catalog[it.addr]
         IN  /\ it.addr \in DOMAIN Catalog
             /\ it.n \in Int /\ Within(reg.size, it.n)
             /\ \/ it.form = it.n % 65536
                \/ reg.size = "s8" /\ it.n # -128 /\ it.form = it.n % 256
<1>1. it \in KnownItem
  <2>1. ASSUME NEW s \in Strangers, it = [addr |-> s[1], n |-> 0, form |-> s[2]] PROVE FALSE
    BY <2>1, CodecAssumption DEF IsKnown
  <2>. QED  BY <2>1 DEF Item
<1>2. PICK a \in DOMAIN Catalog :
        \E n \in Numbers[Catalog[a].size] :
          \E w \in Forms(Catalog[a], n) : it = [addr |-> a, n |-> n, form |-> w]
  BY <1>1 DEF KnownItem
<1>3. PICK n \in Numbers[Catalog[a].size] :
        \E w \in Forms(Catalog[a], n) : it = [addr |-> a, n |-> n, form |-> w]
  BY <1>2
<1>7. PICK w \in Forms(Catalog[a], n) : it = [addr |-> a, n |-> n, form |-> w]
  BY <1>3
<1>4. Catalog[a].size \in Sizes /\ Fits(Catalog[a].size, n)
  BY RegFacts
<1>5. n \in Int /\ Within(Catalog[a].size, n)
  <2>1. Within(Catalog[a].size, n)
    BY <1>4, FitsWithin
  <2>. QED  BY <2>1 DEF Within
<1>6. w = n % 65536 \/ (Catalog[a].size = "s8" /\ n # -128 /\ w = n % 256)
  BY DEF Forms
<1>. QED  BY <1>5, <1>6, <1>7

\* A pump takes a number as it was sent.
LEMMA TakenBack ==
  ASSUME NEW reg, reg.size \in Sizes, NEW n, Within(reg.size, n)
  PROVE  /\ Taken(reg, (n \div 65536) % 65536, n % 65536) = n
         /\ ~Wide(reg) => Taken(reg, n % 65536, n % 65536) = n
<1>. USE DEF Within, Least, Greatest, Taken, Wide
<1>1. CASE reg.size = "u8"
  BY <1>1
<1>2. CASE reg.size = "s8"
  BY <1>2
<1>3. CASE reg.size = "u16"
  BY <1>3
<1>4. CASE reg.size = "s16"
  BY <1>4
<1>5. CASE reg.size = "u32"
  <2>1. n \in Int /\ 0 <= n /\ n < 65536 * 65536
    BY <1>5
  <2>2. (n \div 65536) % 65536 = n \div 65536 /\ (n \div 65536) * 65536 + (n % 65536) = n
    BY <2>1
  <2>. QED  BY <1>5, <2>2
<1>6. CASE reg.size = "s32"
  BY <1>6
<1>. HIDE DEF Within, Least, Greatest, Taken, Wide
<1>. QED  BY <1>1, <1>2, <1>3, <1>4, <1>5, <1>6 DEF Sizes

\* WritesNearest of one item.
LEMMA OneNearest ==
  ASSUME NEW it \in Item, IsKnown(it), Writable(Catalog[it.addr]),
         NEW x \in SetNear(Catalog[it.addr], it.n)
  PROVE  LET reg == Catalog[it.addr]
             n   == it.n
             got == OverNibe(reg, x)
         IN  /\ reg.min <= got /\ got <= reg.max
             /\ \A r \in n - Reach .. n + Reach : reg.min <= r /\ r <= reg.max =>
                  Distance(At(reg, got), x) <= Distance(At(reg, r), x)
             /\ OverModbus(reg, x) = got
             /\ ShownAfter(reg, x) = At(reg, got)
<1>. DEFINE reg == Catalog[it.addr]
            u   == Unit \div reg.factor
            raw == RawToWrite(reg, x)
<1>1. /\ reg.size \in Sizes /\ reg.wo \in {0, 1} /\ reg.factor \in Nat \ {0}
      /\ reg.min \in Int /\ reg.max \in Int /\ reg.min <= reg.max
      /\ u \in Nat \ {0} /\ Unit = u * reg.factor
      /\ \A k \in Int : At(reg, k) = k * u /\ Scaled(reg, k) = k * u
      /\ it.n \in Int
  BY KnownFacts, RegFacts
<1>2. x \in Int
  <2>1. PICK d \in Offsets : x = At(reg, it.n) + d
    BY DEF SetNear
  <2>2. d \in Int /\ At(reg, it.n) \in Int
    BY <1>1, CodecAssumption
  <2>. QED  BY <2>1, <2>2
<1>3. Ranged(reg) /\ Fits(reg.size, reg.min) /\ Fits(reg.size, reg.max)
  BY <1>1 DEF Writable, Ranged
<1>. HIDE DEF reg, u
<1>4. /\ raw \in reg.min .. reg.max
      /\ \A r \in reg.min .. reg.max :
           Distance(Scaled(reg, raw), x) <= Distance(Scaled(reg, r), x)
      /\ ShownAfter(reg, x) = Scaled(reg, raw)
  BY <1>1, <1>2, <1>3, Nearest
<1>. HIDE DEF raw
<1>5. raw \in Int /\ reg.min <= raw /\ raw <= reg.max
  BY <1>1, <1>4
<1>6. Within(reg.size, raw)
  BY <1>1, <1>3, <1>5, BetweenFits
<1>7. OverNibe(reg, x) = raw
  <2>1. OverNibe(reg, x) = Taken(reg, (raw \div 65536) % 65536, raw % 65536)
    BY DEF OverNibe, NibeWrite, raw
  <2>. QED  BY <1>1, <1>6, <2>1, TakenBack
<1>8. OverModbus(reg, x) = raw
  <2>1. CASE Wide(reg)
    <3>1. OverModbus(reg, x) = Taken(reg, (raw \div 65536) % 65536, raw % 65536)
      BY <2>1 DEF OverModbus, ModbusWrite, raw
    <3>. QED  BY <1>1, <1>6, <3>1, TakenBack
  <2>2. CASE ~Wide(reg)
    <3>1. OverModbus(reg, x) = Taken(reg, raw % 65536, raw % 65536)
      BY <2>2 DEF OverModbus, ModbusWrite, raw
    <3>. QED  BY <1>1, <1>6, <2>2, <3>1, TakenBack
  <2>. QED  BY <2>1, <2>2
<1>9. ASSUME NEW r \in it.n - Reach .. it.n + Reach, reg.min <= r, r <= reg.max
      PROVE  Distance(At(reg, raw), x) <= Distance(At(reg, r), x)
  <2>1. r \in Int /\ r \in reg.min .. reg.max
    BY <1>1, <1>9
  <2>2. At(reg, raw) = Scaled(reg, raw) /\ At(reg, r) = Scaled(reg, r)
    BY <1>1, <1>5, <2>1
  <2>. QED  BY <1>4, <2>1, <2>2
<1>10. ShownAfter(reg, x) = At(reg, raw)
  BY <1>1, <1>4, <1>5
<1>. QED  BY <1>5, <1>7, <1>8, <1>9, <1>10 DEF reg

(* WritesNearest, in every state: the number that control() has sent over  *)
(* either bus and that the entity shows is, of those the register allows,  *)
(* nearest to what was set.                                                *)
THEOREM NearestWritten == CodecSpec => []WritesNearest
<1>1. ASSUME CodecInv PROVE WritesNearest
  <2>. SUFFICES ASSUME NEW i \in DOMAIN items, IsKnown(items[i]), Writable(Catalog[items[i].addr]),
                       NEW x \in SetNear(Catalog[items[i].addr], items[i].n)
                PROVE  LET reg == Catalog[items[i].addr]
                           n   == items[i].n
                           got == OverNibe(reg, x)
                       IN  /\ reg.min <= got /\ got <= reg.max
                           /\ \A r \in n - Reach .. n + Reach : reg.min <= r /\ r <= reg.max =>
                                Distance(At(reg, got), x) <= Distance(At(reg, r), x)
                           /\ OverModbus(reg, x) = got
                           /\ ShownAfter(reg, x) = At(reg, got)
    BY DEF WritesNearest
  <2>1. items[i] \in Item
    BY <1>1, ElementOfSeq, LenProperties DEF CodecInv
  <2>. QED  BY <2>1, OneNearest
<1>. QED  BY <1>1, CodecTypes, PTL

-----------------------------------------------------------------------------
(* Part 5: what is read.  A message and what should be heard of it are     *)
(* joined of their items one after the other.  on_frame_() takes as many   *)
(* words at a time as the next item is made of, so that it comes to the    *)
(* start of each; what it has heard up to there is the readings so far.    *)

(* Sequences joined one after the other.                                   *)

Joins(c, k, s) == c[0] = <<>> /\ \A j \in 1..k : c[j] = c[j - 1] \o s[j]

LEMMA JoinsExists ==
  ASSUME NEW X, NEW N \in Nat, NEW s, \A j \in 1..N : s[j] \in Seq(X)
  PROVE  \E c \in [0..N -> Seq(X)] : Joins(c, N, s)
<1>. DEFINE h == [j \in 1..N |-> [x \in Seq(X) |-> x \o s[j]]]
<1>1. h \in [1..N -> [Seq(X) -> Seq(X)]]
  <2>1. ASSUME NEW j \in 1..N, NEW x \in Seq(X) PROVE x \o s[j] \in Seq(X)
    BY ConcatProperties
  <2>. QED  BY <2>1
<1>2. \A j \in 1..N : \A x \in Seq(X) : h[j][x] = x \o s[j]
  OBVIOUS
<1>. HIDE DEF h
<1>3. PICK c : Follows(c, N, Seq(X), <<>>, h)
  BY <1>1, Recursion, EmptySeq
<1>4. ASSUME NEW j \in 1..N PROVE c[j] = c[j - 1] \o s[j]
  <2>1. j - 1 \in 0..N
    OBVIOUS
  <2>. QED  BY <1>2, <1>3, <2>1 DEF Follows
<1>. QED  BY <1>3, <1>4 DEF Joins, Follows

LEMMA JoinsSame ==
  ASSUME NEW k \in Nat, NEW c, NEW d, NEW s, Joins(c, k, s), Joins(d, k, s)
  PROVE  c[k] = d[k]
<1>. USE DEF Joins
<1>. DEFINE T == {n \in Nat : n <= k => c[n] = d[n]}
<1>1. 0 \in T
  OBVIOUS
<1>2. ASSUME NEW n \in Nat, n \in T PROVE n + 1 \in T
  <2>. SUFFICES ASSUME n + 1 <= k PROVE c[n + 1] = d[n + 1]
    OBVIOUS
  <2>1. c[n] = d[n] /\ n + 1 \in 1..k /\ (n + 1) - 1 = n
    BY <1>2
  <2>. QED  BY <2>1
<1>3. Nat \subseteq T
  <2>. HIDE DEF T
  <2>. QED  BY <1>1, <1>2, SetInduction
<1>. QED  BY <1>3

LEMMA JoinsUpTo ==
  ASSUME NEW n \in Nat, NEW k \in 0..n, NEW c, NEW s, Joins(c, n, s)
  PROVE  Joins(c, k, s)
<1>1. \A j \in 1..k : j \in 1..n
  OBVIOUS
<1>. QED  BY <1>1 DEF Joins

-----------------------------------------------------------------------------
(* A message of the pump and what should be heard of it, item by item.     *)

Part == {65535} \cup UNION {{it.addr, it.form, Low(it.n), High(it.n)} : it \in Item}

Good(it) == IF IsKnown(it) /\ Believable(it) THEN <<Reading(it)>> ELSE <<>>

Spoken == [j \in DOMAIN items |-> Words(items[j])]
Noted  == [j \in DOMAIN items |-> Good(items[j])]

LEMMA MessageIs ==
  ASSUME NEW c, Joins(c, Len(items), Spoken), items \in Seq(Item), NEW k \in 0..Len(items)
  PROVE  Message(k) = c[k]
<1>. DEFINE body(t) == [j \in 0..k |-> IF j = 0 THEN <<>> ELSE t[j - 1] \o Words(items[j])]
            t == CHOOSE t : t = body(t)
<1>1. Message(k) = t[k]
  BY DEF Message
<1>2. /\ Len(items) \in Nat /\ k \in Nat /\ k <= Len(items)
      /\ \A j \in 1..Len(items) : Spoken[j] = Words(items[j])
  BY LenProperties DEF Spoken
<1>3. c[0] = <<>> /\ \A j \in 1..k : c[j] = c[j - 1] \o Words(items[j])
  <2>1. \A j \in 1..k : j \in 1..Len(items)
    BY <1>2
  <2>2. Joins(c, k, Spoken)
    BY <1>2, JoinsUpTo
  <2>. QED  BY <1>2, <2>1, <2>2 DEF Joins
<1>4. \E d : d = body(d)
  <2>. DEFINE d == [j \in 0..k |-> c[j]]
  <2>1. ASSUME NEW j \in 0..k PROVE c[j] = IF j = 0 THEN <<>> ELSE d[j - 1] \o Words(items[j])
    <3>1. j # 0 => j \in 1..k /\ j - 1 \in 0..k
      BY <1>2
    <3>. QED  BY <1>3, <3>1
  <2>2. d = body(d)
    BY SMTT(30), <2>1
  <2>. QED  BY <2>2
<1>5. t = body(t)
  BY <1>4
<1>. HIDE DEF t
<1>6. t[0] = <<>> /\ \A j \in 1..k : t[j] = t[j - 1] \o Words(items[j])
  BY <1>2, <1>5
<1>7. Joins(t, k, Spoken) /\ Joins(c, k, Spoken)
  <2>1. \A j \in 1..k : j \in 1..Len(items)
    BY <1>2
  <2>. QED  BY <1>2, <1>6, <2>1, JoinsUpTo DEF Joins
<1>. QED  BY <1>1, <1>2, <1>7, JoinsSame

LEMMA ReadingsIs ==
  ASSUME NEW c, Joins(c, Len(items), Noted), items \in Seq(Item), NEW k \in 0..Len(items)
  PROVE  Readings(k) = c[k]
<1>. DEFINE body(t) == [j \in 0..k |-> IF j = 0 THEN <<>>
                          ELSE t[j - 1] \o (IF IsKnown(items[j]) /\ Believable(items[j])
                                            THEN <<Reading(items[j])>> ELSE <<>>)]
            t == CHOOSE t : t = body(t)
<1>1. Readings(k) = t[k]
  BY DEF Readings
<1>2. /\ Len(items) \in Nat /\ k \in Nat /\ k <= Len(items)
      /\ \A j \in 1..Len(items) :
           Noted[j] = IF IsKnown(items[j]) /\ Believable(items[j])
                      THEN <<Reading(items[j])>> ELSE <<>>
  BY LenProperties DEF Noted, Good
<1>3. c[0] = <<>> /\ \A j \in 1..k : c[j] = c[j - 1] \o Noted[j]
  <2>1. Joins(c, k, Noted)
    BY <1>2, JoinsUpTo
  <2>. QED  BY <2>1 DEF Joins
<1>4. \E d : d = body(d)
  <2>. DEFINE d == [j \in 0..k |-> c[j]]
  <2>1. ASSUME NEW j \in 0..k
        PROVE  c[j] = IF j = 0 THEN <<>>
                      ELSE d[j - 1] \o (IF IsKnown(items[j]) /\ Believable(items[j])
                                        THEN <<Reading(items[j])>> ELSE <<>>)
    <3>1. j # 0 => j \in 1..k /\ j - 1 \in 0..k /\ j \in 1..Len(items)
      BY <1>2
    <3>2. CASE j = 0
      BY <1>3, <3>2
    <3>3. CASE j # 0
      <4>1. c[j] = c[j - 1] \o Noted[j] /\ d[j - 1] = c[j - 1]
        BY <1>3, <3>1, <3>3
      <4>. HIDE DEF d
      <4>. QED  BY <1>2, <3>1, <3>3, <4>1
    <3>. QED  BY <3>2, <3>3
  <2>2. d = body(d)
    BY <2>1
  <2>. QED  BY <2>2
<1>5. t = body(t)
  BY <1>4
<1>. HIDE DEF t
<1>6. t[0] = <<>>
  BY <1>2, <1>5
<1>7. ASSUME NEW j \in 1..k PROVE t[j] = t[j - 1] \o Noted[j]
  <2>1. j \in 0..k /\ j # 0 /\ j \in 1..Len(items)
    BY <1>2
  <2>2. t[j] = t[j - 1] \o (IF IsKnown(items[j]) /\ Believable(items[j])
                            THEN <<Reading(items[j])>> ELSE <<>>)
    BY <1>5, <2>1
  <2>. QED  BY <1>2, <2>1, <2>2
<1>8. Joins(t, k, Noted) /\ Joins(c, k, Noted)
  BY <1>3, <1>6, <1>7 DEF Joins
<1>. QED  BY <1>1, <1>2, <1>8, JoinsSame

-----------------------------------------------------------------------------
(* The walk through a message.                                             *)

NeedHere(a) == Need(Catalog[a], how)

ReadingAt(w, i) == ReadingOf(w[i], Catalog[w[i]], RawNibe(Catalog[w[i]], how, w, i))

\* What is heard from word i on, where f says what is heard from the words
\* behind it on.
Step(f, w, i) ==
  IF i + 1 > Len(w) THEN <<>>
  ELSE IF w[i] \notin DOMAIN Catalog THEN f[i + 2]
  ELSE IF i + NeedHere(w[i]) > Len(w) + 1 THEN <<>>
  ELSE ReadingAt(w, i) \o f[i + NeedHere(w[i])]

Walks(f, w) == \A i \in 1 .. Len(w) + 3 : f[i] = Step(f, w, i)

LEMMA NeedFacts == \A a : NeedHere(a) \in Nat /\ 2 <= NeedHere(a) /\ NeedHere(a) <= 4
  BY DEF NeedHere, Need

LEMMA StepLooksAhead ==
  ASSUME NEW f, NEW g, NEW w, Len(w) \in Nat, NEW i \in 1 .. Len(w) + 3,
         \A k \in 1 .. Len(w) + 3 : k > i => f[k] = g[k]
  PROVE  Step(f, w, i) = Step(g, w, i)
<1>1. CASE i + 1 > Len(w)
  BY <1>1 DEF Step
<1>2. CASE i + 1 <= Len(w) /\ w[i] \notin DOMAIN Catalog
  <2>1. i + 2 \in 1 .. Len(w) + 3 /\ i + 2 > i /\ ~(i + 1 > Len(w))
    BY <1>2
  <2>. QED  BY <1>2, <2>1 DEF Step
<1>3. CASE i + 1 <= Len(w) /\ w[i] \in DOMAIN Catalog
  <2>. DEFINE n == i + NeedHere(w[i])
  <2>1. n \in Nat /\ n > i /\ ~(i + 1 > Len(w))
    BY <1>3, NeedFacts
  <2>2. CASE n > Len(w) + 1
    BY <1>3, <2>1, <2>2 DEF Step
  <2>3. CASE ~(n > Len(w) + 1)
    <3>. HIDE DEF n
    <3>1. n \in 1 .. Len(w) + 3
      BY <2>1, <2>3
    <3>2. f[n] = g[n]
      BY <2>1, <3>1
    <3>. QED  BY <1>3, <2>1, <2>3, <3>2 DEF Step, n
  <2>. QED  BY <2>2, <2>3
<1>. QED  BY <1>1, <1>2, <1>3

LEMMA WalkExists ==
  ASSUME NEW w, Len(w) \in Nat
  PROVE  \E f : f = [i \in 1 .. Len(w) + 3 |-> Step(f, w, i)]
<1>. DEFINE N == Len(w) + 3
            OK(f, j) == \A i \in 1..N : i > N - j => f[i] = Step(f, w, i)
            T == {j \in Nat : j <= N => \E f : OK(f, j)}
<1>0. N \in Nat
  OBVIOUS
<1>1. 0 \in T
  BY <1>0
<1>2. ASSUME NEW j \in Nat, j \in T PROVE j + 1 \in T
  <2>. SUFFICES ASSUME j + 1 <= N PROVE \E f : OK(f, j + 1)
    OBVIOUS
  <2>1. PICK f : OK(f, j)
    BY <1>0, <1>2
  <2>. DEFINE m == N - j
              g == [i \in 1..N |-> IF i = m THEN Step(f, w, i) ELSE f[i]]
  <2>2. m \in 1..N /\ g[m] = Step(f, w, m) /\ \A i \in 1..N : i # m => g[i] = f[i]
    BY <1>0
  <2>. HIDE DEF g
  <2>3. \A i \in 1..N : i >= m => Step(f, w, i) = Step(g, w, i)
    <3>. SUFFICES ASSUME NEW i \in 1..N, i >= m PROVE Step(f, w, i) = Step(g, w, i)
      OBVIOUS
    <3>1. \A k \in 1..N : k > i => f[k] = g[k]
      BY <2>2
    <3>. QED  BY <3>1, StepLooksAhead
  <2>4. ASSUME NEW i \in 1..N, i > N - (j + 1) PROVE g[i] = Step(g, w, i)
    <3>1. i >= m
      BY <1>0, <2>4
    <3>2. CASE i = m
      BY <2>2, <2>3, <3>1, <3>2
    <3>3. CASE i # m
      <4>1. i > N - j
        BY <1>0, <3>1, <3>3
      <4>2. f[i] = Step(f, w, i)
        BY <2>1, <4>1
      <4>. QED  BY <2>2, <2>3, <3>1, <3>3, <4>2
    <3>. QED  BY <3>2, <3>3
  <2>. QED  BY <2>4
<1>3. N \in T
  <2>. HIDE DEF T
  <2>. QED  BY <1>0, <1>1, <1>2, SetInduction
<1>4. PICK f : OK(f, N)
  BY <1>0, <1>3
<1>. DEFINE g == [i \in 1..N |-> f[i]]
<1>5. \A i \in 1..N : f[i] = Step(f, w, i)
  BY <1>0, <1>4
<1>6. ASSUME NEW i \in 1..N PROVE Step(f, w, i) = Step(g, w, i)
  <2>1. \A k \in 1..N : f[k] = g[k]
    OBVIOUS
  <2>. HIDE DEF g
  <2>. QED  BY <2>1, StepLooksAhead
<1>7. g = [i \in 1..N |-> Step(g, w, i)]
  <2>1. \A i \in 1..N : f[i] = Step(g, w, i)
    BY <1>5, <1>6
  <2>2. [i \in 1..N |-> f[i]] = [i \in 1..N |-> Step(g, w, i)]
    <3>. HIDE DEF g
    <3>. QED  BY <2>1
  <2>. QED  BY <2>2
<1>. QED  BY <1>7

LEMMA HeardIsWalk ==
  ASSUME NEW w, Len(w) \in Nat
  PROVE  \E f : Walks(f, w) /\ Heard(Catalog, how, w) = f[1]
<1>. DEFINE f == CHOOSE f : f = [i \in 1 .. Len(w) + 3 |-> Step(f, w, i)]
<1>1. f = [i \in 1 .. Len(w) + 3 |-> Step(f, w, i)]
  BY WalkExists
<1>2. Heard(Catalog, how, w) = f[1]
  BY DEF Heard, Step, NeedHere, ReadingAt
<1>3. Walks(f, w)
  <2>. HIDE DEF f
  <2>. QED  BY <1>1 DEF Walks
<1>. QED  BY <1>2, <1>3

\* What is heard is made of readings at the words of the message.
LEMMA WalkTyped ==
  ASSUME NEW w, Len(w) \in Nat, NEW f, Walks(f, w), NEW S,
         \A i \in 1 .. Len(w) : ReadingAt(w, i) \in Seq(S)
  PROVE  \A i \in 1 .. Len(w) + 3 : f[i] \in Seq(S)
<1>. DEFINE N == Len(w) + 3
            T == {j \in Nat : j <= N => \A i \in 1..N : i > N - j => f[i] \in Seq(S)}
<1>0. N \in Nat
  OBVIOUS
<1>1. 0 \in T
  BY <1>0
<1>2. ASSUME NEW j \in Nat, j \in T PROVE j + 1 \in T
  <2>. SUFFICES ASSUME j + 1 <= N, NEW i \in 1..N, i > N - (j + 1) PROVE f[i] \in Seq(S)
    OBVIOUS
  <2>1. \A k \in 1..N : k > N - j => f[k] \in Seq(S)
    BY <1>0, <1>2
  <2>2. \A k \in 1..N : k > i => f[k] \in Seq(S)
    BY <1>0, <2>1
  <2>3. f[i] = Step(f, w, i)
    BY DEF Walks
  <2>4. CASE i + 1 > Len(w)
    <3>1. f[i] = <<>>
      BY <2>3, <2>4 DEF Step
    <3>. QED  BY <3>1, EmptySeq
  <2>5. CASE i + 1 <= Len(w) /\ w[i] \notin DOMAIN Catalog
    <3>1. i + 2 \in 1..N /\ i + 2 > i /\ ~(i + 1 > Len(w))
      BY <2>5
    <3>2. f[i] = f[i + 2]
      BY <2>3, <2>5, <3>1 DEF Step
    <3>. QED  BY <2>2, <3>1, <3>2
  <2>6. CASE i + 1 <= Len(w) /\ w[i] \in DOMAIN Catalog
    <3>. DEFINE n == i + NeedHere(w[i])
    <3>1. n \in Nat /\ n > i /\ ~(i + 1 > Len(w)) /\ i \in 1..Len(w)
      BY <2>6, NeedFacts
    <3>2. CASE n > Len(w) + 1
      <4>1. f[i] = <<>>
        BY <2>3, <2>6, <3>1, <3>2 DEF Step
      <4>. QED  BY <4>1, EmptySeq
    <3>3. CASE ~(n > Len(w) + 1)
      <4>1. f[i] = ReadingAt(w, i) \o f[n]
        BY <2>3, <2>6, <3>1, <3>3 DEF Step
      <4>. HIDE DEF n
      <4>2. n \in 1..N
        BY <3>1, <3>3
      <4>3. f[n] \in Seq(S)
        BY <2>2, <3>1, <4>2
      <4>4. ReadingAt(w, i) \in Seq(S)
        BY <3>1
      <4>. QED  BY <4>1, <4>3, <4>4, ConcatProperties
    <3>. QED  BY <3>2, <3>3
  <2>. QED  BY <2>4, <2>5, <2>6
<1>3. N \in T
  <2>. HIDE DEF T
  <2>. QED  BY <1>0, <1>1, <1>2, SetInduction
<1>. QED  BY <1>0, <1>3

-----------------------------------------------------------------------------
(* One item of a message.                                                  *)

LEMMA WordsFacts ==
  ASSUME NEW it \in Item, how \in {"list", "single"}
  PROVE  /\ Words(it) \in Seq(Part)
         /\ Len(Words(it)) \in Nat /\ 2 <= Len(Words(it)) /\ Len(Words(it)) <= 4
         /\ Words(it)[1] = it.addr
         /\ Len(Words(it)) = IF IsKnown(it) THEN NeedHere(it.addr) ELSE 2
<1>1. {65535, it.addr, it.form, Low(it.n), High(it.n)} \subseteq Part
  BY DEF Part
<1>2. CASE ~IsWide(it)
  <2>1. Words(it) = <<it.addr, it.form>>
    BY <1>2 DEF Words
  <2>2. IsKnown(it) => NeedHere(it.addr) = 2
    BY <1>2 DEF IsWide, NeedHere, Need
  <2>. QED  BY <1>1, <2>1, <2>2
<1>3. CASE IsWide(it) /\ how = "list"
  <2>1. Words(it) = <<it.addr, Low(it.n), 65535, High(it.n)>>
    BY <1>3 DEF Words
  <2>2. IsKnown(it) /\ NeedHere(it.addr) = 4
    BY <1>3 DEF IsWide, NeedHere, Need
  <2>. QED  BY <1>1, <2>1, <2>2
<1>4. CASE IsWide(it) /\ how = "single"
  <2>1. Words(it) = <<it.addr, High(it.n), Low(it.n)>>
    BY <1>4 DEF Words
  <2>2. IsKnown(it) /\ NeedHere(it.addr) = 3
    BY <1>4 DEF IsWide, NeedHere, Need
  <2>. QED  BY <1>1, <2>1, <2>2
<1>. QED  BY <1>2, <1>3, <1>4

\* Only the words behind the address matter, not where they are.
LEMMA RawMoves ==
  ASSUME NEW reg, reg.size \in Sizes, NEW cmd, NEW w, NEW v, NEW p \in Nat,
         w[p + 1] = v[2],
         Wide(reg) /\ cmd = "list" => w[p + 3] = v[4],
         Wide(reg) /\ cmd # "list" => w[p + 2] = v[3]
  PROVE  RawNibe(reg, cmd, w, p) = RawNibe(reg, cmd, v, 1)
<1>1. CASE reg.size \in {"u8", "u16"}
  BY <1>1 DEF RawNibe
<1>2. CASE reg.size = "s8"
  BY <1>2 DEF RawNibe
<1>3. CASE reg.size = "s16"
  BY <1>3 DEF RawNibe
<1>4. CASE reg.size \in {"u32", "s32"} /\ cmd = "list"
  <2>1. \A u, q : RawNibe(reg, cmd, u, q) = Joined(reg, u[q + 3], u[q + 1])
    BY <1>4 DEF RawNibe, Wide
  <2>2. w[p + 3] = v[4]
    BY <1>4 DEF Wide
  <2>. QED  BY <2>1, <2>2
<1>5. CASE reg.size \in {"u32", "s32"} /\ cmd # "list"
  <2>1. \A u, q : RawNibe(reg, cmd, u, q) = Joined(reg, u[q + 1], u[q + 2])
    <3>1. Wide(reg) /\ reg.size \notin {"u8", "u16", "s8", "s16"}
      BY <1>5 DEF Wide
    <3>. QED  BY <1>5, <3>1 DEF RawNibe
  <2>2. w[p + 2] = v[3]
    BY <1>5 DEF Wide
  <2>. QED  BY SMTT(30), <2>1, <2>2
<1>. QED  BY <1>1, <1>2, <1>3, <1>4, <1>5 DEF Sizes

LEMMA ItemRaw ==
  ASSUME NEW it \in Item, IsKnown(it), how \in {"list", "single"}
  PROVE  RawNibe(Catalog[it.addr], how, Words(it), 1) = it.n
<1>. DEFINE reg == Catalog[it.addr]
<1>1. /\ reg.size \in Sizes /\ it.n \in Int /\ Within(reg.size, it.n)
      /\ \/ it.form = it.n % 65536
         \/ reg.size = "s8" /\ it.n # -128 /\ it.form = it.n % 256
  BY KnownFacts, RegFacts
<1>2. IsWide(it) <=> Wide(reg)
  BY DEF IsWide
<1>3. Words(it) = IF ~Wide(reg) THEN <<it.addr, it.form>>
                  ELSE IF how = "list" THEN <<it.addr, Low(it.n), 65535, High(it.n)>>
                  ELSE <<it.addr, High(it.n), Low(it.n)>>
  BY <1>2 DEF Words
<1>. HIDE DEF reg
<1>4. /\ RawNibe(reg, how, Said(reg, how, it.addr, it.n), 1) = it.n
      /\ reg.size = "s8" /\ it.n # -128 =>
           RawNibe(reg, how, <<it.addr, it.n % 256>>, 1) = it.n
  BY <1>1, NibeReadsBack
<1>5. /\ ~Wide(reg) => Said(reg, how, it.addr, it.n) = <<it.addr, it.n % 65536>>
      /\ Wide(reg) /\ how = "list" =>
           Said(reg, how, it.addr, it.n) = <<it.addr, Low(it.n), 65535, High(it.n)>>
      /\ Wide(reg) /\ how = "single" =>
           Said(reg, how, it.addr, it.n) = <<it.addr, High(it.n), Low(it.n)>>
  BY DEF Said, NibeWrite, Low, High
<1>6. CASE ~Wide(reg)
  <2>1. Words(it) = <<it.addr, it.form>>
    BY <1>3, <1>6
  <2>. QED  BY <1>1, <1>4, <1>5, <1>6, <2>1 DEF reg
<1>7. CASE Wide(reg)
  <2>1. Words(it) = Said(reg, how, it.addr, it.n)
    BY <1>3, <1>5, <1>7
  <2>. QED  BY <1>4, <2>1 DEF reg
<1>. QED  BY <1>6, <1>7

\* The words of the item are at p in w.
LiesAt(it, w, p) ==
  /\ p \in Nat \ {0} /\ Len(w) \in Nat /\ p + Len(Words(it)) <= Len(w) + 1
  /\ \A m \in 1..Len(Words(it)) : w[p + m - 1] = Words(it)[m]

LEMMA InRangeIsBelievable ==
  ASSUME NEW it \in Item, IsKnown(it)
  PROVE  InRange(Catalog[it.addr], it.n) = Believable(it)
<1>. DEFINE reg == Catalog[it.addr]
<1>1. reg.factor \in Nat \ {0} /\ reg.min \in Int /\ reg.max \in Int /\ it.n \in Int
  BY KnownFacts, RegFacts
<1>2. Believable(it) = ((reg.min = 0 /\ reg.max = 0) \/ (reg.min <= it.n /\ it.n <= reg.max))
  BY DEF Believable
<1>. HIDE DEF reg
<1>3. InRange(reg, it.n) = ((reg.min # 0 \/ reg.max # 0) => it.n \in reg.min .. reg.max)
  BY <1>1 DEF InRange, Ranged
<1>. QED  BY <1>1, <1>2, <1>3 DEF reg

LEMMA ItemReads ==
  ASSUME NEW it \in Item, IsKnown(it), how \in {"list", "single"},
         NEW w, NEW p, LiesAt(it, w, p)
  PROVE  w[p] = it.addr /\ ReadingAt(w, p) = Good(it)
<1>. DEFINE reg == Catalog[it.addr]
            v   == Words(it)
<1>1. /\ v[1] = it.addr /\ Len(v) = NeedHere(it.addr) /\ Len(v) \in Nat /\ 2 <= Len(v)
      /\ p \in Nat /\ \A m \in 1..Len(v) : w[p + m - 1] = v[m]
  BY WordsFacts DEF LiesAt
<1>2. w[p] = it.addr /\ w[p + 1] = v[2]
  <2>1. 1 \in 1..Len(v) /\ 2 \in 1..Len(v) /\ p + 1 - 1 = p /\ p + 2 - 1 = p + 1
    BY <1>1
  <2>. QED  BY <1>1, <2>1
<1>3. /\ Wide(reg) /\ how = "list" => w[p + 3] = v[4]
      /\ Wide(reg) /\ how # "list" => w[p + 2] = v[3]
  <2>1. CASE Wide(reg) /\ how = "list"
    <3>1. Len(v) = 4
      BY <1>1, <2>1 DEF NeedHere, Need
    <3>2. 4 \in 1..Len(v) /\ p + 4 - 1 = p + 3
      BY <1>1, <3>1
    <3>. QED  BY <1>1, <2>1, <3>2
  <2>2. CASE Wide(reg) /\ how # "list"
    <3>1. Len(v) = 3
      BY <1>1, <2>2 DEF NeedHere, Need
    <3>2. 3 \in 1..Len(v) /\ p + 3 - 1 = p + 2
      BY <1>1, <3>1
    <3>. QED  BY <1>1, <2>2, <3>2
  <2>. QED  BY <2>1, <2>2
<1>4. RawNibe(reg, how, v, 1) = it.n
  BY ItemRaw
<1>5. /\ reg.size \in Sizes /\ it.n \in Int
      /\ \A n \in Int : At(reg, n) = Scaled(reg, n)
  BY KnownFacts, RegFacts
<1>6. InRange(reg, it.n) = Believable(it)
  BY InRangeIsBelievable
<1>7. Reading(it) = [addr |-> it.addr, value |-> At(reg, it.n)]
  BY DEF Reading, At
<1>8. ReadingAt(w, p) = ReadingOf(it.addr, reg, RawNibe(reg, how, w, p))
  BY <1>2 DEF ReadingAt
<1>. HIDE DEF reg, v
<1>9. RawNibe(reg, how, w, p) = it.n
  BY <1>1, <1>2, <1>3, <1>4, <1>5, RawMoves
<1>10. ReadingOf(it.addr, reg, it.n) =
         IF Believable(it) THEN <<Reading(it)>> ELSE <<>>
  BY <1>5, <1>6, <1>7 DEF ReadingOf
<1>. QED  BY <1>2, <1>8, <1>9, <1>10 DEF Good

\* The walk takes the item in one step.
LEMMA ItemStep ==
  ASSUME NEW it \in Item, how \in {"list", "single"},
         NEW w, NEW p, LiesAt(it, w, p), NEW f, Walks(f, w),
         NEW S, f[p + Len(Words(it))] \in Seq(S)
  PROVE  f[p] = Good(it) \o f[p + Len(Words(it))]
<1>. DEFINE n == Len(Words(it))
<1>1. /\ n \in Nat /\ 2 <= n /\ n <= 4 /\ Words(it)[1] = it.addr
      /\ n = IF IsKnown(it) THEN NeedHere(it.addr) ELSE 2
      /\ p \in Nat \ {0} /\ Len(w) \in Nat /\ p + n <= Len(w) + 1
  BY WordsFacts DEF LiesAt
<1>2. w[p] = it.addr
  <2>1. 1 \in 1..n /\ p + 1 - 1 = p
    BY <1>1
  <2>. QED  BY <1>1, <2>1 DEF LiesAt
<1>. HIDE DEF n
<1>3. f[p] = Step(f, w, p)
  BY <1>1 DEF Walks
<1>4. ~(p + 1 > Len(w)) /\ ~(p + n > Len(w) + 1)
  BY <1>1
<1>5. CASE IsKnown(it)
  <2>1. it.addr \in DOMAIN Catalog /\ n = NeedHere(w[p])
    BY <1>1, <1>2, <1>5 DEF IsKnown
  <2>2. f[p] = ReadingAt(w, p) \o f[p + n]
    BY <1>2, <1>3, <1>4, <2>1 DEF Step
  <2>3. ReadingAt(w, p) = Good(it)
    BY <1>5, ItemReads
  <2>. QED  BY <2>2, <2>3 DEF n
<1>6. CASE ~IsKnown(it)
  <2>1. f[p] = f[p + n]
    BY <1>1, <1>2, <1>3, <1>4, <1>6 DEF Step, IsKnown
  <2>2. Good(it) = <<>>
    BY <1>6 DEF Good
  <2>. QED  BY <2>1, <2>2, ConcatEmptySeq DEF n
<1>. QED  BY <1>5, <1>6

-----------------------------------------------------------------------------
(* The whole of a message.                                                 *)

\* t is v behind u.
Behind(S, u, v, t) == u \in Seq(S) /\ v \in Seq(S) /\ t = u \o v

LEMMA Regroup ==
  ASSUME NEW S, NEW a, NEW b, NEW e, NEW x, NEW y, NEW p,
         Behind(S, a, p, x), Behind(S, b, e, p), Behind(S, a, b, y)
  PROVE  Behind(S, y, e, x)
<1>1. a \in Seq(S) /\ b \in Seq(S) /\ e \in Seq(S)
  BY DEF Behind
<1>2. (a \o b) \o e = a \o (b \o e)
  BY <1>1, ConcatAssociative
<1>3. a \o b \in Seq(S)
  BY <1>1, ConcatProperties
<1>. QED  BY <1>1, <1>2, <1>3 DEF Behind

Extending(w, v) == Len(v) <= Len(w) /\ \A i \in 1..Len(v) : w[i] = v[i]

\* v is in w behind u.
Following(w, u, v) == \A m \in 1..Len(v) : w[Len(u) + m] = v[m]

LEMMA ExtendsBoth ==
  ASSUME NEW X, NEW u, NEW v, NEW t, Behind(X, u, v, t),
         NEW w, Len(w) \in Nat, Extending(w, t)
  PROVE  /\ Extending(w, u) /\ Len(u) \in Nat /\ Len(t) = Len(u) + Len(v)
         /\ Following(w, u, v)
<1>0. u \in Seq(X) /\ v \in Seq(X) /\ t = u \o v
  BY DEF Behind
<1>1. Len(u) \in Nat /\ Len(v) \in Nat
  BY <1>0, LenProperties
<1>2. Len(t) = Len(u) + Len(v)
      /\ \A i \in 1 .. Len(u) + Len(v) : t[i] = IF i <= Len(u) THEN u[i] ELSE v[i - Len(u)]
  BY <1>0, ConcatProperties
<1>3. \A i \in 1 .. Len(u) + Len(v) : w[i] = IF i <= Len(u) THEN u[i] ELSE v[i - Len(u)]
  BY <1>2 DEF Extending
<1>4. Len(u) + Len(v) <= Len(w)
  BY <1>2 DEF Extending
<1>5. Extending(w, u)
  BY <1>1, <1>3, <1>4 DEF Extending
<1>6. ASSUME NEW m \in 1..Len(v) PROVE w[Len(u) + m] = v[m]
  <2>1. Len(u) + m \in 1 .. Len(u) + Len(v) /\ ~(Len(u) + m <= Len(u)) /\ (Len(u) + m) - Len(u) = m
    BY <1>1
  <2>. QED  BY <1>3, <2>1
<1>. QED  BY <1>1, <1>2, <1>5, <1>6 DEF Following

\* What may be heard of a message.
Hearable(w) ==
  {[addr |-> w[i], value |-> Scaled(Catalog[w[i]], RawNibe(Catalog[w[i]], how, w, i))] : i \in 1..Len(w)}
    \cup {Reading(it) : it \in Item}

LEMMA HearableFacts ==
  ASSUME NEW w
  PROVE  /\ \A i \in 1..Len(w) : ReadingAt(w, i) \in Seq(Hearable(w))
         /\ \A it \in Item : Good(it) \in Seq(Hearable(w))
<1>. DEFINE S == Hearable(w)
            r(i) == [addr |-> w[i], value |-> Scaled(Catalog[w[i]], RawNibe(Catalog[w[i]], how, w, i))]
<1>1. (\A i \in 1..Len(w) : r(i) \in S) /\ (\A it \in Item : Reading(it) \in S)
  BY DEF Hearable
<1>2. \A i : ReadingAt(w, i) = IF InRange(Catalog[w[i]], RawNibe(Catalog[w[i]], how, w, i))
                               THEN <<r(i)>> ELSE <<>>
  BY DEF ReadingAt, ReadingOf
<1>. HIDE DEF S, r
<1>3. \A x \in S : <<x>> \in Seq(S)
  OBVIOUS
<1>4. <<>> \in Seq(S)
  BY EmptySeq
<1>5. \A i \in 1..Len(w) : ReadingAt(w, i) \in Seq(S)
  BY <1>1, <1>2, <1>3, <1>4
<1>6. \A it \in Item : Good(it) \in Seq(S)
  BY <1>1, <1>3, <1>4 DEF Good
<1>. QED  BY <1>5, <1>6 DEF S

\* What is heard is d[j], and what is heard behind the words c[j].
HeardBehind(f, c, d, j) == f[1] = d[j] \o f[Len(c[j]) + 1]

\* Nothing is heard from word p on.
Silent(w, p) == \A f : Walks(f, w) => f[p] = <<>>

LEMMA HeardReads ==
  ASSUME items \in Seq(Item), how \in {"list", "single"}, NEW k \in 0..Len(items),
         NEW w, Len(w) \in Nat, Extending(w, Message(k)),
         Silent(w, Len(Message(k)) + 1)
  PROVE  Heard(Catalog, how, w) = Readings(k)
<1>. DEFINE N == Len(items)
            S == Hearable(w)
<1>1. /\ N \in Nat /\ k \in Nat /\ k <= N
      /\ \A j \in 1..N : items[j] \in Item /\ Spoken[j] = Words(items[j]) /\ Noted[j] = Good(items[j])
  BY LenProperties, ElementOfSeq DEF Spoken, Noted
<1>2. /\ \A j \in 1..N : Spoken[j] \in Seq(Part) /\ Noted[j] \in Seq(S)
      /\ \A i \in 1..Len(w) : ReadingAt(w, i) \in Seq(S)
  BY <1>1, WordsFacts, HearableFacts
<1>. HIDE DEF S
<1>3. PICK c : c \in [0..N -> Seq(Part)] /\ Joins(c, N, Spoken)
  BY <1>1, <1>2, JoinsExists
<1>4. PICK d : d \in [0..N -> Seq(S)] /\ Joins(d, N, Noted)
  BY <1>1, <1>2, JoinsExists
<1>5. Message(k) = c[k] /\ Readings(k) = d[k]
  BY <1>3, <1>4, MessageIs, ReadingsIs
<1>6. PICK f : Walks(f, w) /\ Heard(Catalog, how, w) = f[1]
  BY HeardIsWalk
<1>7. \A i \in 1 .. Len(w) + 3 : f[i] \in Seq(S)
  BY <1>2, <1>6, WalkTyped
<1>8. \A j \in 1..k : /\ c[j] = c[j - 1] \o Words(items[j]) /\ d[j] = d[j - 1] \o Good(items[j])
                      /\ c[j - 1] \in Seq(Part) /\ Words(items[j]) \in Seq(Part)
                      /\ d[j - 1] \in Seq(S) /\ Good(items[j]) \in Seq(S)
                      /\ items[j] \in Item
  <2>. SUFFICES ASSUME NEW j \in 1..k
                PROVE  /\ c[j] = c[j - 1] \o Words(items[j]) /\ d[j] = d[j - 1] \o Good(items[j])
                       /\ c[j - 1] \in Seq(Part) /\ Words(items[j]) \in Seq(Part)
                       /\ d[j - 1] \in Seq(S) /\ Good(items[j]) \in Seq(S)
                       /\ items[j] \in Item
    OBVIOUS
  <2>1. j \in 1..N /\ j - 1 \in 0..N
    BY <1>1
  <2>. QED  BY <1>1, <1>2, <1>3, <1>4, <2>1 DEF Joins
\* The message begins with each of its parts.
<1>9. \A j \in 0..k : Extending(w, c[j])
  <2>. DEFINE T == {n \in Nat : n <= k => Extending(w, c[k - n])}
  <2>1. 0 \in T
    BY <1>1, <1>5
  <2>2. ASSUME NEW n \in Nat, n \in T PROVE n + 1 \in T
    <3>. SUFFICES ASSUME n + 1 <= k PROVE Extending(w, c[k - (n + 1)])
      OBVIOUS
    <3>1. k - n \in 1..k /\ (k - n) - 1 = k - (n + 1) /\ Extending(w, c[k - n])
      BY <1>1, <2>2
    <3>. DEFINE j == k - n
    <3>. HIDE DEF j
    <3>2. Behind(Part, c[j - 1], Words(items[j]), c[j])
      BY <1>8, <3>1 DEF j, Behind
    <3>3. Extending(w, c[j])
      BY <3>1 DEF j
    <3>4. Extending(w, c[j - 1])
      BY <3>2, <3>3, ExtendsBoth
    <3>. QED  BY <3>1, <3>4 DEF j
  <2>3. Nat \subseteq T
    <3>. HIDE DEF T
    <3>. QED  BY <2>1, <2>2, SetInduction
  <2>4. ASSUME NEW j \in 0..k PROVE Extending(w, c[j])
    <3>1. k - j \in Nat /\ k - j <= k /\ k - (k - j) = j
      BY <1>1
    <3>2. k - j \in T
      <4>. HIDE DEF T
      <4>. QED  BY <2>3, <3>1
    <3>. QED  BY <3>1, <3>2
  <2>. QED  BY <2>4
\* What is heard is the readings of the first j items, and what is heard behind them.
<1>. DEFINE pos(j) == Len(c[j]) + 1
            T == {j \in Nat : j <= k => HeardBehind(f, c, d, j)}
<1>. HIDE DEF pos
<1>10. 0 \in T
  <2>1. c[0] = <<>> /\ d[0] = <<>>
    BY <1>3, <1>4 DEF Joins
  <2>2. pos(0) = 1
    BY <2>1, EmptySeq DEF pos
  <2>3. f[1] \in Seq(S)
    BY <1>7
  <2>4. f[1] = <<>> \o f[1]
    BY <2>3, ConcatEmptySeq
  <2>. QED  BY <2>1, <2>2, <2>4 DEF HeardBehind, pos
<1>11. ASSUME NEW n \in Nat, n \in T PROVE n + 1 \in T
  <2>. SUFFICES ASSUME n + 1 <= k PROVE HeardBehind(f, c, d, n + 1)
    OBVIOUS
  <2>. DEFINE j  == n + 1
              it == items[j]
              v  == Words(it)
  <2>1. j \in 1..k /\ j - 1 = n /\ j \in 0..k
    BY <1>1
  <2>2. f[1] = d[n] \o f[pos(n)]
    <3>1. HeardBehind(f, c, d, n)
      BY <1>11
    <3>. QED  BY <3>1 DEF HeardBehind, pos
  <2>. HIDE DEF j
  <2>3. /\ c[j] = c[n] \o v /\ d[j] = d[n] \o Good(it) /\ it \in Item
        /\ c[n] \in Seq(Part) /\ v \in Seq(Part) /\ d[n] \in Seq(S) /\ Good(it) \in Seq(S)
    BY <1>8, <2>1
  <2>4. Extending(w, c[j])
    BY <1>9, <2>1
  <2>. HIDE DEF v, it
  <2>5. /\ Len(c[n]) \in Nat /\ Len(c[j]) = Len(c[n]) + Len(v) /\ Len(c[j]) <= Len(w)
        /\ \A m \in 1..Len(v) : w[Len(c[n]) + m] = v[m]
        /\ Len(v) \in Nat
    <3>1. Len(c[j]) <= Len(w)
      BY <2>3, <2>4 DEF Extending
    <3>2. Len(v) \in Nat
      BY <2>3, LenProperties
    <3>3. Behind(Part, c[n], v, c[j])
      BY <2>3 DEF Behind
    <3>4. /\ Len(c[n]) \in Nat /\ Len(c[j]) = Len(c[n]) + Len(v)
          /\ Following(w, c[n], v)
      BY <2>4, <3>3, ExtendsBoth
    <3>. QED  BY <3>1, <3>2, <3>4 DEF Following
  <2>6. LiesAt(it, w, pos(n))
    <3>1. pos(n) \in Nat \ {0} /\ pos(n) + Len(v) <= Len(w) + 1
      BY <2>5 DEF pos
    <3>2. ASSUME NEW m \in 1..Len(v) PROVE w[pos(n) + m - 1] = v[m]
      <4>1. pos(n) + m - 1 = Len(c[n]) + m
        BY <2>5 DEF pos
      <4>. QED  BY <2>5, <4>1
    <3>. QED  BY <3>1, <3>2 DEF LiesAt, v
  <2>7. pos(n) + Len(v) = pos(j) /\ pos(j) \in 1 .. Len(w) + 3
    BY <2>5 DEF pos
  <2>8. f[pos(j)] \in Seq(S)
    BY <1>7, <2>7
  <2>9. f[pos(n)] = Good(it) \o f[pos(j)]
    <3>1. Walks(f, w) /\ f[pos(n) + Len(Words(it))] \in Seq(S)
      BY <1>6, <2>7, <2>8 DEF v
    <3>2. f[pos(n)] = Good(it) \o f[pos(n) + Len(Words(it))]
      BY <2>3, <2>6, <3>1, ItemStep
    <3>. QED  BY <2>7, <3>2 DEF v
  <2>10. f[1] = d[j] \o f[pos(j)]
    <3>1. d[n] \in Seq(S) /\ Good(it) \in Seq(S) /\ f[pos(n)] \in Seq(S)
      <4>1. Good(it) \o f[pos(j)] \in Seq(S)
        BY <2>3, <2>8, ConcatProperties
      <4>. QED  BY <2>3, <2>9, <4>1
    <3>2. Behind(S, d[n], f[pos(n)], f[1])
      BY <2>2, <3>1 DEF Behind
    <3>3. Behind(S, Good(it), f[pos(j)], f[pos(n)])
      BY <2>8, <2>9, <3>1 DEF Behind
    <3>4. Behind(S, d[n], Good(it), d[j])
      BY <2>3, <3>1 DEF Behind
    <3>5. Behind(S, d[j], f[pos(j)], f[1])
      BY <3>2, <3>3, <3>4, Regroup
    <3>. QED  BY <3>5 DEF Behind
  <2>. QED  BY <2>10 DEF j, HeardBehind, pos
<1>12. Nat \subseteq T
  <2>. HIDE DEF T
  <2>. QED  BY <1>10, <1>11, SetInduction
<1>13. f[1] = d[k] \o f[pos(k)]
  <2>1. HeardBehind(f, c, d, k)
    BY <1>1, <1>12
  <2>. QED  BY <2>1 DEF HeardBehind, pos
<1>14. f[pos(k)] = <<>>
  BY <1>5, <1>6 DEF pos, Silent
<1>15. d[k] \in Seq(S)
  BY <1>1, <1>4
<1>16. d[k] \o <<>> = d[k]
  BY <1>15, ConcatEmptySeq
<1>. HIDE DEF T, N
<1>. QED  BY <1>5, <1>6, <1>13, <1>14, <1>16

LEMMA MessageTyped ==
  ASSUME items \in Seq(Item), how \in {"list", "single"}, NEW k \in 0..Len(items)
  PROVE  Message(k) \in Seq(Part)
<1>1. /\ Len(items) \in Nat
      /\ \A j \in 1..Len(items) : items[j] \in Item /\ Spoken[j] = Words(items[j])
  BY LenProperties, ElementOfSeq DEF Spoken
<1>2. \A j \in 1..Len(items) : Spoken[j] \in Seq(Part)
  BY <1>1, WordsFacts
<1>3. PICK c \in [0..Len(items) -> Seq(Part)] : Joins(c, Len(items), Spoken)
  BY <1>1, <1>2, JoinsExists
<1>. QED  BY <1>3, MessageIs

\* An item that is cut off is not heard.
LEMMA CutOff ==
  ASSUME items \in Seq(Item), how \in {"list", "single"}, NEW k \in 0 .. Len(items) - 1,
         NEW more \in 1 .. Len(Words(items[k + 1])) - 1
  PROVE  LET w == Message(k) \o SubSeq(Words(items[k + 1]), 1, more)
         IN  /\ Len(w) \in Nat /\ Extending(w, Message(k))
             /\ Silent(w, Len(Message(k)) + 1)
<1>. DEFINE it == items[k + 1]
            v  == Words(it)
            b  == SubSeq(v, 1, more)
            a  == Message(k)
            w  == a \o b
            m  == Len(a)
<1>1. Len(items) \in Nat /\ k \in Nat /\ k + 1 \in 1..Len(items) /\ k \in 0..Len(items)
  BY LenProperties
<1>2. it \in Item
  BY <1>1, ElementOfSeq
<1>3. /\ v \in Seq(Part) /\ Len(v) \in Nat /\ 2 <= Len(v) /\ v[1] = it.addr
      /\ Len(v) = IF IsKnown(it) THEN NeedHere(it.addr) ELSE 2
  BY <1>2, WordsFacts
<1>. HIDE DEF v, it
<1>4. more \in Nat /\ 1 <= more /\ more < Len(v)
  BY <1>3 DEF v, it
<1>5. b \in Seq(Part) /\ Len(b) = more /\ b[1] = it.addr
  <2>1. \A i \in 1..more : v[i] \in Part
    BY <1>3, <1>4, ElementOfSeq
  <2>2. /\ b \in Seq(Part)
        /\ Len(b) = IF 1 <= more THEN more - 1 + 1 ELSE 0
        /\ \A i \in 1 .. more - 1 + 1 : b[i] = v[1 + i - 1]
    BY <1>4, <2>1, SubSeqProperties
  <2>3. 1 \in 1 .. more - 1 + 1 /\ v[1 + 1 - 1] = v[1]
    BY <1>4
  <2>4. b[1] = v[1]
    BY <2>2, <2>3
  <2>. HIDE DEF b
  <2>. QED  BY <1>3, <1>4, <2>2, <2>4
<1>6. a \in Seq(Part) /\ m \in Nat
  BY <1>1, MessageTyped, LenProperties
<1>. HIDE DEF b, a
<1>7. Behind(Part, a, b, w)
  BY <1>5, <1>6 DEF Behind
<1>8. w \in Seq(Part) /\ Len(w) = m + more /\ Len(w) \in Nat
  <2>1. w \in Seq(Part) /\ Len(w) = Len(a) + Len(b)
    BY <1>5, <1>6, ConcatProperties
  <2>. QED  BY <1>4, <1>5, <1>6, <2>1
<1>9. Extending(w, w)
  BY <1>8 DEF Extending
<1>. HIDE DEF w
<1>10. Extending(w, a) /\ \A i \in 1..more : w[m + i] = b[i]
  <2>1. Extending(w, a) /\ Following(w, a, b)
    BY <1>7, <1>8, <1>9, ExtendsBoth
  <2>. QED  BY <1>5, <2>1 DEF Following
<1>11. w[m + 1] = it.addr
  BY <1>4, <1>5, <1>10
<1>12. ASSUME NEW f, Walks(f, w) PROVE f[m + 1] = <<>>
  <2>1. f[m + 1] = Step(f, w, m + 1)
    BY <1>4, <1>6, <1>8, <1>12 DEF Walks
  <2>2. CASE more = 1
    <3>1. (m + 1) + 1 > Len(w)
      BY <1>6, <1>8, <2>2
    <3>. QED  BY <2>1, <3>1 DEF Step
  <2>3. CASE more # 1
    <3>1. IsKnown(it) /\ Len(v) = NeedHere(it.addr)
      BY <1>3, <1>4, <2>3
    <3>2. (m + 1) + Len(v) > Len(w) + 1
      BY <1>3, <1>4, <1>6, <1>8
    <3>. QED  BY <1>11, <2>1, <3>1, <3>2 DEF Step, IsKnown
  <2>. QED  BY <2>2, <2>3
<1>. QED  BY <1>8, <1>10, <1>12 DEF Silent, w, a, b, v, it

LEMMA ReadsWhole ==
  ASSUME items \in Seq(Item), how \in {"list", "single"}, NEW k \in 0..Len(items)
  PROVE  Heard(Catalog, how, Message(k)) = Readings(k)
<1>. DEFINE w == Message(k)
<1>1. Len(w) \in Nat
  BY MessageTyped, LenProperties
<1>. HIDE DEF w
<1>2. Extending(w, w)
  BY <1>1 DEF Extending
<1>3. ASSUME NEW f, Walks(f, w) PROVE f[Len(w) + 1] = <<>>
  <2>1. f[Len(w) + 1] = Step(f, w, Len(w) + 1)
    BY <1>1, <1>3 DEF Walks
  <2>2. (Len(w) + 1) + 1 > Len(w)
    BY <1>1
  <2>. QED  BY <2>1, <2>2 DEF Step
<1>4. /\ Len(w) \in Nat /\ Extending(w, Message(k))
      /\ Silent(w, Len(Message(k)) + 1)
  BY <1>1, <1>2, <1>3 DEF Silent, w
<1>. QED  BY <1>4, HeardReads DEF w

LEMMA ModbusItem ==
  ASSUME NEW it \in Item, IsKnown(it)
  PROVE  RawModbus(Catalog[it.addr], ModbusWords(it)) = it.n
<1>. DEFINE reg == Catalog[it.addr]
            n   == it.n
<1>1. /\ reg.size \in Sizes /\ reg.wo \in {0, 1} /\ Within(reg.size, n)
      /\ \/ it.form = n % 65536
         \/ reg.size = "s8" /\ n # -128 /\ it.form = n % 256
  BY KnownFacts, RegFacts
<1>2. ModbusWords(it) = IF ~Wide(reg) THEN <<it.form>>
                        ELSE IF reg.wo = 0 THEN <<High(n), Low(n)>> ELSE <<Low(n), High(n)>>
  BY DEF ModbusWords, IsWide
<1>. HIDE DEF reg, n
<1>3. RawModbus(reg, Replied(reg, n)) = n
  BY <1>1, ModbusReadsBack
<1>4. CASE Wide(reg)
  <2>1. Replied(reg, n) = IF reg.wo = 0 THEN <<High(n), Low(n)>> ELSE <<Low(n), High(n)>>
    BY <1>1, <1>4 DEF Replied, ModbusWrite, High, Low
  <2>. QED  BY <1>2, <1>3, <1>4, <2>1 DEF reg, n
<1>5. CASE ~Wide(reg) /\ it.form = n % 65536
  <2>1. Replied(reg, n) = <<it.form>>
    BY <1>5 DEF Replied, ModbusWrite
  <2>. QED  BY <1>2, <1>3, <1>5, <2>1 DEF reg, n
<1>6. CASE reg.size = "s8" /\ it.form = n % 256
  <2>1. n \in Int /\ -128 <= n /\ n <= 127
    BY <1>1, <1>6 DEF Within, Least, Greatest
  <2>2. ~Wide(reg)
    BY <1>6 DEF Wide
  <2>3. RawModbus(reg, <<it.form>>) = Signed((n % 256) % 256, 256)
    <3>1. \A w : RawModbus(reg, w) = Signed(w[1] % 256, 256)
      BY <1>6, <2>2 DEF RawModbus
    <3>2. <<it.form>>[1] = n % 256
      BY <1>6
    <3>. QED  BY <3>1, <3>2
  <2>4. Signed((n % 256) % 256, 256) = n
    BY <2>1 DEF Signed
  <2>. QED  BY <1>2, <2>2, <2>3, <2>4 DEF reg, n
<1>. QED  BY <1>1, <1>4, <1>5, <1>6

(* ReadsTrue, in every state: on_frame_() hears from a message of any      *)
(* registers, whole or cut off after any word, just the readings in it,    *)
(* and decode_modbus_() gives every number back from its words.            *)
THEOREM TrueReadings == CodecSpec => []ReadsTrue
<1>1. ASSUME CodecInv PROVE ReadsTrue
  <2>1. items \in Seq(Item) /\ how \in {"list", "single"}
    BY <1>1 DEF CodecInv
  <2>2. Len(items) \in Nat /\ DOMAIN items = 1..Len(items)
    BY <2>1, LenProperties
  <2>3. ASSUME NEW k \in 0..Len(items) PROVE Heard(Catalog, how, Message(k)) = Readings(k)
    BY <2>1, ReadsWhole
  <2>4. ASSUME NEW k \in 0..Len(items), k < Len(items),
               NEW more \in 1 .. Len(Words(items[k + 1])) - 1
        PROVE  Heard(Catalog, how, Message(k) \o SubSeq(Words(items[k + 1]), 1, more)) = Readings(k)
    <3>1. k \in 0 .. Len(items) - 1
      BY <2>2, <2>4
    <3>. DEFINE w == Message(k) \o SubSeq(Words(items[k + 1]), 1, more)
    <3>2. /\ Len(w) \in Nat /\ Extending(w, Message(k))
          /\ Silent(w, Len(Message(k)) + 1)
      BY <2>1, <3>1, CutOff
    <3>. HIDE DEF w
    <3>3. Heard(Catalog, how, w) = Readings(k)
      BY <2>1, <3>2, HeardReads
    <3>. QED  BY <3>3 DEF w
  <2>5. ASSUME NEW i \in DOMAIN items, IsKnown(items[i])
        PROVE  /\ RawModbus(Catalog[items[i].addr], ModbusWords(items[i])) = items[i].n
               /\ InRange(Catalog[items[i].addr], items[i].n) = Believable(items[i])
    <3>1. items[i] \in Item
      BY <2>1, <2>2, ElementOfSeq
    <3>. QED  BY <2>5, <3>1, ModbusItem, InRangeIsBelievable
  <2>. QED  BY <2>3, <2>4, <2>5 DEF ReadsTrue
<1>. QED  BY <1>1, CodecTypes, PTL

-----------------------------------------------------------------------------
(* Part 6: the checksum.  Exclusive or is a sum of bits; the bytes of a    *)
(* word go their own ways.  Eight shifts of the register are linear in     *)
(* what it holds, and one-to-one: from this follow the table, the residue  *)
(* and that no single damaged byte goes unnoticed.                         *)

\* The bit of weight w in x.
Bit(x, w) == (x \div w) % 2

SumOfBits(a, b, c, d, e, f, g, h) == a + 2 * b + 4 * c + 8 * d + 16 * e + 32 * f + 64 * g + 128 * h

LEMMA BitsOf ==
  ASSUME NEW x \in Byte
  PROVE  /\ \A w \in {1, 2, 4, 8, 16, 32, 64, 128} : Bit(x, w) \in {0, 1}
         /\ x = SumOfBits(Bit(x, 1), Bit(x, 2), Bit(x, 4), Bit(x, 8), Bit(x, 16), Bit(x, 32),
                          Bit(x, 64), Bit(x, 128))
<1>1. \A w \in {1, 2, 4, 8, 16, 32, 64, 128} : Bit(x, w) \in {0, 1}
  BY DEF Bit, Byte
<1>2. /\ x = 2 * (x \div 2) + Bit(x, 1)
      /\ x \div 2 = 2 * (x \div 4) + Bit(x, 2)
      /\ x \div 4 = 2 * (x \div 8) + Bit(x, 4)
      /\ x \div 8 = 2 * (x \div 16) + Bit(x, 8)
  BY DEF Bit, Byte
<1>3. /\ x \div 16 = 2 * (x \div 32) + Bit(x, 16)
      /\ x \div 32 = 2 * (x \div 64) + Bit(x, 32)
      /\ x \div 64 = 2 * (x \div 128) + Bit(x, 64)
      /\ x \div 128 = Bit(x, 128)
  BY DEF Bit, Byte
<1>4. /\ x \div 2 \in Int /\ x \div 4 \in Int /\ x \div 8 \in Int /\ x \div 16 \in Int
      /\ x \div 32 \in Int /\ x \div 64 \in Int /\ x \div 128 \in Int
  BY DEF Byte
<1>5. /\ Bit(x, 1) \in Int /\ Bit(x, 2) \in Int /\ Bit(x, 4) \in Int /\ Bit(x, 8) \in Int
      /\ Bit(x, 16) \in Int /\ Bit(x, 32) \in Int /\ Bit(x, 64) \in Int /\ Bit(x, 128) \in Int
  BY <1>1
<1>6. x \in Int
  BY DEF Byte
<1>7. x = SumOfBits(Bit(x, 1), Bit(x, 2), Bit(x, 4), Bit(x, 8), Bit(x, 16), Bit(x, 32),
                    Bit(x, 64), Bit(x, 128))
  BY <1>2, <1>3, <1>4, <1>5, <1>6 DEF SumOfBits
<1>. QED  BY <1>1, <1>7

LEMMA BitsMade ==
  ASSUME NEW a \in {0, 1}, NEW b \in {0, 1}, NEW c \in {0, 1}, NEW d \in {0, 1},
         NEW e \in {0, 1}, NEW f \in {0, 1}, NEW g \in {0, 1}, NEW h \in {0, 1}
  PROVE  LET x == SumOfBits(a, b, c, d, e, f, g, h)
         IN  /\ x \in Byte
             /\ Bit(x, 1) = a /\ Bit(x, 2) = b /\ Bit(x, 4) = c /\ Bit(x, 8) = d
             /\ Bit(x, 16) = e /\ Bit(x, 32) = f /\ Bit(x, 64) = g /\ Bit(x, 128) = h
<1>. DEFINE x == SumOfBits(a, b, c, d, e, f, g, h)
<1>1. x \in Byte
  BY DEF SumOfBits, Byte
<1>2. /\ x \div 1 = x /\ x % 2 = a
      /\ x \div 2 = b + 2 * c + 4 * d + 8 * e + 16 * f + 32 * g + 64 * h
      /\ x \div 4 = c + 2 * d + 4 * e + 8 * f + 16 * g + 32 * h
      /\ x \div 8 = d + 2 * e + 4 * f + 8 * g + 16 * h
  BY DEF SumOfBits
<1>3. /\ x \div 16 = e + 2 * f + 4 * g + 8 * h
      /\ x \div 32 = f + 2 * g + 4 * h
      /\ x \div 64 = g + 2 * h
      /\ x \div 128 = h
  BY DEF SumOfBits
<1>4. /\ Bit(x, 1) = a /\ Bit(x, 2) = b /\ Bit(x, 4) = c /\ Bit(x, 8) = d
  <2>. HIDE DEF x
  <2>. QED  BY <1>2 DEF Bit
<1>5. /\ Bit(x, 16) = e /\ Bit(x, 32) = f /\ Bit(x, 64) = g /\ Bit(x, 128) = h
  <2>. HIDE DEF x
  <2>. QED  BY <1>3 DEF Bit
<1>. QED  BY <1>1, <1>4, <1>5

\* The bits of an exclusive or.
LEMMA XorBits ==
  ASSUME NEW x \in Byte, NEW y \in Byte
  PROVE  /\ ByteXor[x][y] \in Byte
         /\ \A w \in {1, 2, 4, 8, 16, 32, 64, 128} :
              Bit(ByteXor[x][y], w) = (Bit(x, w) + Bit(y, w)) % 2
<1>. DEFINE D(w) == (Bit(x, w) + Bit(y, w)) % 2
<1>1. ASSUME NEW w \in {1, 2, 4, 8, 16, 32, 64, 128}
      PROVE  XorAt(x, y, w) = w * D(w) /\ D(w) \in {0, 1}
  <2>1. x \div w \in Int /\ y \div w \in Int
    BY DEF Byte
  <2>2. \A a, b \in Int : (a + b) % 2 = ((a % 2) + (b % 2)) % 2
    OBVIOUS
  <2>3. (x \div w + y \div w) % 2 = D(w)
    BY <2>1, <2>2 DEF Bit
  <2>4. (x \div w + y \div w) % 2 \in {0, 1}
    BY <2>1
  <2>. QED  BY <2>3, <2>4 DEF XorAt
<1>2. ByteXor[x][y] = SumOfBits(D(1), D(2), D(4), D(8), D(16), D(32), D(64), D(128))
  <2>1. ByteXor[x][y] =
          XorAt(x, y, 1) + XorAt(x, y, 2) + XorAt(x, y, 4) + XorAt(x, y, 8)
            + XorAt(x, y, 16) + XorAt(x, y, 32) + XorAt(x, y, 64) + XorAt(x, y, 128)
    BY DEF ByteXor
  <2>. HIDE DEF D
  <2>2. /\ XorAt(x, y, 1) = D(1) /\ XorAt(x, y, 2) = 2 * D(2) /\ XorAt(x, y, 4) = 4 * D(4)
        /\ XorAt(x, y, 8) = 8 * D(8) /\ XorAt(x, y, 16) = 16 * D(16)
        /\ XorAt(x, y, 32) = 32 * D(32) /\ XorAt(x, y, 64) = 64 * D(64)
        /\ XorAt(x, y, 128) = 128 * D(128)
    BY <1>1
  <2>. QED  BY <2>1, <2>2 DEF SumOfBits
<1>3. /\ D(1) \in {0, 1} /\ D(2) \in {0, 1} /\ D(4) \in {0, 1} /\ D(8) \in {0, 1}
      /\ D(16) \in {0, 1} /\ D(32) \in {0, 1} /\ D(64) \in {0, 1} /\ D(128) \in {0, 1}
  BY <1>1
<1>. HIDE DEF D
<1>4. /\ ByteXor[x][y] \in Byte
      /\ Bit(ByteXor[x][y], 1) = D(1) /\ Bit(ByteXor[x][y], 2) = D(2)
      /\ Bit(ByteXor[x][y], 4) = D(4) /\ Bit(ByteXor[x][y], 8) = D(8)
      /\ Bit(ByteXor[x][y], 16) = D(16) /\ Bit(ByteXor[x][y], 32) = D(32)
      /\ Bit(ByteXor[x][y], 64) = D(64) /\ Bit(ByteXor[x][y], 128) = D(128)
  BY <1>2, <1>3, BitsMade
<1>. QED  BY <1>4 DEF D

LEMMA SameBits ==
  ASSUME NEW x \in Byte, NEW y \in Byte,
         \A w \in {1, 2, 4, 8, 16, 32, 64, 128} : Bit(x, w) = Bit(y, w)
  PROVE  x = y
  BY BitsOf
-----------------------------------------------------------------------------
(* Bytes under exclusive or.                                               *)
Weights == {1, 2, 4, 8, 16, 32, 64, 128}
Lower   == {1, 2, 4, 8, 16, 32, 64}

LEMMA ByteXorAlgebra ==
  ASSUME NEW x \in Byte, NEW y \in Byte, NEW z \in Byte
  PROVE  /\ ByteXor[x][y] \in Byte
         /\ ByteXor[x][y] = ByteXor[y][x]
         /\ ByteXor[ByteXor[x][y]][z] = ByteXor[x][ByteXor[y][z]]
         /\ ByteXor[x][x] = 0
         /\ ByteXor[x][0] = x
<1>0. 0 \in Byte /\ \A w \in Weights : Bit(0, w) = 0
  BY DEF Byte, Bit, Weights
<1>1. \A u \in Byte, w \in Weights : Bit(u, w) \in {0, 1}
  BY BitsOf DEF Weights
<1>2. \A u, v \in Byte : /\ ByteXor[u][v] \in Byte
                         /\ \A w \in Weights : Bit(ByteXor[u][v], w) = (Bit(u, w) + Bit(v, w)) % 2
  BY XorBits DEF Weights
<1>3. \A u, v \in Byte : (\A w \in Weights : Bit(u, w) = Bit(v, w)) => u = v
  BY SameBits DEF Weights
<1>4. ByteXor[x][y] = ByteXor[y][x]
  <2>1. \A w \in Weights : Bit(ByteXor[x][y], w) = Bit(ByteXor[y][x], w)
    BY <1>1, <1>2
  <2>. QED  BY <1>2, <1>3, <2>1
<1>5. ByteXor[ByteXor[x][y]][z] = ByteXor[x][ByteXor[y][z]]
  <2>1. ASSUME NEW w \in Weights
        PROVE  Bit(ByteXor[ByteXor[x][y]][z], w) = Bit(ByteXor[x][ByteXor[y][z]], w)
    <3>0. /\ ByteXor[x][y] \in Byte /\ Bit(ByteXor[x][y], w) = (Bit(x, w) + Bit(y, w)) % 2
          /\ ByteXor[y][z] \in Byte /\ Bit(ByteXor[y][z], w) = (Bit(y, w) + Bit(z, w)) % 2
      BY <1>2
    <3>. DEFINE p == ByteXor[x][y]
                q == ByteXor[y][z]
    <3>1. Bit(ByteXor[p][z], w) = (Bit(p, w) + Bit(z, w)) % 2
      BY <1>2, <3>0
    <3>2. Bit(ByteXor[x][q], w) = (Bit(x, w) + Bit(q, w)) % 2
      BY <1>2, <3>0
    <3>3. \A a, b, c, d, e \in {0, 1} :
            d = (a + b) % 2 /\ e = (b + c) % 2 => (d + c) % 2 = (a + e) % 2
      OBVIOUS
    <3>. HIDE DEF p, q
    <3>4. /\ Bit(x, w) \in {0, 1} /\ Bit(y, w) \in {0, 1} /\ Bit(z, w) \in {0, 1}
          /\ Bit(p, w) \in {0, 1} /\ Bit(q, w) \in {0, 1}
      BY <1>1, <3>0 DEF p, q
    <3>5. Bit(p, w) = (Bit(x, w) + Bit(y, w)) % 2 /\ Bit(q, w) = (Bit(y, w) + Bit(z, w)) % 2
      BY <3>0 DEF p, q
    <3>6. (Bit(p, w) + Bit(z, w)) % 2 = (Bit(x, w) + Bit(q, w)) % 2
      BY <3>3, <3>4, <3>5
    <3>7. Bit(ByteXor[p][z], w) = Bit(ByteXor[x][q], w)
      BY <3>1, <3>2, <3>6
    <3>. QED  BY <3>7 DEF p, q
  <2>. QED  BY <1>2, <1>3, <2>1
<1>6. ByteXor[x][x] = 0
  <2>1. \A w \in Weights : Bit(ByteXor[x][x], w) = Bit(0, w)
    BY <1>0, <1>1, <1>2
  <2>. QED  BY <1>0, <1>2, <1>3, <2>1
<1>7. ByteXor[x][0] = x
  <2>1. \A w \in Weights : Bit(ByteXor[x][0], w) = Bit(x, w)
    BY <1>0, <1>1, <1>2
  <2>. QED  BY <1>0, <1>2, <1>3, <2>1
<1>. QED  BY <1>2, <1>4, <1>5, <1>6, <1>7

\* Halving a byte moves its bits down; the one that leaves tells odd from even.
\* Bits above the others, of weight 128, go their own way.
TopApart(s, t, u, v) ==
  ByteXor[128 * s + u][128 * t + v] = 128 * ((s + t) % 2) + ByteXor[u][v]

LEMMA ByteXorHalves ==
  ASSUME NEW x \in Byte, NEW y \in Byte
  PROVE  /\ ByteXor[x][y] \div 2 = ByteXor[x \div 2][y \div 2]
         /\ ByteXor[x][y] % 2 = (x + y) % 2
         /\ \A s, t \in {0, 1} : TopApart(s, t, x \div 2, y \div 2)
<1>. DEFINE z == ByteXor[x][y]
<1>1. z \in Byte /\ \A w \in Weights : Bit(z, w) = (Bit(x, w) + Bit(y, w)) % 2
  BY XorBits DEF Weights
<1>2. \A u \in Byte : /\ u \div 2 \in Byte /\ u \div 2 < 128
                      /\ Bit(u \div 2, 1) = Bit(u, 2) /\ Bit(u \div 2, 2) = Bit(u, 4)
                      /\ Bit(u \div 2, 4) = Bit(u, 8) /\ Bit(u \div 2, 8) = Bit(u, 16)
                      /\ Bit(u \div 2, 16) = Bit(u, 32) /\ Bit(u \div 2, 32) = Bit(u, 64)
                      /\ Bit(u \div 2, 64) = Bit(u, 128) /\ Bit(u \div 2, 128) = 0
                      /\ Bit(u, 1) = u % 2
  <2>. SUFFICES ASSUME NEW u \in Byte
                PROVE  /\ u \div 2 \in Byte /\ u \div 2 < 128
                       /\ Bit(u \div 2, 1) = Bit(u, 2) /\ Bit(u \div 2, 2) = Bit(u, 4)
                       /\ Bit(u \div 2, 4) = Bit(u, 8) /\ Bit(u \div 2, 8) = Bit(u, 16)
                       /\ Bit(u \div 2, 16) = Bit(u, 32) /\ Bit(u \div 2, 32) = Bit(u, 64)
                       /\ Bit(u \div 2, 64) = Bit(u, 128) /\ Bit(u \div 2, 128) = 0
                       /\ Bit(u, 1) = u % 2
    OBVIOUS
  <2>1. u \div 2 \in Byte /\ u \div 2 < 128 /\ Bit(u, 1) = u % 2
    BY DEF Byte, Bit
  <2>2. /\ Bit(u \div 2, 1) = Bit(u, 2) /\ Bit(u \div 2, 2) = Bit(u, 4)
        /\ Bit(u \div 2, 4) = Bit(u, 8) /\ Bit(u \div 2, 8) = Bit(u, 16)
    BY SMTT(30) DEF Byte, Bit
  <2>3. /\ Bit(u \div 2, 16) = Bit(u, 32) /\ Bit(u \div 2, 32) = Bit(u, 64)
        /\ Bit(u \div 2, 64) = Bit(u, 128) /\ Bit(u \div 2, 128) = 0
    BY DEF Byte, Bit
  <2>. QED  BY <2>1, <2>2, <2>3
<1>3. \A u, v \in Byte : (\A w \in Weights : Bit(u, w) = Bit(v, w)) => u = v
  BY SameBits DEF Weights
<1>4. z \div 2 = ByteXor[x \div 2][y \div 2]
  <2>. DEFINE h == ByteXor[x \div 2][y \div 2]
  <2>1. h \in Byte /\ \A w \in Weights : Bit(h, w) = (Bit(x \div 2, w) + Bit(y \div 2, w)) % 2
    BY <1>2, XorBits DEF Weights
  <2>. HIDE DEF z, h
  <2>2. Bit(h, 128) = 0
    BY <1>2, <2>1 DEF Weights
  <2>3. /\ Bit(h, 1) = Bit(z, 2) /\ Bit(h, 2) = Bit(z, 4) /\ Bit(h, 4) = Bit(z, 8)
        /\ Bit(h, 8) = Bit(z, 16) /\ Bit(h, 16) = Bit(z, 32) /\ Bit(h, 32) = Bit(z, 64)
        /\ Bit(h, 64) = Bit(z, 128)
    BY <1>1, <1>2, <2>1 DEF Weights
  <2>4. \A w \in Weights : Bit(z \div 2, w) = Bit(h, w)
    BY <1>1, <1>2, <2>2, <2>3 DEF Weights
  <2>5. z \div 2 = h
    BY <1>1, <1>2, <1>3, <2>1, <2>4
  <2>. QED  BY <2>5 DEF h
<1>5. z % 2 = (x + y) % 2
  <2>1. Bit(z, 1) = (Bit(x, 1) + Bit(y, 1)) % 2
    BY <1>1 DEF Weights
  <2>2. Bit(z, 1) = z % 2 /\ Bit(x, 1) = x % 2 /\ Bit(y, 1) = y % 2
    <3>. HIDE DEF z
    <3>. QED  BY <1>1, <1>2
  <2>3. ASSUME NEW p \in Int, NEW q \in Int, p = x % 2, q = y % 2
        PROVE  (p + q) % 2 = (x + y) % 2
    BY <2>3 DEF Byte
  <2>4. Bit(x, 1) \in Int /\ Bit(y, 1) \in Int
    BY BitsOf
  <2>5. (Bit(x, 1) + Bit(y, 1)) % 2 = (x + y) % 2
    BY <2>2, <2>3, <2>4
  <2>. HIDE DEF z
  <2>6. z % 2 = (Bit(x, 1) + Bit(y, 1)) % 2
    BY <2>1, <2>2, Zenon
  <2>. QED  BY <2>5, <2>6, Zenon
<1>6. ASSUME NEW s \in {0, 1}, NEW t \in {0, 1}
      PROVE  TopApart(s, t, x \div 2, y \div 2)
  <2>. DEFINE u == x \div 2
              v == y \div 2
              k == ByteXor[u][v]
              l == ByteXor[128 * s + u][128 * t + v]
              r == 128 * ((s + t) % 2) + k
  <2>1. u \in Byte /\ v \in Byte /\ u < 128 /\ v < 128 /\ (s + t) % 2 \in {0, 1}
    BY <1>2
  <2>2. ASSUME NEW i \in {0, 1}, NEW q \in Byte, q < 128
        PROVE  /\ 128 * i + q \in Byte
               /\ Bit(128 * i + q, 128) = i /\ Bit(q, 128) = 0
               /\ \A w \in Lower : Bit(128 * i + q, w) = Bit(q, w)
    BY <2>2 DEF Byte, Bit, Lower
  <2>. HIDE DEF z, u, v
  <2>3. /\ 128 * s + u \in Byte /\ 128 * t + v \in Byte
    BY <2>1, <2>2
  <2>4. k \in Byte /\ \A w \in Weights : Bit(k, w) = (Bit(u, w) + Bit(v, w)) % 2
    BY <2>1, XorBits DEF Weights
  <2>5. l \in Byte /\ \A w \in Weights : Bit(l, w) = (Bit(128 * s + u, w) + Bit(128 * t + v, w)) % 2
    BY <2>3, XorBits DEF Weights
  <2>. HIDE DEF k, l
  <2>6. k < 128
    <3>1. Bit(k, 128) = 0
      BY <2>1, <2>2, <2>4 DEF Weights
    <3>. QED  BY <2>4, <3>1 DEF Bit, Byte
  <2>7. r \in Byte /\ Bit(r, 128) = (s + t) % 2
        /\ \A w \in Lower : Bit(r, w) = Bit(k, w)
    <3>. DEFINE i == (s + t) % 2
    <3>. HIDE DEF i
    <3>. SUFFICES /\ 128 * i + k \in Byte /\ Bit(128 * i + k, 128) = i
                  /\ \A w \in Lower : Bit(128 * i + k, w) = Bit(k, w)
      BY DEF i
    <3>1. i \in {0, 1}
      BY <2>1 DEF i
    <3>. QED  BY <2>2, <2>4, <2>6, <3>1
  <2>. HIDE DEF r
  <2>8. Bit(l, 128) = Bit(r, 128)
    BY <2>1, <2>2, <2>5, <2>7 DEF Weights
  <2>9. ASSUME NEW w \in Lower PROVE Bit(l, w) = Bit(r, w)
    <3>1. Bit(128 * s + u, w) = Bit(u, w) /\ Bit(128 * t + v, w) = Bit(v, w)
      BY <2>1, <2>2
    <3>. QED  BY <2>4, <2>5, <2>7, <3>1 DEF Weights, Lower
  <2>10. \A w \in Weights : Bit(l, w) = Bit(r, w)
    BY <2>8, <2>9 DEF Weights, Lower
  <2>11. l = r
    BY SMTT(30), <1>3, <2>5, <2>7, <2>10
  <2>. QED  BY <2>11 DEF l, r, k, u, v, TopApart
<1>. QED  BY <1>4, <1>5, <1>6
-----------------------------------------------------------------------------
(* Words under exclusive or, by their two bytes.                           *)

LEMMA BytesOfWord == ASSUME NEW x \in Word
  PROVE  /\ x \div 256 \in Byte /\ x % 256 \in Byte /\ x = 256 * (x \div 256) + (x % 256)
  BY SMTT(30) DEF Word, Byte

LEMMA WordOfBytes == ASSUME NEW h \in Byte, NEW l \in Byte
  PROVE  /\ 256 * h + l \in Word /\ (256 * h + l) \div 256 = h /\ (256 * h + l) % 256 = l
<1>0. h \in Int /\ l \in Int /\ 0 <= h /\ h <= 255 /\ 0 <= l /\ l <= 255
  BY DEF Byte
<1>1. 256 * h + l \in Word
  BY <1>0, InWord
<1>2. (256 * h + l) \div 256 = h
  BY <1>0
<1>3. (256 * h + l) % 256 = l
  BY <1>0
<1>. QED  BY <1>1, <1>2, <1>3

LEMMA XorParts ==
  ASSUME NEW x \in Word, NEW y \in Word
  PROVE  /\ Xor(x, y) \in Word
         /\ Xor(x, y) \div 256 = ByteXor[x \div 256][y \div 256]
         /\ Xor(x, y) % 256 = ByteXor[x % 256][y % 256]
<1>. DEFINE h == ByteXor[x \div 256][y \div 256]
            l == ByteXor[x % 256][y % 256]
<1>1. h \in Byte /\ l \in Byte
  BY BytesOfWord, ByteXorAlgebra
<1>2. Xor(x, y) = 256 * h + l
  BY DEF Xor
<1>. HIDE DEF h, l
<1>3. Xor(x, y) \in Word /\ Xor(x, y) \div 256 = h /\ Xor(x, y) % 256 = l
  BY <1>1, <1>2, WordOfBytes
<1>. QED  BY <1>3 DEF h, l

LEMMA SameParts ==
  ASSUME NEW x \in Word, NEW y \in Word, x \div 256 = y \div 256, x % 256 = y % 256
  PROVE  x = y
  BY BytesOfWord

LEMMA XorAlgebra ==
  ASSUME NEW x \in Word, NEW y \in Word, NEW z \in Word
  PROVE  /\ Xor(x, y) = Xor(y, x)
         /\ Xor(Xor(x, y), z) = Xor(x, Xor(y, z))
         /\ Xor(x, x) = 0
         /\ Xor(x, 0) = x
<1>. DEFINE hi(u) == u \div 256
            lo(u) == u % 256
<1>0. /\ \A u \in Word : hi(u) \in Byte /\ lo(u) \in Byte
      /\ 0 \in Word /\ hi(0) = 0 /\ lo(0) = 0
  <2>1. 0 \in Word /\ hi(0) = 0 /\ lo(0) = 0
    BY InWord
  <2>. QED  BY <2>1, BytesOfWord
<1>1. \A u, v \in Word : /\ Xor(u, v) \in Word
                         /\ hi(Xor(u, v)) = ByteXor[hi(u)][hi(v)]
                         /\ lo(Xor(u, v)) = ByteXor[lo(u)][lo(v)]
  BY XorParts
<1>6. \A u, v \in Word : hi(u) = hi(v) /\ lo(u) = lo(v) => u = v
  BY SameParts
<1>. HIDE DEF hi, lo
<1>7. /\ \A u, v \in Byte : ByteXor[u][v] = ByteXor[v][u]
      /\ \A u \in Byte : ByteXor[u][u] = 0 /\ ByteXor[u][0] = u
  BY ByteXorAlgebra
<1>2. Xor(x, y) = Xor(y, x)
  <2>1. /\ hi(Xor(x, y)) = hi(Xor(y, x)) /\ lo(Xor(x, y)) = lo(Xor(y, x))
    BY <1>0, <1>1, <1>7
  <2>. QED  BY <1>1, <1>6, <2>1
<1>3. Xor(Xor(x, y), z) = Xor(x, Xor(y, z))
  <2>. DEFINE v == Xor(x, y)
              w == Xor(y, z)
  <2>1. /\ v \in Word /\ hi(v) = ByteXor[hi(x)][hi(y)] /\ lo(v) = ByteXor[lo(x)][lo(y)]
        /\ w \in Word /\ hi(w) = ByteXor[hi(y)][hi(z)] /\ lo(w) = ByteXor[lo(y)][lo(z)]
    BY <1>1
  <2>. HIDE DEF v, w
  <2>2. /\ Xor(v, z) \in Word /\ Xor(x, w) \in Word
        /\ hi(Xor(v, z)) = ByteXor[hi(v)][hi(z)] /\ lo(Xor(v, z)) = ByteXor[lo(v)][lo(z)]
        /\ hi(Xor(x, w)) = ByteXor[hi(x)][hi(w)] /\ lo(Xor(x, w)) = ByteXor[lo(x)][lo(w)]
    BY <1>1, <2>1
  <2>3. hi(Xor(v, z)) = hi(Xor(x, w)) /\ lo(Xor(v, z)) = lo(Xor(x, w))
    <3>1. /\ ByteXor[ByteXor[hi(x)][hi(y)]][hi(z)] = ByteXor[hi(x)][ByteXor[hi(y)][hi(z)]]
          /\ ByteXor[ByteXor[lo(x)][lo(y)]][lo(z)] = ByteXor[lo(x)][ByteXor[lo(y)][lo(z)]]
      BY <1>0, ByteXorAlgebra
    <3>. QED  BY <2>1, <2>2, <3>1
  <2>4. Xor(v, z) = Xor(x, w)
    BY <1>6, <2>2, <2>3
  <2>. QED  BY <2>4 DEF v, w
<1>4. Xor(x, x) = 0
  <2>1. hi(Xor(x, x)) = 0 /\ lo(Xor(x, x)) = 0
    BY <1>0, <1>1, <1>7
  <2>. QED  BY <1>0, <1>1, <1>6, <2>1
<1>5. Xor(x, 0) = x
  <2>1. hi(Xor(x, 0)) = hi(x) /\ lo(Xor(x, 0)) = lo(x)
    BY <1>0, <1>1, <1>7
  <2>. QED  BY <1>0, <1>1, <1>6, <2>1
<1>. QED  BY <1>2, <1>3, <1>4, <1>5

LEMMA XorCancel ==
  ASSUME NEW x \in Word, NEW y \in Word, NEW z \in Word, Xor(x, z) = Xor(y, z)
  PROVE  x = y
<1>1. Xor(Xor(x, z), z) = x /\ Xor(Xor(y, z), z) = y
  BY XorAlgebra
<1>. QED  BY <1>1

Parity(n) == n % 2

LEMMA ParityOfSum ==
  ASSUME NEW a \in Nat, NEW b \in Nat PROVE Parity(a + b) = Parity(Parity(a) + Parity(b))
  BY DEF Parity

LEMMA XorHalves ==
  ASSUME NEW x \in Word, NEW y \in Word
  PROVE  /\ x \div 2 \in Word
         /\ Xor(x, y) \div 2 = Xor(x \div 2, y \div 2)
         /\ Xor(x, y) % 2 = (x + y) % 2
<1>. DEFINE z == Xor(x, y)
<1>1. ASSUME NEW u \in Word
      PROVE  /\ u \div 2 \in Word
             /\ (u \div 2) \div 256 = (u \div 256) \div 2
             /\ (u \div 2) % 256 = 128 * ((u \div 256) % 2) + (u % 256) \div 2
             /\ u % 2 = (u % 256) % 2
             /\ (u \div 256) % 2 \in {0, 1}
  <2>. DEFINE h == u \div 256
              l == u % 256
              a == h \div 2
              b == l \div 2
              s == h % 2
              t == l % 2
  <2>1. h \in Byte /\ l \in Byte /\ u = 256 * h + l
    BY BytesOfWord
  <2>. HIDE DEF h, l
  <2>2. h = 2 * a + s /\ l = 2 * b + t /\ s \in {0, 1} /\ t \in {0, 1}
        /\ a \in Int /\ 0 <= a /\ a <= 127 /\ b \in Int /\ 0 <= b /\ b <= 127
    BY <2>1 DEF Byte
  <2>. HIDE DEF a, b, s, t
  <2>3. u = 2 * (256 * a + (128 * s + b)) + t
    BY <2>1, <2>2
  <2>4. u \div 2 = 256 * a + (128 * s + b) /\ u % 2 = t
    BY <2>2, <2>3
  <2>5. a \in Byte /\ 128 * s + b \in Byte
    BY <2>2 DEF Byte
  <2>6. /\ u \div 2 \in Word /\ (u \div 2) \div 256 = a /\ (u \div 2) % 256 = 128 * s + b
    <3>. DEFINE q == 128 * s + b
    <3>. HIDE DEF q
    <3>1. u \div 2 = 256 * a + q /\ q \in Byte
      BY <2>4, <2>5 DEF q
    <3>2. /\ u \div 2 \in Word /\ (u \div 2) \div 256 = a /\ (u \div 2) % 256 = q
      BY <2>5, <3>1, WordOfBytes
    <3>. QED  BY <3>2 DEF q
  <2>. QED  BY <2>2, <2>4, <2>6 DEF a, b, s, t, h, l
<1>2. /\ z \in Word
      /\ z \div 256 = ByteXor[x \div 256][y \div 256]
      /\ z % 256 = ByteXor[x % 256][y % 256]
  BY XorParts
<1>3. /\ x \div 256 \in Byte /\ x % 256 \in Byte /\ y \div 256 \in Byte /\ y % 256 \in Byte
  BY BytesOfWord
<1>. DEFINE s == (x \div 256) % 2
            t == (y \div 256) % 2
            w == Xor(x \div 2, y \div 2)
<1>4. /\ w \in Word
      /\ w \div 256 = ByteXor[(x \div 256) \div 2][(y \div 256) \div 2]
      /\ w % 256 = ByteXor[128 * s + (x % 256) \div 2][128 * t + (y % 256) \div 2]
  BY <1>1, XorParts
<1>5. s \in {0, 1} /\ t \in {0, 1}
  BY <1>1
<1>6. w \div 256 = (z \div 2) \div 256
  <2>1. w \div 256 = (z \div 256) \div 2
    BY <1>2, <1>3, <1>4, ByteXorHalves
  <2>. HIDE DEF z, w
  <2>. QED  BY <1>1, <1>2, <2>1
<1>7. w % 256 = (z \div 2) % 256
  <2>. HIDE DEF s, t, z, w
  <2>1. w % 256 = 128 * ((s + t) % 2) + ByteXor[(x % 256) \div 2][(y % 256) \div 2]
    <3>. DEFINE p == x % 256
                q == y % 256
    <3>1. p \in Byte /\ q \in Byte
      BY <1>3
    <3>. HIDE DEF p, q
    <3>2. TopApart(s, t, p \div 2, q \div 2)
      BY <1>5, <3>1, ByteXorHalves
    <3>3. ByteXor[128 * s + p \div 2][128 * t + q \div 2]
            = 128 * ((s + t) % 2) + ByteXor[p \div 2][q \div 2]
      BY <3>2 DEF TopApart
    <3>. QED  BY <1>4, <3>3 DEF p, q
  <2>2. ByteXor[(x % 256) \div 2][(y % 256) \div 2] = (z % 256) \div 2
    BY <1>2, <1>3, ByteXorHalves
  <2>3. (z \div 256) % 2 = (x \div 256 + y \div 256) % 2
    BY <1>2, <1>3, ByteXorHalves
  <2>4. (x \div 256 + y \div 256) % 2 = (s + t) % 2
    <3>1. x \div 256 \in Nat /\ y \div 256 \in Nat
      BY <1>3 DEF Byte
    <3>2. s = Parity(x \div 256) /\ t = Parity(y \div 256)
      BY DEF s, t, Parity
    <3>3. Parity(x \div 256 + y \div 256) = Parity(s + t)
      BY <3>1, <3>2, ParityOfSum
    <3>. QED  BY <3>3 DEF Parity
  <2>5. (z \div 2) % 256 = 128 * ((z \div 256) % 2) + (z % 256) \div 2
    BY <1>1, <1>2
  <2>. QED  BY <2>1, <2>2, <2>3, <2>4, <2>5
<1>8. z % 2 = (x + y) % 2
  <2>. DEFINE p == x % 256
              q == y % 256
              r == z % 256
  <2>1. /\ x \in Nat /\ y \in Nat /\ p \in Byte /\ q \in Byte /\ p \in Nat /\ q \in Nat
        /\ r = ByteXor[p][q]
        /\ Parity(x) = Parity(p) /\ Parity(y) = Parity(q) /\ Parity(z) = Parity(r)
    <3>1. x \in Nat /\ y \in Nat /\ \A u \in Byte : u \in Nat
      BY OfWord DEF Byte
    <3>2. r = ByteXor[p][q]
      BY <1>2
    <3>3. Parity(x) = Parity(p) /\ Parity(y) = Parity(q) /\ Parity(z) = Parity(r)
      <4>. HIDE DEF z
      <4>. QED  BY <1>1, <1>2 DEF Parity
    <3>. HIDE DEF z, r
    <3>. QED  BY <1>3, <3>1, <3>2, <3>3
  <2>. HIDE DEF p, q, r, z
  <2>2. Parity(r) = Parity(p + q)
    BY <2>1, ByteXorHalves DEF Parity
  <2>3. Parity(p + q) = Parity(Parity(p) + Parity(q))
    BY <2>1, ParityOfSum
  <2>4. Parity(x + y) = Parity(Parity(x) + Parity(y))
    BY <2>1, ParityOfSum
  <2>5. Parity(z) = Parity(x + y)
    BY <2>1, <2>2, <2>3, <2>4
  <2>. QED  BY <2>5 DEF Parity
<1>9. z \div 2 = w
  <2>. HIDE DEF z, w
  <2>. QED  BY <1>1, <1>2, <1>4, <1>6, <1>7, SameParts
<1>. QED  BY <1>1, <1>8, <1>9
-----------------------------------------------------------------------------
(* The shift register.                                                     *)

LEMMA PolyIsWord == 40961 \in Word /\ 0 \in Word /\ 65535 \in Word
  BY InWord

LEMMA ByteIsWord ==
  ASSUME NEW b \in Byte PROVE b \in Word /\ b \div 256 = 0 /\ b % 256 = b
<1>1. b \in Int /\ 0 <= b /\ b < 256
  BY DEF Byte
<1>2. b \in Word
  BY <1>1, InWord
<1>. QED  BY <1>1, <1>2

LEMMA ShiftIsWord == ASSUME NEW c \in Word PROVE Shift(c) \in Word
<1>1. c \div 2 \in Word
  BY XorHalves
<1>. QED  BY <1>1, XorParts, PolyIsWord DEF Shift

\* Shifting an exclusive or is the exclusive or of what is shifted.
LEMMA ShiftLinear ==
  ASSUME NEW x \in Word, NEW y \in Word
  PROVE  Shift(Xor(x, y)) = Xor(Shift(x), Shift(y))
<1>. DEFINE a == x \div 2
            b == y \div 2
            p == 40961
<1>1. a \in Word /\ b \in Word /\ p \in Word /\ Xor(a, b) \in Word /\ Xor(b, p) \in Word
  BY XorHalves, XorParts, PolyIsWord
<1>2. Xor(x, y) \div 2 = Xor(a, b) /\ Xor(x, y) % 2 = (x + y) % 2
  BY XorHalves
<1>. HIDE DEF a, b, p
<1>3. /\ Shift(x) = IF x % 2 = 1 THEN Xor(a, p) ELSE a
      /\ Shift(y) = IF y % 2 = 1 THEN Xor(b, p) ELSE b
      /\ Shift(Xor(x, y)) = IF (x + y) % 2 = 1 THEN Xor(Xor(a, b), p) ELSE Xor(a, b)
  BY <1>2 DEF Shift, a, b, p
<1>4. x \in Nat /\ y \in Nat
  BY OfWord
<1>5. /\ (x + y) % 2 = 1 <=> ((x % 2 = 1) # (y % 2 = 1))
  BY <1>4
<1>6. Xor(Xor(a, b), p) = Xor(Xor(a, p), b)
  <2>1. Xor(Xor(a, b), p) = Xor(a, Xor(b, p)) /\ Xor(Xor(a, p), b) = Xor(a, Xor(p, b))
    BY <1>1, XorAlgebra
  <2>2. Xor(b, p) = Xor(p, b)
    BY <1>1, XorAlgebra
  <2>. QED  BY <2>1, <2>2
<1>7. Xor(Xor(a, b), p) = Xor(a, Xor(b, p))
  BY <1>1, XorAlgebra
<1>8. Xor(Xor(a, p), Xor(b, p)) = Xor(a, b)
  <2>1. Xor(Xor(a, p), Xor(b, p)) = Xor(a, Xor(p, Xor(b, p)))
    BY <1>1, XorAlgebra
  <2>2. Xor(p, Xor(b, p)) = Xor(Xor(b, p), p) /\ Xor(Xor(b, p), p) = Xor(b, Xor(p, p))
    BY <1>1, XorAlgebra
  <2>3. Xor(p, p) = 0 /\ Xor(b, 0) = b
    BY <1>1, XorAlgebra
  <2>. QED  BY <2>1, <2>2, <2>3
<1>. QED  BY <1>3, <1>5, <1>6, <1>7, <1>8

\* The bit that leaves comes back as the highest bit, so that nothing is lost.
LEMMA ShiftInjective ==
  ASSUME NEW x \in Word, NEW y \in Word, Shift(x) = Shift(y)
  PROVE  x = y
<1>1. ASSUME NEW z \in Word
      PROVE  /\ z \div 2 \in Word /\ z \div 2 < 32768
             /\ Xor(z \div 2, 40961) >= 32768
  <2>1. z \div 2 \in Word /\ z \div 2 < 32768
    BY XorHalves, OfWord
  <2>. DEFINE h == (z \div 2) \div 256
              w == Xor(z \div 2, 40961)
  <2>2. h \in Byte /\ h < 128 /\ 160 \in Byte /\ 40961 \div 256 = 160
    <3>1. h \in Byte
      BY <2>1, BytesOfWord
    <3>2. h < 128
      BY <2>1, OfWord
    <3>. QED  BY <3>1, <3>2 DEF Byte
  <2>3. w \in Word /\ w \div 256 = ByteXor[h][160]
    BY <2>1, <2>2, PolyIsWord, XorParts
  <2>4. Bit(ByteXor[h][160], 128) = (Bit(h, 128) + Bit(160, 128)) % 2 /\ ByteXor[h][160] \in Byte
    <3>. HIDE DEF h
    <3>. QED  BY <2>2, XorBits
  <2>5. Bit(h, 128) = 0 /\ Bit(160, 128) = 1
    <3>. HIDE DEF h
    <3>. QED  BY <2>2 DEF Bit, Byte
  <2>6. Bit(w \div 256, 128) = 1 /\ w \div 256 \in Byte
    <3>. HIDE DEF h, w
    <3>. QED  BY <2>3, <2>4, <2>5
  <2>7. w >= 32768
    <3>. HIDE DEF w
    <3>1. w \div 256 >= 128
      BY <2>6 DEF Bit, Byte
    <3>2. w \in Nat
      BY <2>3, OfWord
    <3>. QED  BY <3>1, <3>2
  <2>. QED  BY <2>1, <2>7
<1>2. x \in Nat /\ y \in Nat
  BY OfWord
<1>3. CASE x % 2 = 1 /\ y % 2 = 1
  <2>1. Xor(x \div 2, 40961) = Xor(y \div 2, 40961)
    BY <1>3 DEF Shift
  <2>2. x \div 2 = y \div 2
    <3>. DEFINE a == x \div 2
                b == y \div 2
    <3>1. a \in Word /\ b \in Word /\ Xor(a, 40961) = Xor(b, 40961)
      BY <1>1, <2>1
    <3>. HIDE DEF a, b
    <3>2. a = b
      BY <3>1, PolyIsWord, XorCancel
    <3>. QED  BY <3>2 DEF a, b
  <2>. QED  BY <1>2, <1>3, <2>2
<1>4. CASE x % 2 # 1 /\ y % 2 # 1
  <2>1. x \div 2 = y \div 2
    BY <1>4 DEF Shift
  <2>. QED  BY <1>2, <1>4, <2>1
<1>5. CASE x % 2 = 1 /\ y % 2 # 1
  <2>1. Xor(x \div 2, 40961) = y \div 2
    BY <1>5 DEF Shift
  <2>2. Xor(x \div 2, 40961) >= 32768 /\ y \div 2 < 32768 /\ y \div 2 \in Nat
    BY <1>1, <1>2
  <2>. QED  BY <2>1, <2>2
<1>6. CASE x % 2 # 1 /\ y % 2 = 1
  <2>1. Xor(y \div 2, 40961) = x \div 2
    BY <1>6 DEF Shift
  <2>2. Xor(y \div 2, 40961) >= 32768 /\ x \div 2 < 32768 /\ x \div 2 \in Nat
    BY <1>1, <1>2
  <2>. QED  BY <2>1, <2>2
<1>. QED  BY <1>3, <1>4, <1>5, <1>6

LEMMA FourShiftsFacts ==
  ASSUME NEW x \in Word, NEW y \in Word
  PROVE  /\ FourShifts(x) \in Word
         /\ FourShifts(Xor(x, y)) = Xor(FourShifts(x), FourShifts(y))
         /\ FourShifts(x) = FourShifts(y) => x = y
<1>1. /\ \A u \in Word : Shift(u) \in Word
      /\ \A u, v \in Word : Shift(Xor(u, v)) = Xor(Shift(u), Shift(v))
      /\ \A u, v \in Word : Shift(u) = Shift(v) => u = v
  BY ShiftIsWord, ShiftLinear, ShiftInjective
<1>. QED  BY <1>1 DEF FourShifts

LEMMA EightShiftsFacts ==
  ASSUME NEW x \in Word, NEW y \in Word
  PROVE  /\ EightShifts(x) \in Word
         /\ EightShifts(Xor(x, y)) = Xor(EightShifts(x), EightShifts(y))
         /\ EightShifts(x) = EightShifts(y) => x = y
<1>1. /\ \A u \in Word : FourShifts(u) \in Word
      /\ \A u, v \in Word : FourShifts(Xor(u, v)) = Xor(FourShifts(u), FourShifts(v))
      /\ \A u, v \in Word : FourShifts(u) = FourShifts(v) => u = v
  BY FourShiftsFacts
<1>. QED  BY <1>1 DEF EightShifts

\* A byte in the upper half comes down unchanged.
LEMMA EightShiftsDown == ASSUME NEW h \in Byte PROVE EightShifts(256 * h) = h
<1>1. \A n \in Nat : Shift(2 * n) = n
  BY DEF Shift
<1>2. \A n \in Nat : FourShifts(16 * n) = n
  <2>. SUFFICES ASSUME NEW n \in Nat PROVE FourShifts(16 * n) = n
    OBVIOUS
  <2>1. 16 * n = 2 * (8 * n) /\ 8 * n = 2 * (4 * n) /\ 4 * n = 2 * (2 * n)
        /\ 8 * n \in Nat /\ 4 * n \in Nat /\ 2 * n \in Nat
    OBVIOUS
  <2>2. Shift(16 * n) = 8 * n /\ Shift(8 * n) = 4 * n /\ Shift(4 * n) = 2 * n /\ Shift(2 * n) = n
    BY <1>1, <2>1
  <2>. QED  BY <2>2 DEF FourShifts
<1>3. h \in Nat /\ 256 * h = 16 * (16 * h) /\ 16 * h \in Nat
  BY DEF Byte
<1>4. FourShifts(256 * h) = 16 * h /\ FourShifts(16 * h) = h
  BY <1>2, <1>3
<1>. QED  BY <1>4 DEF EightShifts
-----------------------------------------------------------------------------
(* The checksum, byte by byte.                                             *)

CrcUpTo(c, start, s) ==
  /\ c[0] = start
  /\ \A n \in 1..Len(s) : c[n] = EightShifts(Xor(c[n - 1], s[n]))
  /\ \A n \in 0..Len(s) : c[n] \in Word

LEMMA StepIsWord ==
  ASSUME NEW c \in Word, NEW b \in Byte PROVE EightShifts(Xor(c, b)) \in Word
<1>1. Xor(c, b) \in Word
  BY ByteIsWord, XorParts
<1>. QED  BY <1>1, EightShiftsFacts

LEMMA CrcSteps ==
  ASSUME NEW start \in Word, NEW s \in Seq(Byte)
  PROVE  \E c : CrcUpTo(c, start, s) /\ CrcFrom(start, s) = c[Len(s)]
<1>. DEFINE body(c) == [n \in 0..Len(s) |->
                          IF n = 0 THEN start ELSE EightShifts(Xor(c[n - 1], s[n]))]
            c == CHOOSE c : c = body(c)
            h == [i \in 1..Len(s) |-> [x \in Word |-> EightShifts(Xor(x, s[i]))]]
<1>1. Len(s) \in Nat /\ \A i \in 1..Len(s) : s[i] \in Byte
  BY LenProperties, ElementOfSeq
<1>2. h \in [1..Len(s) -> [Word -> Word]]
  BY <1>1, StepIsWord
<1>3. PICK g : Follows(g, Len(s), Word, start, h)
  <2>. HIDE DEF h
  <2>. QED  BY <1>1, <1>2, Recursion
<1>4. g = body(g)
  <2>1. ASSUME NEW n \in 0..Len(s)
        PROVE  g[n] = IF n = 0 THEN start ELSE EightShifts(Xor(g[n - 1], s[n]))
    <3>1. CASE n = 0
      BY <1>3, <3>1 DEF Follows
    <3>2. CASE n # 0
      <4>1. n \in 1..Len(s) /\ n - 1 \in 0..Len(s)
        BY <1>1, <3>2
      <4>2. g[n - 1] \in Word /\ g[n] = h[n][g[n - 1]]
        BY <1>3, <4>1 DEF Follows
      <4>. QED  BY <3>2, <4>1, <4>2
    <3>. QED  BY <3>1, <3>2
  <2>2. g \in [0..Len(s) -> Word]
    BY ZenonT(30), <1>3 DEF Follows
  <2>. QED  BY <2>1, <2>2
<1>5. c = body(c)
  <2>1. \E d : d = body(d)
    BY <1>4
  <2>. QED  BY <2>1
<1>6. CrcFrom(start, s) = c[Len(s)]
  BY DEF CrcFrom
<1>. HIDE DEF c
<1>7. c[0] = start /\ \A n \in 1..Len(s) : c[n] = EightShifts(Xor(c[n - 1], s[n]))
  BY <1>1, <1>5
<1>8. ASSUME NEW n \in 1..Len(s), c[n - 1] \in Word PROVE c[n] \in Word
  BY <1>1, <1>7, <1>8, StepIsWord
<1>9. \A n \in 0..Len(s) : c[n] \in Word
  BY <1>1, <1>7, <1>8, Carries
<1>. QED  BY <1>6, <1>7, <1>9 DEF CrcUpTo

LEMMA CrcIsWord == ASSUME NEW s \in Seq(Byte) PROVE Crc(s) \in Word
<1>1. PICK c : CrcUpTo(c, 65535, s) /\ CrcFrom(65535, s) = c[Len(s)]
  BY CrcSteps, PolyIsWord
<1>2. Len(s) \in 0..Len(s)
  BY LenProperties
<1>. QED  BY <1>1, <1>2 DEF Crc, CrcUpTo

\* Two checksums that go the same way up to m are the same there.
Together(m, c, d, s, t) ==
  /\ c[0] = d[0]
  /\ \A n \in 1..m : /\ c[n] = EightShifts(Xor(c[n - 1], s[n]))
                     /\ d[n] = EightShifts(Xor(d[n - 1], t[n]))
                     /\ s[n] = t[n]

LEMMA SameCrc ==
  ASSUME NEW m \in Nat, NEW c, NEW d, NEW s, NEW t, Together(m, c, d, s, t)
  PROVE  c[m] = d[m]
<1>. USE DEF Together
<1>. DEFINE T == {n \in Nat : n <= m => c[n] = d[n]}
<1>1. 0 \in T
  OBVIOUS
<1>2. ASSUME NEW n \in Nat, n \in T PROVE n + 1 \in T
  <2>. SUFFICES ASSUME n + 1 <= m PROVE c[n + 1] = d[n + 1]
    OBVIOUS
  <2>1. c[n] = d[n] /\ n + 1 \in 1..m /\ (n + 1) - 1 = n
    BY <1>2
  <2>. QED  BY <2>1
<1>3. Nat \subseteq T
  <2>. HIDE DEF T
  <2>. QED  BY <1>1, <1>2, SetInduction
<1>. QED  BY <1>3

-----------------------------------------------------------------------------
\* Two bytes behind a message go into its checksum.
LEMMA TwoMore ==
  ASSUME NEW s \in Seq(Byte), NEW lo \in Byte, NEW hi \in Byte
  PROVE  Crc(s \o <<lo, hi>>) = EightShifts(Xor(EightShifts(Xor(Crc(s), lo)), hi))
<1>. DEFINE k  == Crc(s)
            e  == <<lo, hi>>
            t  == s \o e
            m  == Len(s)
<1>2. /\ e \in Seq(Byte) /\ Len(e) = 2 /\ e[1] = lo /\ e[2] = hi
  OBVIOUS
<1>. HIDE DEF e, k
<1>3. /\ t \in Seq(Byte) /\ m \in Nat /\ Len(t) = m + 2
      /\ t[m + 1] = lo /\ t[m + 2] = hi /\ \A i \in 1..m : t[i] = s[i]
  <2>1. m \in Nat
    BY LenProperties
  <2>2. t \in Seq(Byte) /\ Len(t) = m + Len(e)
        /\ \A i \in 1 .. m + Len(e) : t[i] = IF i <= m THEN s[i] ELSE e[i - m]
    BY <1>2, ConcatProperties, Zenon
  <2>. HIDE DEF t, m
  <2>. QED  BY <1>2, <2>1, <2>2
<1>. HIDE DEF t
<1>4. PICK c : CrcUpTo(c, 65535, s) /\ CrcFrom(65535, s) = c[m]
  BY CrcSteps, PolyIsWord
<1>5. PICK d : CrcUpTo(d, 65535, t) /\ CrcFrom(65535, t) = d[Len(t)]
  BY <1>3, CrcSteps, PolyIsWord
<1>6. c[m] = k
  BY <1>4 DEF Crc, k
<1>. HIDE DEF m
<1>7. d[m] = k
  <2>1. Together(m, c, d, s, t)
    BY <1>3, <1>4, <1>5 DEF CrcUpTo, Together, m
  <2>2. c[m] = d[m]
    BY <1>3, <2>1, SameCrc
  <2>. QED  BY <1>6, <2>2
<1>8. d[m + 1] = EightShifts(Xor(k, lo)) /\ d[m + 2] = EightShifts(Xor(d[m + 1], hi))
  <2>1. /\ m + 1 \in 1..Len(t) /\ m + 2 \in 1..Len(t) /\ (m + 1) - 1 = m /\ (m + 2) - 1 = m + 1
    BY <1>3
  <2>. QED  BY <1>3, <1>5, <1>7, <2>1 DEF CrcUpTo
<1>9. Crc(t) = d[m + 2]
  BY <1>3, <1>5 DEF Crc
<1>. QED  BY <1>8, <1>9 DEF t, e, k

\* The only two bytes that take a checksum to zero are its own.
LEMMA ZeroWhen ==
  ASSUME NEW k \in Word, NEW lo \in Byte, NEW hi \in Byte
  PROVE  EightShifts(Xor(EightShifts(Xor(k, lo)), hi)) = 0 <=> k = lo + 256 * hi
<1>. DEFINE e == EightShifts(Xor(k, lo))
            c == 256 * hi + lo
            u == 256 * hi
<1>1. /\ lo \in Word /\ hi \in Word /\ 0 \in Word /\ 0 \in Byte
      /\ lo \div 256 = 0 /\ lo % 256 = lo
  BY ByteIsWord, PolyIsWord DEF Byte
<1>2. /\ c \in Word /\ c \div 256 = hi /\ c % 256 = lo
  BY WordOfBytes
<1>3. Xor(k, lo) \in Word /\ e \in Word /\ Xor(e, hi) \in Word
  BY <1>1, XorParts, StepIsWord
<1>4. u \in Word /\ EightShifts(u) = hi
  <2>1. 256 * hi + 0 \in Word
    BY <1>1, WordOfBytes
  <2>2. 256 * hi + 0 = u
    BY DEF Byte
  <2>. QED  BY <2>1, <2>2, EightShiftsDown
<1>5. EightShifts(0) = 0
  <2>1. EightShifts(256 * 0) = 0
    BY <1>1, EightShiftsDown
  <2>. QED  BY <2>1
<1>6. Xor(c, lo) = u
  <2>1. ByteXor[hi][0] = hi /\ ByteXor[lo][lo] = 0
    BY ByteXorAlgebra
  <2>2. Xor(c, lo) = 256 * hi + 0
    BY <1>1, <1>2, <2>1 DEF Xor
  <2>. QED  BY <2>2 DEF Byte
<1>7. k = c <=> k = lo + 256 * hi
  BY DEF Byte
<1>. HIDE DEF c, u
<1>8. Xor(k, lo) = u <=> k = c
  BY <1>1, <1>2, <1>6, XorCancel
<1>9. e = hi <=> Xor(k, lo) = u
  BY <1>3, <1>4, EightShiftsFacts
<1>. HIDE DEF e
<1>10. Xor(e, hi) = 0 <=> e = hi
  <2>1. Xor(hi, hi) = 0
    BY ZenonT(40), <1>1, XorAlgebra
  <2>. QED  BY <1>1, <1>3, <2>1, XorCancel
<1>11. EightShifts(Xor(e, hi)) = 0 <=> Xor(e, hi) = 0
  BY <1>1, <1>3, <1>5, EightShiftsFacts
<1>12. EightShifts(Xor(e, hi)) = 0 <=> k = lo + 256 * hi
  BY <1>7, <1>8, <1>9, <1>10, <1>11
<1>. QED  BY <1>12 DEF e

\* A message that differs in one byte has another checksum.
LEMMA Damage ==
  ASSUME NEW s \in Seq(Byte), NEW i \in 1..Len(s), NEW b \in Byte, b # s[i]
  PROVE  Crc([s EXCEPT ![i] = b]) # Crc(s)
<1>. DEFINE t == [s EXCEPT ![i] = b]
            m == Len(s)
<1>1. /\ t \in Seq(Byte) /\ Len(t) = m /\ m \in Nat /\ t[i] = b
      /\ \A n \in 1..m : n # i => t[n] = s[n]
      /\ \A n \in 1..m : s[n] \in Byte /\ t[n] \in Byte
  BY ExceptSeq, LenProperties, ElementOfSeq
<1>. HIDE DEF t
<1>2. PICK c : CrcUpTo(c, 65535, s) /\ CrcFrom(65535, s) = c[m]
  BY CrcSteps, PolyIsWord
<1>3. PICK d : CrcUpTo(d, 65535, t) /\ CrcFrom(65535, t) = d[m]
  BY <1>1, CrcSteps, PolyIsWord
<1>. HIDE DEF m
<1>4. i \in 1..m /\ i - 1 \in Nat
  BY DEF m
<1>5. c[i - 1] = d[i - 1]
  <2>1. Together(i - 1, c, d, s, t)
    BY <1>1, <1>2, <1>3, <1>4 DEF CrcUpTo, Together, m
  <2>. QED  BY <1>4, <2>1, SameCrc
<1>6. \A n \in 1..m : /\ c[n] = EightShifts(Xor(c[n - 1], s[n]))
                      /\ d[n] = EightShifts(Xor(d[n - 1], t[n]))
                      /\ c[n - 1] \in Word /\ d[n - 1] \in Word
  BY <1>1, <1>2, <1>3 DEF CrcUpTo, m
<1>7. \A u, v \in Word, x, y \in Byte :
        EightShifts(Xor(u, x)) = EightShifts(Xor(v, y)) => Xor(u, x) = Xor(v, y)
  BY ByteIsWord, XorParts, EightShiftsFacts
<1>8. c[i] # d[i]
  <2>1. ASSUME c[i] = d[i] PROVE FALSE
    <3>. DEFINE w == c[i - 1]
    <3>1. w \in Word /\ s[i] \in Byte /\ b \in Byte
      BY <1>1, <1>4, <1>6
    <3>2. Xor(w, s[i]) = Xor(w, b)
      BY <1>1, <1>4, <1>5, <1>6, <1>7, <2>1
    <3>. HIDE DEF w
    <3>3. s[i] \in Word /\ b \in Word
      BY <3>1, ByteIsWord
    <3>4. Xor(s[i], w) = Xor(b, w)
      BY <3>1, <3>2, <3>3, XorAlgebra
    <3>5. s[i] = b
      BY <3>1, <3>3, <3>4, XorCancel
    <3>. QED  BY <3>5
  <2>. QED  BY <2>1
<1>9. c[m] # d[m]
  <2>. DEFINE T == {n \in Nat : i <= n /\ n <= m => c[n] # d[n]}
  <2>1. 0 \in T
    BY <1>4
  <2>2. ASSUME NEW n \in Nat, n \in T PROVE n + 1 \in T
    <3>. SUFFICES ASSUME i <= n + 1, n + 1 <= m PROVE c[n + 1] # d[n + 1]
      OBVIOUS
    <3>1. CASE i = n + 1
      BY <1>8, <3>1
    <3>2. CASE i # n + 1
      <4>1. n + 1 \in 1..m /\ (n + 1) - 1 = n /\ c[n] # d[n]
        BY <1>1, <1>4, <2>2, <3>2
      <4>2. t[n + 1] = s[n + 1] /\ s[n + 1] \in Byte /\ c[n] \in Word /\ d[n] \in Word
        BY <1>1, <1>6, <3>2, <4>1 DEF m
      <4>3. ASSUME c[n + 1] = d[n + 1] PROVE FALSE
        <5>1. Xor(c[n], s[n + 1]) = Xor(d[n], s[n + 1])
          BY <1>6, <1>7, <4>1, <4>2, <4>3
        <5>2. s[n + 1] \in Word
          BY <4>2, ByteIsWord
        <5>. QED  BY <4>1, <4>2, <5>1, <5>2, XorCancel
      <4>. QED  BY <4>3
    <3>. QED  BY <3>1, <3>2
  <2>3. Nat \subseteq T
    <3>. HIDE DEF T
    <3>. QED  BY <2>1, <2>2, SetInduction
  <2>. QED  BY <1>1, <1>4, <2>3
<1>10. Crc(s) = c[m] /\ Crc(t) = d[m]
  BY <1>2, <1>3 DEF Crc
<1>. QED  BY <1>9, <1>10 DEF t
-----------------------------------------------------------------------------
(* The table.                                                              *)

\* One step of the table is one byte of the loop.
LEMMA TableStep ==
  ASSUME NEW d \in Word, NEW b \in Byte
  PROVE  Mix(CrcTable[ByteXor[d % 256][b]], d \div 256) = EightShifts(Xor(d, b))
<1>. DEFINE h == d \div 256
            l == ByteXor[d % 256][b]
            t == EightShifts(l)
<1>1. h \in Byte /\ d % 256 \in Byte /\ l \in Byte
  BY BytesOfWord, ByteXorAlgebra
<1>2. CrcTable[l] = t
  <2>. HIDE DEF l, t
  <2>1. CrcTable = [x \in Byte |-> EightShifts(x)]
    BY DEF CrcTable
  <2>. QED  BY <1>1, <2>1 DEF t
<1>3. Xor(d, b) = 256 * h + l
  <2>1. b \div 256 = 0 /\ b % 256 = b /\ ByteXor[h][0] = h
    BY <1>1, ByteIsWord, ByteXorAlgebra
  <2>. QED  BY <2>1 DEF Xor
<1>. HIDE DEF h, l
<1>4. 256 * h \in Word /\ (256 * h) \div 256 = h /\ (256 * h) % 256 = 0
  <2>1. h \in Nat /\ h < 256
    BY <1>1 DEF Byte
  <2>. QED  BY <2>1, InWord
<1>5. /\ h \in Word /\ h \div 256 = 0 /\ h % 256 = h
      /\ l \in Word /\ l \div 256 = 0 /\ l % 256 = l
  BY <1>1, ByteIsWord
<1>6. Xor(256 * h, l) = 256 * h + l
  <2>1. Xor(256 * h, l) = 256 * ByteXor[h][0] + ByteXor[0][l]
    BY <1>4, <1>5 DEF Xor
  <2>2. 0 \in Byte
    BY DEF Byte
  <2>3. ByteXor[h][0] = h /\ ByteXor[0][l] = ByteXor[l][0] /\ ByteXor[l][0] = l
    BY <1>1, <2>2, ByteXorAlgebra
  <2>. QED  BY <2>1, <2>3
<1>7. EightShifts(Xor(d, b)) = Xor(h, t)
  <2>1. EightShifts(Xor(256 * h, l)) = Xor(EightShifts(256 * h), EightShifts(l))
    BY <1>4, <1>5, EightShiftsFacts
  <2>2. EightShifts(256 * h) = h
    BY <1>1, EightShiftsDown
  <2>. QED  BY <1>3, <1>6, <2>1, <2>2
<1>8. t \in Word
  BY <1>5, EightShiftsFacts
<1>. HIDE DEF t
<1>9. Xor(h, t) = Mix(t, h)
  <2>1. Xor(h, t) = Xor(t, h)
    BY <1>5, <1>8, XorAlgebra
  <2>2. t \div 256 \in Byte
    BY <1>8, BytesOfWord
  <2>3. ByteXor[t \div 256][0] = t \div 256
    BY <2>2, ByteXorAlgebra
  <2>4. Xor(t, h) = 256 * (t \div 256) + ByteXor[t % 256][h]
    BY <1>5, <2>3 DEF Xor
  <2>. QED  BY <2>1, <2>4 DEF Mix
<1>10. Mix(CrcTable[l], h) = EightShifts(Xor(d, b))
  BY <1>2, <1>7, <1>9
<1>. QED  BY <1>10 DEF l, h

LEMMA FastIsCrc == ASSUME NEW s \in Seq(Byte) PROVE FastCrc(s) = Crc(s)
<1>. DEFINE step(x, n) == Mix(CrcTable[ByteXor[x % 256][s[n]]], x \div 256)
            start == 65535
            body(c) == [n \in 0..Len(s) |-> IF n = 0 THEN start ELSE step(c[n - 1], n)]
            c == CHOOSE c : c = body(c)
<1>0. FastCrc(s) = c[Len(s)]
  BY DEF FastCrc
<1>1. Len(s) \in Nat /\ \A i \in 1..Len(s) : s[i] \in Byte
  BY LenProperties, ElementOfSeq
<1>2. PICK g : CrcUpTo(g, 65535, s) /\ CrcFrom(65535, s) = g[Len(s)]
  BY CrcSteps, PolyIsWord
<1>3. \A n \in 1..Len(s) : step(g[n - 1], n) = g[n]
  <2>. SUFFICES ASSUME NEW n \in 1..Len(s) PROVE step(g[n - 1], n) = g[n]
    OBVIOUS
  <2>1. g[n - 1] \in Word /\ s[n] \in Byte /\ g[n] = EightShifts(Xor(g[n - 1], s[n]))
    BY <1>1, <1>2 DEF CrcUpTo
  <2>. QED  BY <2>1, TableStep
<1>4. g[0] = start
  BY <1>2 DEF CrcUpTo
<1>. HIDE DEF step, start
<1>5. \E f : f = body(f)
  <2>. DEFINE f == [n \in 0..Len(s) |-> g[n]]
  <2>1. ASSUME NEW n \in 0..Len(s)
        PROVE  g[n] = IF n = 0 THEN start ELSE step(f[n - 1], n)
    <3>1. CASE n = 0
      BY <1>4, <3>1
    <3>2. CASE n # 0
      <4>1. n \in 1..Len(s) /\ n - 1 \in 0..Len(s)
        BY <1>1, <3>2
      <4>. QED  BY <1>3, <3>2, <4>1
    <3>. QED  BY <3>1, <3>2
  <2>2. f = body(f)
    BY <2>1
  <2>. QED  BY <2>2
<1>6. c = body(c)
  BY <1>5
<1>. HIDE DEF c
<1>7. c[0] = start /\ \A n \in 1..Len(s) : c[n] = step(c[n - 1], n)
  BY <1>1, <1>6
<1>8. c[Len(s)] = g[Len(s)]
  <2>. DEFINE T == {n \in Nat : n <= Len(s) => c[n] = g[n]}
  <2>1. 0 \in T
    BY <1>4, <1>7
  <2>2. ASSUME NEW n \in Nat, n \in T PROVE n + 1 \in T
    <3>. SUFFICES ASSUME n + 1 <= Len(s) PROVE c[n + 1] = g[n + 1]
      OBVIOUS
    <3>1. c[n] = g[n] /\ n + 1 \in 1..Len(s) /\ (n + 1) - 1 = n
      BY <1>1, <2>2
    <3>. QED  BY <1>3, <1>7, <3>1
  <2>3. Nat \subseteq T
    <3>. HIDE DEF T
    <3>. QED  BY <2>1, <2>2, SetInduction
  <2>. QED  BY <1>1, <2>3
<1>. QED  BY <1>0, <1>2, <1>8 DEF Crc

-----------------------------------------------------------------------------
(* The register of the standard is crc16_modbus()'s, read backwards.       *)

Weight == <<128, 64, 32, 16, 8, 4, 2, 1>>

BitUp(h, l, i) == IF i < 8 THEN Bit(h, Weight[i + 1]) ELSE Bit(l, Weight[i - 7])

Mirror(c) == [i \in 0..15 |-> BitUp(c \div 256, c % 256, i)]

\* Where the bits of the two halves of a word go when it is halved.
LEMMA Halved ==
  ASSUME NEW h \in Byte, NEW l \in Byte
  PROVE  LET c == 256 * h + l
             k == 128 * (h % 2) + l \div 2
         IN  /\ c \div 2 = 256 * (h \div 2) + k
             /\ c % 2 = Bit(l, 1)
             /\ h \div 2 \in Byte /\ k \in Byte
             /\ Bit(h \div 2, 128) = 0 /\ Bit(k, 128) = Bit(h, 1)
             /\ \A w \in Lower : Bit(h \div 2, w) = Bit(h, 2 * w) /\ Bit(k, w) = Bit(l, 2 * w)
<1>. DEFINE a == h \div 2
            b == l \div 2
            s == h % 2
            t == l % 2
            k == 128 * s + b
            c == 256 * h + l
<1>1. /\ h = 2 * a + s /\ l = 2 * b + t /\ s \in {0, 1} /\ t \in {0, 1}
      /\ a \in Int /\ 0 <= a /\ a <= 127 /\ b \in Int /\ 0 <= b /\ b <= 127
  BY DEF Byte
<1>2. /\ Bit(a, 128) = 0 /\ Bit(b, 128) = 0
      /\ \A w \in Lower : Bit(a, w) = Bit(h, 2 * w) /\ Bit(b, w) = Bit(l, 2 * w)
  <2>. SUFFICES ASSUME NEW u \in Byte
                PROVE  /\ Bit(u \div 2, 128) = 0
                       /\ \A w \in Lower : Bit(u \div 2, w) = Bit(u, 2 * w)
    OBVIOUS
  <2>1. /\ Bit(u \div 2, 1) = Bit(u, 2 * 1) /\ Bit(u \div 2, 2) = Bit(u, 2 * 2)
        /\ Bit(u \div 2, 4) = Bit(u, 2 * 4) /\ Bit(u \div 2, 8) = Bit(u, 2 * 8)
    BY SMTT(30) DEF Byte, Bit
  <2>2. /\ Bit(u \div 2, 16) = Bit(u, 2 * 16) /\ Bit(u \div 2, 32) = Bit(u, 2 * 32)
        /\ Bit(u \div 2, 64) = Bit(u, 2 * 64) /\ Bit(u \div 2, 128) = 0
    BY SMTT(30) DEF Byte, Bit
  <2>. QED  BY <2>1, <2>2 DEF Lower
<1>3. Bit(h, 1) = s /\ Bit(l, 1) = t
  BY DEF Bit, Byte
<1>. HIDE DEF a, b, s, t
<1>4. c = 2 * (256 * a + k) + t /\ k \in Int
  BY <1>1
<1>5. c \div 2 = 256 * a + k /\ c % 2 = t
  <2>. HIDE DEF c, k
  <2>. QED  BY <1>1, <1>4
<1>6. a \in Byte /\ k \in Byte
  BY <1>1 DEF Byte
<1>7. Bit(k, 128) = s /\ \A w \in Lower : Bit(k, w) = Bit(b, w)
  BY <1>1 DEF Bit, Lower
<1>. QED  BY <1>2, <1>3, <1>5, <1>6, <1>7 DEF a, b, s, t

\* One bit into either register.
LEMMA MirrorTakes ==
  ASSUME NEW c \in Word, NEW b \in {0, 1}
  PROVE  TakeIn(Mirror(c), b) = Mirror(Shift(Xor(c, b)))
<1>. DEFINE h == c \div 256
            l == c % 256
            m == ByteXor[l][b]
            out == (Bit(l, 1) + b) % 2
            p == h \div 2
            q == 128 * (h % 2) + m \div 2
            d == Shift(Xor(c, b))
            dh == d \div 256
            dl == d % 256
<1>1. h \in Byte /\ l \in Byte /\ b \in Byte /\ b \in Word /\ b \div 256 = 0 /\ b % 256 = b
  BY BytesOfWord, ByteIsWord DEF Byte
<1>2. /\ m \in Byte /\ Bit(m, 1) = out
      /\ \A w \in Lower : Bit(m, 2 * w) = Bit(l, 2 * w)
  <2>. HIDE DEF l
  <2>1. m \in Byte /\ \A w \in Weights : Bit(m, w) = (Bit(l, w) + Bit(b, w)) % 2
    BY <1>1, XorBits DEF Weights
  <2>2. Bit(b, 1) = b /\ \A w \in Lower : Bit(b, 2 * w) = 0 /\ 2 * w \in Weights
    BY DEF Bit, Lower, Weights
  <2>3. \A w \in Weights : Bit(l, w) \in {0, 1}
    BY <1>1, BitsOf DEF Weights
  <2>. HIDE DEF m
  <2>4. Bit(m, 1) = out
    BY <2>1, <2>2 DEF Weights
  <2>5. ASSUME NEW w \in Lower PROVE Bit(m, 2 * w) = Bit(l, 2 * w)
    <3>1. 2 * w \in Weights /\ Bit(b, 2 * w) = 0
      BY <2>2
    <3>2. Bit(m, 2 * w) = (Bit(l, 2 * w) + 0) % 2 /\ Bit(l, 2 * w) \in {0, 1}
      BY <2>1, <2>3, <3>1
    <3>. QED  BY <3>2
  <2>. QED  BY <2>1, <2>4, <2>5
<1>3. Xor(c, b) = 256 * h + m
  <2>1. ByteXor[h][0] = h
    BY <1>1, ByteXorAlgebra
  <2>. QED  BY <1>1, <2>1 DEF Xor
<1>. HIDE DEF h, l, m
<1>4. /\ Xor(c, b) \div 2 = 256 * p + q /\ Xor(c, b) % 2 = out
      /\ p \in Byte /\ q \in Byte
      /\ Bit(p, 128) = 0 /\ Bit(q, 128) = Bit(h, 1)
      /\ \A w \in Lower : Bit(p, w) = Bit(h, 2 * w) /\ Bit(q, w) = Bit(l, 2 * w)
  BY <1>1, <1>2, <1>3, Halved
<1>5. out \in {0, 1}
  <2>1. Bit(l, 1) \in {0, 1}
    BY <1>1, BitsOf
  <2>. QED  BY <2>1
<1>. HIDE DEF p, q, out
<1>6. /\ dh \in Byte /\ dl \in Byte
      /\ dh = IF out = 1 THEN ByteXor[p][160] ELSE p
      /\ dl = IF out = 1 THEN ByteXor[q][1] ELSE q
  <2>. DEFINE v == 256 * p + q
  <2>1. v \in Word /\ v \div 256 = p /\ v % 256 = q
    BY <1>4, WordOfBytes
  <2>2. d = IF out = 1 THEN Xor(v, 40961) ELSE v
    BY <1>4 DEF Shift
  <2>. HIDE DEF v, d
  <2>3. CASE out = 1
    <3>1. 40961 \div 256 = 160 /\ 40961 % 256 = 1
      OBVIOUS
    <3>2. d \in Word /\ dh = ByteXor[p][160] /\ dl = ByteXor[q][1]
      BY <2>1, <2>2, <2>3, <3>1, PolyIsWord, XorParts
    <3>. QED  BY <2>3, <3>2, BytesOfWord
  <2>4. CASE out # 1
    <3>1. d = v
      BY <2>2, <2>4
    <3>. QED  BY <2>1, <2>4, <3>1, <1>4
  <2>. QED  BY <2>3, <2>4
<1>. HIDE DEF d, dh, dl
<1>7. ASSUME NEW u \in Byte, NEW v \in Byte, NEW w \in Weights
      PROVE  Bit(IF out = 1 THEN ByteXor[u][v] ELSE u, w) = (Bit(u, w) + (IF out = 1 THEN Bit(v, w) ELSE 0)) % 2
  <2>1. Bit(ByteXor[u][v], w) = (Bit(u, w) + Bit(v, w)) % 2
    BY XorBits DEF Weights
  <2>2. Bit(u, w) \in {0, 1}
    BY BitsOf DEF Weights
  <2>3. CASE out = 1
    BY <2>1, <2>3
  <2>4. CASE out # 1
    <3>1. Bit(u, w) = (Bit(u, w) + 0) % 2
      BY <2>2
    <3>. QED  BY <2>4, <3>1
  <2>. QED  BY <2>3, <2>4
<1>8. /\ 160 \in Byte /\ 1 \in Byte
      /\ Bit(160, 128) = 1 /\ Bit(160, 32) = 1 /\ Bit(1, 1) = 1
      /\ \A w \in Weights \ {128, 32} : Bit(160, w) = 0
      /\ \A w \in Weights \ {1} : Bit(1, w) = 0
  BY DEF Byte, Bit, Weights
<1>9. /\ Bit(dh, 128) = (Bit(p, 128) + out) % 2 /\ Bit(dh, 32) = (Bit(p, 32) + out) % 2
      /\ \A w \in Weights \ {128, 32} : Bit(dh, w) = (Bit(p, w) + 0) % 2
  <2>1. \A w \in Weights : Bit(dh, w) = (Bit(p, w) + (IF out = 1 THEN Bit(160, w) ELSE 0)) % 2
    BY <1>4, <1>6, <1>7, <1>8
  <2>. QED  BY <1>5, <1>8, <2>1 DEF Weights
<1>10. /\ Bit(dl, 1) = (Bit(q, 1) + out) % 2
       /\ \A w \in Weights \ {1} : Bit(dl, w) = (Bit(q, w) + 0) % 2
  <2>1. \A w \in Weights : Bit(dl, w) = (Bit(q, w) + (IF out = 1 THEN Bit(1, w) ELSE 0)) % 2
    BY <1>4, <1>6, <1>7, <1>8
  <2>. QED  BY <1>5, <1>8, <2>1 DEF Weights
<1>11. ASSUME NEW i \in 0..15
       PROVE  BitUp(dh, dl, i) = ((IF i = 0 THEN 0 ELSE BitUp(h, l, i - 1))
                                    + (IF i \in {0, 2, 15} THEN out ELSE 0)) % 2
  <2>1. /\ Weight[1] = 128 /\ Weight[2] = 64 /\ Weight[3] = 32 /\ Weight[4] = 16
        /\ Weight[5] = 8 /\ Weight[6] = 4 /\ Weight[7] = 2 /\ Weight[8] = 1
    BY DEF Weight
  <2>2. CASE i = 0
    BY <1>4, <1>9, <2>1, <2>2 DEF BitUp
  <2>3. CASE i \in 1..7
    <3>1. \/ i = 1 /\ BitUp(dh, dl, i) = Bit(dh, 64) /\ BitUp(h, l, i - 1) = Bit(h, 2 * 64)
          \/ i = 2 /\ BitUp(dh, dl, i) = Bit(dh, 32) /\ BitUp(h, l, i - 1) = Bit(h, 2 * 32)
          \/ i = 3 /\ BitUp(dh, dl, i) = Bit(dh, 16) /\ BitUp(h, l, i - 1) = Bit(h, 2 * 16)
          \/ i = 4 /\ BitUp(dh, dl, i) = Bit(dh, 8) /\ BitUp(h, l, i - 1) = Bit(h, 2 * 8)
          \/ i = 5 /\ BitUp(dh, dl, i) = Bit(dh, 4) /\ BitUp(h, l, i - 1) = Bit(h, 2 * 4)
          \/ i = 6 /\ BitUp(dh, dl, i) = Bit(dh, 2) /\ BitUp(h, l, i - 1) = Bit(h, 2 * 2)
          \/ i = 7 /\ BitUp(dh, dl, i) = Bit(dh, 1) /\ BitUp(h, l, i - 1) = Bit(h, 2 * 1)
      BY <2>1, <2>3 DEF BitUp
    <3>2. \A w \in Lower : Bit(h, 2 * w) = Bit(p, w)
      BY <1>4
    <3>. QED  BY <1>9, <3>1, <3>2 DEF Weights, Lower
  <2>4. CASE i = 8
    <3>1. BitUp(dh, dl, i) = Bit(dl, 128) /\ BitUp(h, l, i - 1) = Bit(h, 1)
      BY <2>1, <2>4 DEF BitUp
    <3>. QED  BY <1>4, <1>10, <2>4, <3>1 DEF Weights
  <2>5. CASE i \in 9..15
    <3>1. \/ i = 9 /\ BitUp(dh, dl, i) = Bit(dl, 64) /\ BitUp(h, l, i - 1) = Bit(l, 2 * 64)
          \/ i = 10 /\ BitUp(dh, dl, i) = Bit(dl, 32) /\ BitUp(h, l, i - 1) = Bit(l, 2 * 32)
          \/ i = 11 /\ BitUp(dh, dl, i) = Bit(dl, 16) /\ BitUp(h, l, i - 1) = Bit(l, 2 * 16)
          \/ i = 12 /\ BitUp(dh, dl, i) = Bit(dl, 8) /\ BitUp(h, l, i - 1) = Bit(l, 2 * 8)
          \/ i = 13 /\ BitUp(dh, dl, i) = Bit(dl, 4) /\ BitUp(h, l, i - 1) = Bit(l, 2 * 4)
          \/ i = 14 /\ BitUp(dh, dl, i) = Bit(dl, 2) /\ BitUp(h, l, i - 1) = Bit(l, 2 * 2)
          \/ i = 15 /\ BitUp(dh, dl, i) = Bit(dl, 1) /\ BitUp(h, l, i - 1) = Bit(l, 2 * 1)
      BY <2>1, <2>5 DEF BitUp
    <3>2. \A w \in Lower : Bit(l, 2 * w) = Bit(q, w)
      BY <1>4
    <3>. QED  BY <1>10, <3>1, <3>2 DEF Weights, Lower
  <2>. QED  BY <2>2, <2>3, <2>4, <2>5
<1>12. (Mirror(c)[15] + b) % 2 = out
  <2>1. Mirror(c)[15] = Bit(l, 1)
    BY DEF Mirror, BitUp, Weight, l
  <2>. QED  BY <2>1 DEF out
<1>13. \A i \in 1..15 : Mirror(c)[i - 1] = BitUp(h, l, i - 1)
  BY DEF Mirror, h, l
<1>14. Mirror(d) = [i \in 0..15 |-> BitUp(dh, dl, i)]
  BY DEF Mirror, dh, dl
<1>15. TakeIn(Mirror(c), b) =
         [i \in 0..15 |-> ((IF i = 0 THEN 0 ELSE Mirror(c)[i - 1])
                             + (IF i \in {0, 2, 15} THEN out ELSE 0)) % 2]
  BY <1>12 DEF TakeIn
<1>16. TakeIn(Mirror(c), b) =
         [i \in 0..15 |-> ((IF i = 0 THEN 0 ELSE BitUp(h, l, i - 1))
                             + (IF i \in {0, 2, 15} THEN out ELSE 0)) % 2]
  <2>1. ASSUME NEW i \in 0..15
        PROVE  (IF i = 0 THEN 0 ELSE Mirror(c)[i - 1]) = (IF i = 0 THEN 0 ELSE BitUp(h, l, i - 1))
    BY <1>13
  <2>. HIDE DEF h, l, out
  <2>. QED  BY <1>15, <2>1
<1>. QED  BY <1>11, <1>14, <1>16 DEF d

\* The lowest bit of a byte may go in by itself.
LEMMA OneBit ==
  ASSUME NEW c \in Word, NEW n \in Byte
  PROVE  /\ n \div 2 \in Byte /\ n % 2 \in {0, 1} /\ Shift(Xor(c, n % 2)) \in Word
         /\ Shift(Xor(c, n)) = Xor(Shift(Xor(c, n % 2)), n \div 2)
<1>. DEFINE a == n \div 2
            t == n % 2
            u == 2 * a
<1>1. a \in Byte /\ t \in {0, 1} /\ t \in Byte /\ u \in Byte /\ n = u + t /\ u \in Nat
      /\ u \div 2 = a /\ u % 2 = 0 /\ a \in Nat
  BY DEF Byte
<1>2. n \in Word /\ t \in Word /\ u \in Word /\ a \in Word
  BY <1>1, ByteIsWord
<1>. HIDE DEF a, t, u
<1>3. Xor(u, t) = n
  <2>1. ByteXor[u][t] = n
    <3>. DEFINE x == ByteXor[u][t]
    <3>1. x \in Byte /\ x \div 2 = ByteXor[u \div 2][t \div 2] /\ x % 2 = (u + t) % 2
      BY <1>1, ByteXorAlgebra, ByteXorHalves
    <3>2. t \div 2 = 0 /\ (u + t) % 2 = t
      BY <1>1
    <3>3. x \div 2 = a
      BY <1>1, <3>1, <3>2, ByteXorAlgebra
    <3>4. x \in Byte /\ x % 2 = t
      BY <3>1, <3>2
    <3>. HIDE DEF x
    <3>5. x \in Int /\ t \in Int
      BY <1>1, <3>4 DEF Byte
    <3>6. x = 2 * a + t
      BY <1>1, <3>3, <3>4, <3>5
    <3>. QED  BY <1>1, <3>6 DEF x, u
  <2>2. /\ u \div 256 = 0 /\ u % 256 = u /\ t \div 256 = 0 /\ t % 256 = t
    BY <1>1, ByteIsWord
  <2>3. ByteXor[0][0] = 0
    <3>1. 0 \in Byte
      BY DEF Byte
    <3>. QED  BY <3>1, ByteXorAlgebra
  <2>4. Xor(u, t) = 256 * 0 + n
    BY <2>1, <2>2, <2>3 DEF Xor
  <2>5. n \in Int
    BY DEF Byte
  <2>. QED  BY <2>4, <2>5
<1>4. Shift(u) = a
  BY <1>1 DEF Shift
<1>5. Xor(c, t) \in Word /\ Shift(Xor(c, t)) \in Word
  BY <1>2, XorParts, ShiftIsWord
<1>6. Xor(c, n) = Xor(Xor(c, t), u)
  <2>1. Xor(Xor(c, t), u) = Xor(c, Xor(t, u)) /\ Xor(t, u) = Xor(u, t)
    BY <1>2, XorAlgebra
  <2>. QED  BY <1>3, <2>1
<1>7. Shift(Xor(Xor(c, t), u)) = Xor(Shift(Xor(c, t)), Shift(u))
  BY <1>2, <1>5, ShiftLinear
<1>. QED  BY <1>1, <1>4, <1>5, <1>6, <1>7 DEF a, t

LEMMA MirrorTakesFour ==
  ASSUME NEW c \in Word, NEW n \in Byte
  PROVE  \E d \in Word : /\ TakeFour(Mirror(c), n) = Mirror(d)
                         /\ FourShifts(Xor(c, n)) = Xor(d, n \div 16)
<1>. DEFINE n1 == n \div 2
            n2 == n1 \div 2
            n3 == n2 \div 2
            n4 == n3 \div 2
            c1 == Shift(Xor(c, n % 2))
            c2 == Shift(Xor(c1, n1 % 2))
            c3 == Shift(Xor(c2, n2 % 2))
            c4 == Shift(Xor(c3, n3 % 2))
<1>1. n2 = n \div 4 /\ n3 = n \div 8 /\ n4 = n \div 16
  BY DEF Byte
<1>. HIDE DEF n1, n2, n3, n4, c1, c2, c3, c4
<1>2. /\ n1 \in Byte /\ n % 2 \in {0, 1} /\ c1 \in Word /\ Shift(Xor(c, n)) = Xor(c1, n1)
  BY OneBit DEF n1, c1
<1>3. /\ n2 \in Byte /\ n1 % 2 \in {0, 1} /\ c2 \in Word /\ Shift(Xor(c1, n1)) = Xor(c2, n2)
  BY <1>2, OneBit DEF n2, c2
<1>4. /\ n3 \in Byte /\ n2 % 2 \in {0, 1} /\ c3 \in Word /\ Shift(Xor(c2, n2)) = Xor(c3, n3)
  BY <1>3, OneBit DEF n3, c3
<1>5. /\ n4 \in Byte /\ n3 % 2 \in {0, 1} /\ c4 \in Word /\ Shift(Xor(c3, n3)) = Xor(c4, n4)
  BY <1>4, OneBit DEF n4, c4
<1>6. FourShifts(Xor(c, n)) = Xor(c4, n4)
  BY <1>2, <1>3, <1>4, <1>5 DEF FourShifts
<1>7. /\ TakeIn(Mirror(c), n % 2) = Mirror(c1) /\ TakeIn(Mirror(c1), n1 % 2) = Mirror(c2)
      /\ TakeIn(Mirror(c2), n2 % 2) = Mirror(c3) /\ TakeIn(Mirror(c3), n3 % 2) = Mirror(c4)
  BY <1>2, <1>3, <1>4, <1>5, MirrorTakes DEF c1, c2, c3, c4
<1>8. TakeFour(Mirror(c), n) = Mirror(c4)
  BY <1>1, <1>7 DEF TakeFour, n1
<1>. QED  BY <1>1, <1>5, <1>6, <1>8

LEMMA MirrorTakesByte ==
  ASSUME NEW c \in Word, NEW n \in Byte
  PROVE  TakeByte(Mirror(c), n) = Mirror(EightShifts(Xor(c, n)))
<1>. DEFINE m == n \div 16
<1>1. m \in Byte /\ m \div 16 = 0
  BY DEF Byte
<1>2. PICK d \in Word : /\ TakeFour(Mirror(c), n) = Mirror(d)
                        /\ FourShifts(Xor(c, n)) = Xor(d, m)
  BY MirrorTakesFour
<1>. HIDE DEF m
<1>3. PICK e \in Word : /\ TakeFour(Mirror(d), m) = Mirror(e)
                        /\ FourShifts(Xor(d, m)) = Xor(e, m \div 16)
  BY <1>1, MirrorTakesFour
<1>4. Xor(e, m \div 16) = e
  <2>1. Xor(e, 0) = e
    BY XorAlgebra
  <2>. QED  BY <1>1, <2>1
<1>. QED  BY <1>2, <1>3, <1>4 DEF TakeByte, EightShifts, m

LEMMA MirrorZero ==
  ASSUME NEW c \in Word
  PROVE  /\ Mirror(c) = [i \in 0..15 |-> 0] <=> c = 0
         /\ Mirror(65535) = [i \in 0..15 |-> 1]
<1>. DEFINE h == c \div 256
            l == c % 256
<1>1. /\ Weight[1] = 128 /\ Weight[2] = 64 /\ Weight[3] = 32 /\ Weight[4] = 16
      /\ Weight[5] = 8 /\ Weight[6] = 4 /\ Weight[7] = 2 /\ Weight[8] = 1
  BY DEF Weight
<1>2. h \in Byte /\ l \in Byte /\ c = 256 * h + l
  BY BytesOfWord
<1>3. \A w \in Weights : Bit(0, w) = 0 /\ Bit(255, w) = 1
  BY DEF Bit, Weights
<1>. HIDE DEF h, l
<1>4. ASSUME Mirror(c) = [i \in 0..15 |-> 0] PROVE c = 0
  <2>1. \A i \in 0..15 : BitUp(h, l, i) = 0
    BY <1>4 DEF Mirror, h, l
  <2>2. /\ BitUp(h, l, 0) = Bit(h, 128) /\ BitUp(h, l, 1) = Bit(h, 64)
        /\ BitUp(h, l, 2) = Bit(h, 32) /\ BitUp(h, l, 3) = Bit(h, 16)
        /\ BitUp(h, l, 4) = Bit(h, 8) /\ BitUp(h, l, 5) = Bit(h, 4)
        /\ BitUp(h, l, 6) = Bit(h, 2) /\ BitUp(h, l, 7) = Bit(h, 1)
    BY <1>1 DEF BitUp
  <2>3. /\ BitUp(h, l, 8) = Bit(l, 128) /\ BitUp(h, l, 9) = Bit(l, 64)
        /\ BitUp(h, l, 10) = Bit(l, 32) /\ BitUp(h, l, 11) = Bit(l, 16)
        /\ BitUp(h, l, 12) = Bit(l, 8) /\ BitUp(h, l, 13) = Bit(l, 4)
        /\ BitUp(h, l, 14) = Bit(l, 2) /\ BitUp(h, l, 15) = Bit(l, 1)
    BY <1>1 DEF BitUp
  <2>4. h = SumOfBits(0, 0, 0, 0, 0, 0, 0, 0)
    BY <1>2, <2>1, <2>2, BitsOf
  <2>5. l = SumOfBits(0, 0, 0, 0, 0, 0, 0, 0)
    BY <1>2, <2>1, <2>3, BitsOf
  <2>. QED  BY <1>2, <2>4, <2>5 DEF SumOfBits
<1>5. \A i \in 0..7 : Weight[i + 1] \in Weights
  BY <1>1 DEF Weights
<1>6. \A i \in 8..15 : Weight[i - 7] \in Weights
  BY <1>1 DEF Weights
<1>7. ASSUME c = 0 PROVE Mirror(c) = [i \in 0..15 |-> 0]
  <2>1. h = 0 /\ l = 0
    BY <1>7 DEF h, l
  <2>2. \A i \in 0..15 : BitUp(h, l, i) = 0
    BY <1>3, <1>5, <1>6, <2>1 DEF BitUp
  <2>. QED  BY <2>2 DEF Mirror, h, l
<1>8. Mirror(65535) = [i \in 0..15 |-> 1]
  <2>1. 65535 \div 256 = 255 /\ 65535 % 256 = 255
    OBVIOUS
  <2>2. \A i \in 0..15 : BitUp(255, 255, i) = 1
    BY <1>3, <1>5, <1>6 DEF BitUp
  <2>. QED  BY <2>1, <2>2 DEF Mirror
<1>. QED  BY <1>4, <1>7, <1>8

LEMMA RemainderIsCrc == ASSUME NEW s \in Seq(Byte) PROVE Remainder(s) = Mirror(Crc(s))
<1>. DEFINE ones == [i \in 0..15 |-> 1]
            step(r, n) == TakeByte(r, s[n])
            body(r) == [n \in 0..Len(s) |-> IF n = 0 THEN ones ELSE step(r[n - 1], n)]
            c == CHOOSE r : r = body(r)
<1>0. Remainder(s) = c[Len(s)]
  BY DEF Remainder
<1>1. Len(s) \in Nat /\ \A i \in 1..Len(s) : s[i] \in Byte
  BY LenProperties, ElementOfSeq
<1>2. PICK g : CrcUpTo(g, 65535, s) /\ CrcFrom(65535, s) = g[Len(s)]
  BY CrcSteps, PolyIsWord
<1>. DEFINE f == [n \in 0..Len(s) |-> Mirror(g[n])]
<1>3. \A n \in 1..Len(s) : step(Mirror(g[n - 1]), n) = Mirror(g[n])
  <2>. SUFFICES ASSUME NEW n \in 1..Len(s) PROVE step(Mirror(g[n - 1]), n) = Mirror(g[n])
    OBVIOUS
  <2>1. g[n - 1] \in Word /\ s[n] \in Byte /\ g[n] = EightShifts(Xor(g[n - 1], s[n]))
    BY <1>1, <1>2 DEF CrcUpTo
  <2>. QED  BY <2>1, MirrorTakesByte
<1>4. Mirror(g[0]) = ones
  BY <1>2, MirrorZero, PolyIsWord DEF CrcUpTo
<1>. HIDE DEF step, ones
<1>5. \E r : r = body(r)
  <2>1. ASSUME NEW n \in 0..Len(s)
        PROVE  Mirror(g[n]) = IF n = 0 THEN ones ELSE step(f[n - 1], n)
    <3>1. CASE n = 0
      BY <1>4, <3>1
    <3>2. CASE n # 0
      <4>1. n \in 1..Len(s) /\ n - 1 \in 0..Len(s)
        BY <1>1, <3>2
      <4>. QED  BY <1>3, <3>2, <4>1
    <3>. QED  BY <3>1, <3>2
  <2>2. f = body(f)
    BY <2>1
  <2>. QED  BY <2>2
<1>6. c = body(c)
  BY <1>5
<1>. HIDE DEF c
<1>7. c[0] = ones /\ \A n \in 1..Len(s) : c[n] = step(c[n - 1], n)
  BY <1>1, <1>6
<1>8. c[Len(s)] = Mirror(g[Len(s)])
  <2>. DEFINE T == {n \in Nat : n <= Len(s) => c[n] = Mirror(g[n])}
  <2>1. 0 \in T
    BY <1>4, <1>7
  <2>2. ASSUME NEW n \in Nat, n \in T PROVE n + 1 \in T
    <3>. SUFFICES ASSUME n + 1 <= Len(s) PROVE c[n + 1] = Mirror(g[n + 1])
      OBVIOUS
    <3>1. c[n] = Mirror(g[n]) /\ n + 1 \in 1..Len(s) /\ (n + 1) - 1 = n
      BY <1>1, <2>2
    <3>. QED  BY <1>3, <1>7, <3>1
  <2>3. Nat \subseteq T
    <3>. HIDE DEF T
    <3>. QED  BY <2>1, <2>2, SetInduction
  <2>. QED  BY <1>1, <2>3
<1>. QED  BY <1>0, <1>2, <1>8 DEF Crc

\* Two bytes make a frame sound in the one way that crc16_modbus() has.
LEMMA SoundWhen ==
  ASSUME NEW s \in Seq(Byte), NEW lo \in Byte, NEW hi \in Byte
  PROVE  /\ CrcHolds(s \o <<lo, hi>>) <=> Crc(s) = lo + 256 * hi
         /\ Divides(s \o <<lo, hi>>) <=> Crc(s) = lo + 256 * hi
<1>. DEFINE e == <<lo, hi>>
            f == s \o e
            m == Len(s)
<1>1. e \in Seq(Byte) /\ Len(e) = 2 /\ e[1] = lo /\ e[2] = hi
  OBVIOUS
<1>. HIDE DEF e
<1>2. /\ f \in Seq(Byte) /\ m \in Nat /\ Len(f) = m + 2
      /\ f[m + 1] = lo /\ f[m + 2] = hi /\ \A i \in 1..m : f[i] = s[i]
  <2>1. m \in Nat
    BY LenProperties
  <2>2. f \in Seq(Byte) /\ Len(f) = m + Len(e)
        /\ \A i \in 1 .. m + Len(e) : f[i] = IF i <= m THEN s[i] ELSE e[i - m]
    BY <1>1, ConcatProperties, Zenon
  <2>. HIDE DEF f, m
  <2>. QED  BY <1>1, <2>1, <2>2
<1>. HIDE DEF f
<1>3. SubSeq(f, 1, m) = s
  <2>1. SubSeq(f, 1, m) = [i \in 1..m |-> f[i]]
    BY <1>2 DEF SubSeq
  <2>2. s = [i \in 1..m |-> s[i]]
    BY LenProperties
  <2>. QED  BY <1>2, <2>1, <2>2
<1>4. CrcHolds(f) <=> Crc(s) = lo + 256 * hi
  <2>1. /\ Len(f) - 2 = m /\ Len(f) - 1 = m + 1
    BY <1>2
  <2>. QED  BY ZenonT(40), <1>2, <1>3, <2>1 DEF CrcHolds
<1>5. Divides(f) <=> Crc(f) = 0
  BY <1>2, CrcIsWord, RemainderIsCrc, MirrorZero DEF Divides
<1>6. Crc(f) = 0 <=> Crc(s) = lo + 256 * hi
  BY TwoMore, ZeroWhen, CrcIsWord DEF f, e
<1>. QED  BY <1>4, <1>5, <1>6 DEF f, e

-----------------------------------------------------------------------------
(* FastCrcIsCrc, in every state: the table of the model-checking modules   *)
(* is crc16_modbus().                                                      *)
THEOREM TableIsCrc == CodecSpec => []FastCrcIsCrc
<1>1. CodecInv => FastCrcIsCrc
  BY FastIsCrc DEF CodecInv, FastCrcIsCrc
<1>. QED  BY <1>1, CodecTypes, PTL

(* FramesDivide, in every state: crc16_modbus() is the division that the   *)
(* Modbus standard asks for, for messages of every length; poll_one_()     *)
(* seals sound frames, on_modbus_frame_() takes no others.                 *)
THEOREM ChecksumIsStandard == CodecSpec => []FramesDivide
<1>1. ASSUME CodecInv PROVE FramesDivide
  <2>1. bytes \in Seq(Byte) /\ Sample \subseteq Byte
    BY <1>1, CodecAssumption DEF CodecInv
  <2>2. Divides(Sealed(bytes)) /\ CrcHolds(Sealed(bytes))
    <3>. DEFINE c == Crc(bytes)
    <3>1. /\ c % 256 \in Byte /\ c \div 256 \in Byte /\ c = (c % 256) + 256 * (c \div 256)
      <4>. SUFFICES ASSUME NEW u \in Word
                    PROVE  /\ u % 256 \in Byte /\ u \div 256 \in Byte
                           /\ u = (u % 256) + 256 * (u \div 256)
        BY <2>1, CrcIsWord
      <4>1. u % 256 \in Byte /\ u \div 256 \in Byte
        BY BytesOfWord
      <4>2. u \in Nat
        BY OfWord
      <4>. QED  BY <4>1, <4>2
    <3>2. Sealed(bytes) = bytes \o <<c % 256, c \div 256>>
      BY DEF Sealed
    <3>. QED  BY <2>1, <3>1, <3>2, SoundWhen
  <2>3. ASSUME NEW lo \in Sample, NEW hi \in Sample
        PROVE  CrcHolds(bytes \o <<lo, hi>>) <=> Divides(bytes \o <<lo, hi>>)
    BY <2>1, SoundWhen
  <2>. QED  BY <2>2, <2>3 DEF FramesDivide
<1>. QED  BY <1>1, CodecTypes, PTL

(* DamageIsNoticed, in every state: crc16_modbus() of a message changes    *)
(* with any one byte of it.                                                *)
THEOREM NoDamagePasses == CodecSpec => []DamageIsNoticed
<1>1. ASSUME CodecInv PROVE DamageIsNoticed
  <2>. SUFFICES ASSUME NEW i \in DOMAIN bytes, NEW b \in Byte \ {bytes[i]}
                PROVE  FastCrc([bytes EXCEPT ![i] = b]) # Crc(bytes)
    BY DEF DamageIsNoticed
  <2>1. bytes \in Seq(Byte) /\ i \in 1..Len(bytes)
    BY <1>1, LenProperties DEF CodecInv
  <2>2. Crc([bytes EXCEPT ![i] = b]) # Crc(bytes)
    BY <2>1, Damage
  <2>3. [bytes EXCEPT ![i] = b] \in Seq(Byte)
    BY <2>1, ExceptSeq
  <2>. QED  BY <2>2, <2>3, FastIsCrc
<1>. QED  BY <1>1, CodecTypes, PTL

-----------------------------------------------------------------------------
(* Part 7: the names of models.  Before() stops at the first of the marks  *)
(* it is given; what it leaves is the name, since what follows a name is   *)
(* set off from it by a mark.                                              *)

\* The first mark of the text is behind its k-th word, or there is none and
\* k is its length.
FirstMark(text, marks, k) ==
  /\ k \in Nat /\ k <= Len(text)
  /\ \A i \in 1..k : text[i] \notin marks
  /\ k < Len(text) => text[k + 1] \in marks

LEMMA FirstMarkExists ==
  ASSUME NEW text, Len(text) \in Nat, NEW marks
  PROVE  \E k : FirstMark(text, marks, k)
<1>. DEFINE T == {i \in Nat : i < Len(text) /\ text[i + 1] \in marks} \cup {Len(text)}
<1>1. T \in SUBSET Nat /\ T # {}
  OBVIOUS
<1>2. PICK k \in T : \A j \in T : k <= j
  <2>. HIDE DEF T
  <2>. QED  BY <1>1, SmallestExists
<1>3. k \in Nat /\ k <= Len(text) /\ (k < Len(text) => text[k + 1] \in marks)
  OBVIOUS
<1>4. ASSUME NEW i \in 1..k PROVE text[i] \notin marks
  <2>1. i - 1 \in Nat /\ i - 1 < Len(text) /\ (i - 1) + 1 = i /\ ~(k <= i - 1)
    BY <1>3
  <2>. QED  BY <1>2, <2>1
<1>. QED  BY <1>3, <1>4 DEF FirstMark

LEMMA BeforeIs ==
  ASSUME NEW X, NEW text \in Seq(X), NEW marks, NEW k, FirstMark(text, marks, k)
  PROVE  Before(text, marks) = SubSeq(text, 1, k)
<1>. DEFINE I == {i \in 1..Len(text) : text[i] \in marks}
            at == IF I # {} THEN Min(I) ELSE 0
<1>1. Before(text, marks) = IF at = 0 THEN text ELSE SubSeq(text, 1, at - 1)
  BY DEF Before, SelectInSeq
<1>2. Len(text) \in Nat
  BY LenProperties
<1>3. CASE k = Len(text)
  <2>1. I = {}
    BY <1>3 DEF FirstMark
  <2>2. SubSeq(text, 1, Len(text)) = text
    BY SubSeqFull
  <2>. QED  BY <1>1, <1>3, <2>1, <2>2
<1>4. CASE k < Len(text)
  <2>1. k + 1 \in I /\ \A i \in I : k + 1 <= i
    BY <1>2, <1>4 DEF FirstMark
  <2>. HIDE DEF I
  <2>2. I \subseteq Nat
    BY <1>2 DEF I
  <2>3. Min(I) = k + 1
    <3>1. Min(I) \in I /\ \A y \in I : Min(I) <= y
      BY <2>1 DEF Min
    <3>2. k + 1 \in Nat /\ Min(I) \in Nat /\ k + 1 <= Min(I) /\ Min(I) <= k + 1
      BY <2>1, <2>2, <3>1
    <3>. QED  BY <3>2
  <2>4. at = k + 1 /\ at - 1 = k /\ at # 0
    BY <2>1, <2>3 DEF FirstMark
  <2>. HIDE DEF at
  <2>. QED  BY <1>1, <2>4
<1>. QED  BY <1>2, <1>3, <1>4 DEF FirstMark

\* The first k words of a text.
LEMMA FirstWords ==
  ASSUME NEW X, NEW text \in Seq(X), NEW k \in Nat, k <= Len(text)
  PROVE  /\ SubSeq(text, 1, k) \in Seq(X) /\ Len(SubSeq(text, 1, k)) = k
         /\ \A i \in 1..k : SubSeq(text, 1, k)[i] = text[i]
<1>. DEFINE b == SubSeq(text, 1, k)
<1>1. Len(text) \in Nat
  BY LenProperties
<1>2. \A i \in 1..k : text[i] \in X
  BY <1>1, ElementOfSeq
<1>3. /\ b \in Seq(X) /\ Len(b) = IF 1 <= k THEN k - 1 + 1 ELSE 0
      /\ \A i \in 1 .. k - 1 + 1 : b[i] = text[1 + i - 1]
  BY <1>2, SubSeqProperties
<1>. HIDE DEF b
<1>4. ASSUME NEW i \in 1..k PROVE b[i] = text[i]
  <2>1. i \in 1 .. k - 1 + 1 /\ 1 + i - 1 = i
    OBVIOUS
  <2>. QED  BY <1>3, <2>1
<1>. QED  BY <1>3, <1>4 DEF b

LEMMA BeforeFacts ==
  ASSUME NEW X, NEW text \in Seq(X), NEW marks, NEW k, FirstMark(text, marks, k)
  PROVE  /\ Before(text, marks) \in Seq(X) /\ Len(Before(text, marks)) = k
         /\ \A i \in 1..k : Before(text, marks)[i] = text[i]
<1>1. Before(text, marks) = SubSeq(text, 1, k) /\ k \in Nat /\ k <= Len(text)
  BY BeforeIs DEF FirstMark
<1>. QED  BY <1>1, FirstWords

LEMMA FamilyFacts ==
  ASSUME NEW f \in Families
  PROVE  Len(f) = 1 /\ f[1] \notin Mark
  BY DEF Families, Mark

-----------------------------------------------------------------------------
(* A name of one word.                                                     *)
LEMMA OneWord ==
  ASSUME NEW X, NEW text \in Seq(X), NEW name,
         Len(name) = 1, name = <<name[1]>>, name \notin Families, name[1] \notin Mark,
         1 <= Len(text), text[1] = name[1], 1 < Len(text) => text[2] \in Mark
  PROVE  ParseModel(text) = name
<1>. DEFINE first == Before(text, {"space"})
            marks == {"dash", "comma"}
<1>0. Len(text) \in Nat
  BY LenProperties
<1>1. PICK j : FirstMark(text, {"space"}, j)
  BY <1>0, FirstMarkExists
<1>2. first \in Seq(X) /\ Len(first) = j /\ \A i \in 1..j : first[i] = text[i]
  BY <1>1, BeforeFacts
<1>. HIDE DEF first
<1>3. j \in Nat /\ 1 <= j /\ first[1] = name[1]
  <2>1. j # 0
    BY <1>0, <1>1 DEF FirstMark, Mark
  <2>. QED  BY <1>1, <1>2, <2>1 DEF FirstMark
<1>4. first \notin Families
  <2>1. ASSUME first \in Families PROVE FALSE
    <3>1. Len(first) = 1
      BY <2>1, FamilyFacts
    <3>2. <<first[1]>> = first
      BY <1>2, <3>1
    <3>3. first = name
      BY <1>3, <3>2
    <3>. QED  BY <2>1, <3>3
  <2>. QED  BY <2>1
<1>5. ParseModel(text) = Before(first, marks)
  BY <1>4 DEF ParseModel, WholeName, first
<1>6. FirstMark(first, marks, 1)
  <2>1. \A i \in 1..1 : first[i] \notin marks
    <3>1. name[1] \notin marks
      BY DEF Mark
    <3>. QED  BY <1>3, <3>1
  <2>2. ASSUME 1 < j PROVE first[2] \in marks
    <3>1. 2 \in 1..j /\ 1 < Len(text)
      BY <1>0, <1>1, <1>3, <2>2 DEF FirstMark
    <3>2. text[2] \in Mark /\ text[2] # "space" /\ first[2] = text[2]
      BY <1>1, <1>2, <3>1 DEF FirstMark
    <3>. QED  BY <3>2 DEF Mark
  <2>. QED  BY <1>2, <1>3, <2>1, <2>2 DEF FirstMark
<1>7. /\ Before(first, marks) \in Seq(X) /\ Len(Before(first, marks)) = 1
      /\ Before(first, marks)[1] = first[1]
  <2>1. /\ Before(first, marks) \in Seq(X) /\ Len(Before(first, marks)) = 1
        /\ \A i \in 1..1 : Before(first, marks)[i] = first[i]
    <3>. HIDE DEF marks
    <3>. QED  BY <1>2, <1>6, BeforeFacts
  <2>. QED  BY <2>1
<1>. HIDE DEF marks
<1>8. Before(first, marks) = <<Before(first, marks)[1]>>
  BY <1>7
<1>. QED  BY <1>3, <1>5, <1>7, <1>8

(* A name of two words.                                                    *)
LEMMA TwoWords ==
  ASSUME NEW X, NEW text \in Seq(X), NEW name,
         name = <<name[1], name[2]>>, <<name[1]>> \in Families, name[2] \notin Mark,
         3 <= Len(text), text[1] = name[1], text[2] = "space", text[3] = name[2],
         3 < Len(text) => text[4] \in Mark
  PROVE  ParseModel(text) = name
<1>. DEFINE first == Before(text, {"space"})
            marks == {"dash", "comma"}
            rest  == AfterFirst(text)
            next  == Before(rest, {"space"})
            whole == first \o next
<1>0. Len(text) \in Nat /\ name[1] \notin Mark
  <2>1. <<name[1]>>[1] = name[1]
    OBVIOUS
  <2>2. <<name[1]>>[1] \notin Mark
    BY FamilyFacts
  <2>. QED  BY <2>1, <2>2, LenProperties
<1>1. FirstMark(text, {"space"}, 1)
  <2>1. name[1] # "space"
    BY <1>0 DEF Mark
  <2>2. \A i \in 1..1 : text[i] \notin {"space"}
    BY <2>1
  <2>. QED  BY <1>0, <2>2 DEF FirstMark
<1>2. first \in Seq(X) /\ Len(first) = 1 /\ first[1] = name[1]
  <2>1. first \in Seq(X) /\ Len(first) = 1 /\ \A i \in 1..1 : first[i] = text[i]
    BY <1>1, BeforeFacts
  <2>. HIDE DEF first
  <2>. QED  BY <2>1
<1>3. rest = SubSeq(text, 3, Len(text))
  <2>1. Len(first) + 2 = 3
    BY SMTT(30), <1>2
  <2>. QED  BY <2>1 DEF AfterFirst
<1>. HIDE DEF first
<1>4. first \in Families
  <2>1. first = <<first[1]>>
    BY <1>2
  <2>. QED  BY <1>2, <2>1
<1>5. ParseModel(text) = Before(whole, marks)
  BY <1>4 DEF ParseModel, WholeName, first
<1>. HIDE DEF rest
<1>6. rest \in Seq(X) /\ Len(rest) = Len(text) - 2 /\ Len(rest) \in Nat
      /\ \A i \in 1 .. Len(text) - 2 : rest[i] = text[i + 2]
  <2>. DEFINE b == SubSeq(text, 3, Len(text))
  <2>1. \A i \in 3..Len(text) : text[i] \in X
    BY <1>0, ElementOfSeq
  <2>2. /\ b \in Seq(X) /\ Len(b) = IF 3 <= Len(text) THEN Len(text) - 3 + 1 ELSE 0
        /\ \A i \in 1 .. Len(text) - 3 + 1 : b[i] = text[3 + i - 1]
    BY <1>0, <2>1, SubSeqProperties
  <2>. HIDE DEF b
  <2>3. ASSUME NEW i \in 1 .. Len(text) - 2 PROVE b[i] = text[i + 2]
    <3>1. i \in 1 .. Len(text) - 3 + 1 /\ 3 + i - 1 = i + 2
      BY <1>0
    <3>. QED  BY <2>2, <3>1
  <2>. QED  BY <1>0, <1>3, <2>2, <2>3 DEF b
<1>7. PICK j : FirstMark(rest, {"space"}, j)
  BY <1>6, FirstMarkExists
<1>8. next \in Seq(X) /\ Len(next) = j /\ \A i \in 1..j : next[i] = rest[i]
  BY <1>6, <1>7, BeforeFacts
<1>. HIDE DEF next
<1>9. rest[1] = name[2] /\ (1 < Len(rest) => rest[2] \in Mark)
  <2>1. 1 \in 1 .. Len(text) - 2 /\ 1 + 2 = 3
    BY <1>0
  <2>2. rest[1] = name[2]
    BY <1>6, <2>1
  <2>3. ASSUME 1 < Len(rest) PROVE rest[2] \in Mark
    <3>1. 2 \in 1 .. Len(text) - 2 /\ 2 + 2 = 4 /\ 3 < Len(text)
      BY <1>0, <1>6, <2>3
    <3>. QED  BY <1>6, <3>1
  <2>. QED  BY <2>2, <2>3
<1>10. j \in Nat /\ 1 <= j /\ j <= Len(rest) /\ \A i \in 1..j : rest[i] # "space"
  <2>1. name[2] # "space"
    BY DEF Mark
  <2>2. 1 <= Len(rest)
    BY <1>0, <1>6
  <2>3. j # 0
    BY <1>6, <1>7, <1>9, <2>1, <2>2 DEF FirstMark
  <2>. QED  BY <1>7, <2>3 DEF FirstMark
<1>11. /\ whole \in Seq(X) /\ Len(whole) = 1 + j /\ whole[1] = name[1]
       /\ \A i \in 1..j : whole[1 + i] = rest[i]
  <2>1. whole \in Seq(X) /\ Len(whole) = Len(first) + Len(next)
        /\ \A i \in 1 .. Len(first) + Len(next) :
             whole[i] = IF i <= Len(first) THEN first[i] ELSE next[i - Len(first)]
    BY ZenonT(40), <1>2, <1>8, ConcatProperties
  <2>. HIDE DEF whole
  <2>2. whole[1] = name[1]
    BY <1>2, <1>8, <1>10, <2>1
  <2>3. ASSUME NEW i \in 1..j PROVE whole[1 + i] = rest[i]
    <3>1. 1 + i \in 1 .. Len(first) + Len(next) /\ ~(1 + i <= Len(first)) /\ (1 + i) - Len(first) = i
      BY <1>2, <1>8, <1>10
    <3>. QED  BY <1>8, <2>1, <3>1
  <2>. QED  BY <1>2, <1>8, <2>1, <2>2, <2>3
<1>. HIDE DEF whole
<1>12. whole[2] = name[2]
  <2>1. 1 \in 1..j /\ 1 + 1 = 2
    BY <1>10
  <2>. QED  BY <1>9, <1>11, <2>1
<1>13. FirstMark(whole, marks, 2)
  <2>1. ASSUME NEW i \in 1..2 PROVE whole[i] \notin marks
    <3>1. name[1] \notin marks /\ name[2] \notin marks
      BY <1>0 DEF Mark
    <3>2. i = 1 \/ i = 2
      OBVIOUS
    <3>. QED  BY <1>11, <1>12, <3>1, <3>2
  <2>2. ASSUME 2 < Len(whole) PROVE whole[3] \in marks
    <3>1. 2 \in 1..j /\ 1 + 2 = 3 /\ 1 < Len(rest)
      BY <1>6, <1>10, <1>11, <2>2
    <3>2. rest[2] \in Mark /\ rest[2] # "space" /\ whole[3] = rest[2]
      BY <1>9, <1>10, <1>11, <3>1
    <3>. QED  BY <3>2 DEF Mark
  <2>3. 2 <= Len(whole)
    BY <1>10, <1>11
  <2>. HIDE DEF marks
  <2>. QED  BY <2>1, <2>2, <2>3 DEF FirstMark
<1>. HIDE DEF marks
<1>. DEFINE b == Before(whole, marks)
<1>14. b \in Seq(X) /\ Len(b) = 2 /\ \A i \in 1..2 : b[i] = whole[i]
  <2>1. whole \in Seq(X)
    BY <1>11
  <2>. QED  BY SMTT(30), <1>13, <2>1, BeforeFacts
<1>. HIDE DEF b
<1>15. b = <<b[1], b[2]>>
  BY <1>14
<1>16. b[1] = name[1] /\ b[2] = name[2]
  BY <1>11, <1>12, <1>14
<1>. QED  BY <1>5, <1>15, <1>16 DEF b

(* NamesRecognised, in every state: parse_model() finds the name that the  *)
(* catalog has for a pump in any text that begins with it, a mark and then *)
(* anything.                                                               *)
THEOREM EveryNameRecognised == CodecSpec => []NamesRecognised
<1>1. ASSUME CodecInv PROVE NamesRecognised
  <2>1. CASE said = Nobody
    <3>. DEFINE X == {0}
    <3>1. <<>> \in Seq(X) /\ Len(<<>>) = 0
      BY EmptySeq
    <3>2. ASSUME NEW marks PROVE Before(<<>>, marks) = <<>>
      <4>1. FirstMark(<<>>, marks, 0)
        BY <3>1 DEF FirstMark
      <4>2. Before(<<>>, marks) = SubSeq(<<>>, 1, 0)
        BY <3>1, <4>1, BeforeIs
      <4>3. SubSeq(<<>>, 1, 0) = <<>>
        BY SubSeqEmpty
      <4>. QED  BY <4>2, <4>3
    <3>3. <<>> \notin Families
      BY <3>1, FamilyFacts
    <3>4. ParseModel(<<>>) = <<>>
      BY <3>2, <3>3 DEF ParseModel, WholeName
    <3>. QED  BY <2>1, <3>4 DEF NamesRecognised, Nobody
  <2>2. CASE said # Nobody
    <3>. DEFINE name == said.is
                text == said.text
    <3>1. /\ name \in Models /\ text \in Seq(Token)
          /\ LET k == Len(Spelling(name))
             IN  /\ k <= Len(text) /\ \A i \in 1..k : text[i] = Spelling(name)[i]
                 /\ Len(text) > k => text[k + 1] \in Mark
      BY <1>1, <2>2 DEF CodecInv, SaidInv, Announced
    <3>0. Len(text) \in Nat
      BY <3>1, LenProperties
    <3>. HIDE DEF name, text
    <3>2. CASE Len(name) = 1 /\ Spelling(name) = name /\ Len(Spelling(name)) = 1
               /\ name = <<name[1]>> /\ name \notin Families /\ name[1] \notin Mark
      <4>. DEFINE sp == Spelling(name)
      <4>1. sp[1] = name[1] /\ Len(sp) = 1
        BY <3>2
      <4>. HIDE DEF sp
      <4>2. 1 <= Len(text) /\ text[1] = sp[1] /\ (1 < Len(text) => text[2] \in Mark)
        BY <3>0, <3>1, <4>1 DEF sp
      <4>3. ParseModel(text) = name
        BY <3>1, <3>2, <4>1, <4>2, OneWord
      <4>. QED  BY <4>3 DEF NamesRecognised, name, text
    <3>3. CASE Len(name) = 2 /\ Spelling(name) = <<name[1], "space", name[2]>>
               /\ Len(Spelling(name)) = 3
               /\ name = <<name[1], name[2]>> /\ <<name[1]>> \in Families /\ name[2] \notin Mark
      <4>. DEFINE sp == Spelling(name)
      <4>1. sp[1] = name[1] /\ sp[2] = "space" /\ sp[3] = name[2] /\ Len(sp) = 3
        BY <3>3
      <4>. HIDE DEF sp
      <4>2. /\ 3 <= Len(text) /\ \A i \in 1..3 : text[i] = sp[i]
            /\ (3 < Len(text) => text[4] \in Mark)
        BY <3>0, <3>1, <4>1 DEF sp
      <4>3. text[1] = name[1] /\ text[2] = "space" /\ text[3] = name[2]
        BY <4>1, <4>2
      <4>4. ParseModel(text) = name
        BY <3>1, <3>3, <4>2, <4>3, TwoWords
      <4>. QED  BY <4>4 DEF NamesRecognised, name, text
    <3>. QED  BY <3>1, <3>2, <3>3, SpellingFacts
  <2>. QED  BY <2>1, <2>2
<1>. QED  BY <1>1, CodecTypes, PTL
=============================================================================
