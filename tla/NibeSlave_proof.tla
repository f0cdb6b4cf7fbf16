--------------------------- MODULE NibeSlave_proof ---------------------------
(***************************************************************************)
(* Proofs about NibeSlave, for every configuration of the YAML, catalog,   *)
(* capacity of the queue, number of requests and behaviour of the pump.    *)
(*                                                                         *)
(* The invariant has a part for each piece of state: the boot, the ring of *)
(* read requests, the write queue, and the bus.  Few actions touch more    *)
(* than one of them.                                                       *)
(***************************************************************************)
EXTENDS NibeSlave, Lemmas_proof

Phases == {"generated", "setup", "entities", "run"}
Cmds   == {"read", "write", "data", "model", "other"}
Fate   == {"none", "refused", "queued", "overflowed", "sent"}
WriteReq == [addr : Nat, raw : Request]

\* Registers join the ring only while modbus_ says NIBE.
BootInv ==
  /\ phase \in Phases
  /\ todo \in Seq(Registers)
  /\ modbus \in BOOLEAN
  /\ phase # "setup" => ~modbus
  /\ phase # "run" => age = [a \in Registers |-> 0]

\* reads_ holds what polled_ holds, each once.
RingInv ==
  /\ polled \in Seq(Registers)
  /\ reads \in Seq(Registers)
  /\ Len(reads) = Len(polled)
  /\ \A a \in Registers : Occurs(a, polled) <=> Occurs(a, reads)
  /\ \A i, j \in DOMAIN reads : reads[i] = reads[j] => i = j

\* A register has waited for no longer than it has come forward.
AgeInv ==
  /\ age \in [Registers -> Nat]
  /\ \A i \in DOMAIN reads : age[reads[i]] <= Len(reads) - i

QueueInv ==
  /\ writes \in Seq(WriteReq)
  /\ Len(writes) <= QueueCap
  /\ fate \in [Request -> Fate]
  /\ sends \in [Request -> Nat]
  /\ \A w \in Request : fate[w] \in {"none", "queued"} => sends[w] = 0
  /\ Mirrors(writes, Request, fate)

FrameOK(f) == f.cmd \in Cmds /\ (f.cmd = "model" => f.data \in Models)

BusInv ==
  /\ \E S : rx \in Seq(S)
  /\ \A i \in DOMAIN rx : FrameOK(rx[i])
  /\ model \in Models
  /\ saved \in [mode : {0}, model : Models]
  /\ seen \in BOOLEAN
  /\ slot \in {"none", "foreign"} \cup Cmds

Inv ==
  /\ BootInv
  /\ RingInv
  /\ AgeInv
  /\ QueueInv
  /\ BusInv

-----------------------------------------------------------------------------
(* What RotatedPast and Rotated do to a ring: r is q turned by k.          *)
Turned(q, r, k) ==
  /\ Len(r) = Len(q)
  /\ \A j \in 1..Len(q) : r[j] = q[IF j + k <= Len(q) THEN j + k ELSE j + k - Len(q)]

LEMMA RotatedPastTurns ==
  ASSUME NEW S, NEW q \in Seq(S), NEW k \in 1..Len(q)
  PROVE  RotatedPast(k, q) \in Seq(S) /\ Turned(q, RotatedPast(k, q), k)
<1>. DEFINE s == SubSeq(q, k + 1, Len(q))
            t == SubSeq(q, 1, k)
<1>1. Len(q) \in Nat /\ k \in Nat
      /\ \A i \in 1..Len(q) : q[i] \in S
  BY LenProperties, ElementOfSeq
<1>2. /\ s \in Seq(S) /\ Len(s) = Len(q) - k
      /\ \A i \in 1..(Len(q) - k) : s[i] = q[i + k]
  <2>1. /\ s \in Seq(S)
        /\ Len(s) = IF k + 1 <= Len(q) THEN Len(q) - (k + 1) + 1 ELSE 0
        /\ \A i \in 1..(Len(q) - (k + 1) + 1) : s[i] = q[(k + 1) + i - 1]
    BY <1>1, SubSeqProperties
  <2>2. \A i \in 1..(Len(q) - k) : (k + 1) + i - 1 = i + k
    BY <1>1
  <2>. HIDE DEF s
  <2>. QED  BY <1>1, <2>1, <2>2
<1>3. t \in Seq(S) /\ Len(t) = k /\ \A i \in 1..k : t[i] = q[i]
  <2>1. /\ t \in Seq(S)
        /\ Len(t) = IF 1 <= k THEN k - 1 + 1 ELSE 0
        /\ \A i \in 1..(k - 1 + 1) : t[i] = q[1 + i - 1]
    BY <1>1, SubSeqProperties
  <2>. HIDE DEF t
  <2>. QED  BY <1>1, <2>1
<1>. HIDE DEF s, t
<1>4. /\ s \o t \in Seq(S) /\ Len(s \o t) = Len(q)
      /\ \A j \in 1..Len(q) : (s \o t)[j] = IF j <= Len(s) THEN s[j] ELSE t[j - Len(s)]
  <2>1. /\ s \o t \in Seq(S) /\ Len(s \o t) = Len(s) + Len(t)
        /\ \A j \in 1..(Len(s) + Len(t)) :
             (s \o t)[j] = IF j <= Len(s) THEN s[j] ELSE t[j - Len(s)]
    BY <1>2, <1>3, ConcatProperties
  <2>2. Len(s) + Len(t) = Len(q)
    BY <1>1, <1>2, <1>3
  <2>. QED  BY <2>1, <2>2
<1>5. ASSUME NEW j \in 1..Len(q)
      PROVE  (s \o t)[j] = q[IF j + k <= Len(q) THEN j + k ELSE j + k - Len(q)]
  <2>1. CASE j <= Len(q) - k
    <3>1. (s \o t)[j] = s[j] /\ s[j] = q[j + k] /\ j + k <= Len(q)
      BY <1>1, <1>2, <1>4, <2>1
    <3>. QED  BY <3>1
  <2>2. CASE j > Len(q) - k
    <3>1. (s \o t)[j] = t[j - Len(s)]
      BY <1>1, <1>2, <1>4, <2>2
    <3>2. j - Len(s) = j + k - Len(q) /\ j - Len(s) \in 1..k /\ ~(j + k <= Len(q))
      BY <1>1, <1>2, <2>2
    <3>. QED  BY <1>3, <3>1, <3>2
  <2>3. j <= Len(q) - k \/ j > Len(q) - k
    BY <1>1
  <2>. QED  BY <2>1, <2>2, <2>3, Zenon
<1>6. Turned(q, s \o t, k)
  BY <1>4, <1>5 DEF Turned
<1>. QED  BY <1>4, <1>6 DEF RotatedPast, s, t

LEMMA RotatedTurns ==
  ASSUME NEW S, NEW q \in Seq(S), q # <<>>
  PROVE  Rotated(q) \in Seq(S) /\ Turned(q, Rotated(q), 1)
<1>1. /\ Tail(q) \in Seq(S) /\ Len(Tail(q)) = Len(q) - 1
      /\ \A i \in 1..Len(Tail(q)) : Tail(q)[i] = q[i + 1]
      /\ Head(q) = q[1] /\ Head(q) \in S /\ Len(q) \in Nat \ {0}
  BY TailFacts
<1>. DEFINE r == Append(Tail(q), Head(q))
<1>2. /\ r \in Seq(S) /\ Len(r) = Len(q)
      /\ \A i \in 1..(Len(q) - 1) : r[i] = Tail(q)[i]
      /\ r[Len(q)] = q[1]
  BY <1>1, AppendFacts
<1>. HIDE DEF r
<1>3. Turned(q, r, 1)
  BY <1>1, <1>2 DEF Turned
<1>. QED  BY <1>2, <1>3 DEF Rotated, r

(* Turning a ring changes neither what it holds nor how often.             *)
LEMMA TurningKeeps ==
  ASSUME NEW S, NEW q \in Seq(S), NEW r \in Seq(S), NEW k \in 1..Len(q),
         Turned(q, r, k)
  PROVE  /\ \A a : Occurs(a, q) <=> Occurs(a, r)
         /\ (\A i, j \in DOMAIN q : q[i] = q[j] => i = j)
              => \A i, j \in DOMAIN r : r[i] = r[j] => i = j
<1>. DEFINE at(j) == IF j + k <= Len(q) THEN j + k ELSE j + k - Len(q)
            from(i) == IF i > k THEN i - k ELSE i - k + Len(q)
<1>1. /\ Len(q) \in Nat /\ DOMAIN q = 1..Len(q) /\ DOMAIN r = 1..Len(q)
      /\ \A j \in 1..Len(q) : r[j] = q[at(j)]
  BY LenProperties DEF Turned
<1>2. /\ \A j \in 1..Len(q) : at(j) \in 1..Len(q)
      /\ \A i, j \in 1..Len(q) : at(i) = at(j) => i = j
      /\ \A i \in 1..Len(q) : from(i) \in 1..Len(q) /\ at(from(i)) = i
  BY <1>1
<1>. HIDE DEF at, from
<1>3. ASSUME NEW a PROVE Occurs(a, q) <=> Occurs(a, r)
  <2>1. ASSUME NEW i \in 1..Len(q), q[i] = a PROVE Occurs(a, r)
    <3>1. from(i) \in 1..Len(q) /\ r[from(i)] = a
      BY <1>1, <1>2, <2>1
    <3>. QED  BY <1>1, <3>1 DEF Occurs
  <2>2. ASSUME NEW j \in 1..Len(q), r[j] = a PROVE Occurs(a, q)
    BY <1>1, <1>2, <2>2 DEF Occurs
  <2>. QED  BY <1>1, <2>1, <2>2 DEF Occurs
<1>4. ASSUME \A i, j \in DOMAIN q : q[i] = q[j] => i = j,
             NEW i \in 1..Len(q), NEW j \in 1..Len(q), r[i] = r[j]
      PROVE  i = j
  BY <1>1, <1>2, <1>4
<1>. QED  BY <1>1, <1>3, <1>4

-----------------------------------------------------------------------------
(* The ring of read requests.                                              *)
LEMMA Retyped ==
  ASSUME NEW S, NEW T, NEW q \in Seq(S), \A i \in DOMAIN q : q[i] \in T
  PROVE  q \in Seq(T)
<1>1. Len(q) \in Nat /\ \A i \in 1..Len(q) : q[i] \in T
  BY LenProperties
<1>2. SubSeq(q, 1, Len(q)) \in Seq(T)
  BY <1>1, SubSeqProperties
<1>. QED  BY <1>2, SubSeqFull

LEMMA Configured ==
  ExtraPoll \in Seq(Registers) /\ Entities \in Seq(Registers) /\ Registers \subseteq Nat
<1>1. ExtraPoll \in Seq(Nat) /\ Entities \in Seq(Nat)
  BY SlaveAssumption
<1>2. /\ \A i \in DOMAIN ExtraPoll : ExtraPoll[i] \in Registers
      /\ \A i \in DOMAIN Entities : Entities[i] \in Registers
  BY DEF Registers
<1>3. Registers \subseteq Nat
  BY <1>1, LenProperties, ElementOfSeq DEF Registers
<1>. QED  BY <1>1, <1>2, <1>3, Retyped

LEMMA AppendOccurs ==
  ASSUME NEW S, NEW q \in Seq(S), NEW a \in S
  PROVE  \A b : Occurs(b, Append(q, a)) <=> Occurs(b, q) \/ b = a
<1>. DEFINE p == Append(q, a)
<1>1. /\ p \in Seq(S) /\ Len(p) = Len(q) + 1 /\ Len(q) \in Nat
      /\ DOMAIN p = 1..Len(p) /\ DOMAIN q = 1..Len(q)
      /\ \A i \in 1..Len(q) : p[i] = q[i]
      /\ p[Len(q) + 1] = a
  BY AppendFacts, LenProperties
<1>. HIDE DEF p
<1>2. \A i \in 1..Len(p) : i \in 1..Len(q) \/ i = Len(q) + 1
  BY <1>1
<1>3. Len(q) + 1 \in 1..Len(p) /\ \A i \in 1..Len(q) : i \in 1..Len(p)
  BY <1>1
<1>4. \A b : Occurs(b, p) <=> Occurs(b, q) \/ b = a
  BY <1>1, <1>2, <1>3 DEF Occurs
<1>. QED  BY <1>4 DEF p

(* ensure_polled()                                                         *)
LEMMA EnsurePolledStep ==
  ASSUME RingInv, ~modbus, NEW a \in Registers, EnsurePolled(a)
  PROVE  RingInv'
<1>1. /\ polled \in Seq(Registers) /\ reads \in Seq(Registers)
      /\ Len(reads) = Len(polled) /\ Len(reads) \in Nat
      /\ DOMAIN reads = 1..Len(reads) /\ DOMAIN polled = 1..Len(polled)
      /\ \A b \in Registers : Occurs(b, polled) <=> Occurs(b, reads)
      /\ \A i, j \in DOMAIN reads : reads[i] = reads[j] => i = j
  BY LenProperties DEF RingInv
<1>2. CASE Occurs(a, polled)
  <2>1. Occurs(a, reads) /\ polled' = polled
    BY <1>1, <1>2 DEF EnsurePolled
  <2>2. PICK i \in DOMAIN reads : reads' = RotatedPast(i, reads)
    BY <2>1 DEF EnsurePolled
  <2>3. reads' \in Seq(Registers) /\ Turned(reads, reads', i)
    BY <1>1, <2>2, RotatedPastTurns
  <2>4. /\ \A b : Occurs(b, reads) <=> Occurs(b, reads')
        /\ \A k, l \in DOMAIN reads' : reads'[k] = reads'[l] => k = l
    BY <1>1, <2>3, TurningKeeps
  <2>. QED  BY <1>1, <2>1, <2>3, <2>4 DEF RingInv, Turned
<1>3. CASE ~Occurs(a, polled)
  <2>1. /\ polled' = Append(polled, a) /\ reads' = Append(reads, a)
        /\ ~Occurs(a, reads)
    BY <1>1, <1>3 DEF EnsurePolled
  <2>2. /\ polled' \in Seq(Registers) /\ Len(polled') = Len(polled) + 1
        /\ DOMAIN polled' = 1..(Len(polled) + 1)
        /\ \A i \in 1..Len(polled) : polled'[i] = polled[i]
        /\ polled'[Len(polled) + 1] = a
    BY <1>1, <2>1, AppendFacts, LenProperties
  <2>3. /\ reads' \in Seq(Registers) /\ Len(reads') = Len(reads) + 1
        /\ DOMAIN reads' = 1..(Len(reads) + 1)
        /\ \A i \in 1..Len(reads) : reads'[i] = reads[i]
        /\ reads'[Len(reads) + 1] = a
    BY <1>1, <2>1, AppendFacts, LenProperties
  <2>4. \A b \in Registers : Occurs(b, polled') <=> Occurs(b, polled) \/ b = a
    BY <1>1, <2>1, AppendOccurs
  <2>5. \A b \in Registers : Occurs(b, reads') <=> Occurs(b, reads) \/ b = a
    BY <1>1, <2>1, AppendOccurs
  <2>6. ASSUME NEW i \in DOMAIN reads', NEW j \in DOMAIN reads',
               reads'[i] = reads'[j]
        PROVE  i = j
    <3>1. \A k \in 1..Len(reads) : reads[k] # a
      BY <1>1, <2>1 DEF Occurs
    <3>. QED  BY <1>1, <2>3, <2>6, <3>1
  <2>. QED  BY <1>1, <2>2, <2>3, <2>4, <2>5, <2>6 DEF RingInv
<1>. QED  BY <1>2, <1>3

(* A read poll: the front register has waited long enough, the others come *)
(* one forward.                                                            *)
LEMMA ReadPollStep ==
  ASSUME RingInv, AgeInv, NEW f, AnswerReadPoll(f), UNCHANGED polled
  PROVE  RingInv' /\ AgeInv'
<1>1. CASE reads = <<>>
  <2>1. UNCHANGED <<reads, age>>
    BY <1>1 DEF AnswerReadPoll
  <2>. QED  BY <2>1 DEF RingInv, AgeInv, Occurs
<1>2. CASE reads # <<>>
  <2>1. /\ reads' = Rotated(reads)
        /\ age' = [a \in DOMAIN age |-> IF a = Head(reads) THEN 0 ELSE Aged(age[a])]
    BY <1>2 DEF AnswerReadPoll
  <2>2. /\ reads \in Seq(Registers) /\ Len(reads) \in Nat \ {0}
        /\ DOMAIN reads = 1..Len(reads) /\ Head(reads) = reads[1]
        /\ \A i \in 1..Len(reads) : reads[i] \in Registers
        /\ \A i, j \in 1..Len(reads) : reads[i] = reads[j] => i = j
        /\ age \in [Registers -> Nat]
        /\ \A i \in 1..Len(reads) : age[reads[i]] <= Len(reads) - i
    BY SMTT(30), <1>2, TailFacts, LenProperties, ElementOfSeq DEF RingInv, AgeInv
  <2>3. reads' \in Seq(Registers) /\ Turned(reads, reads', 1)
    BY <1>2, <2>1, <2>2, RotatedTurns
  <2>4. /\ \A b : Occurs(b, reads) <=> Occurs(b, reads')
        /\ \A k, l \in DOMAIN reads' : reads'[k] = reads'[l] => k = l
    <3>1. 1 \in 1..Len(reads)
      BY <2>2
    <3>2. \A i, j \in DOMAIN reads : reads[i] = reads[j] => i = j
      BY DEF RingInv
    <3>. QED  BY <2>2, <2>3, <3>1, <3>2, TurningKeeps
  <2>5. RingInv'
    BY <2>3, <2>4 DEF RingInv, Turned
  <2>6. \A n \in Nat : Aged(n) \in Nat /\ (n < Len(reads) => Aged(n) = n + 1)
    BY <2>2 DEF Aged
  <2>7. age' \in [Registers -> Nat]
    BY <2>1, <2>2, <2>6
  <2>8. ASSUME NEW i \in DOMAIN reads' PROVE age'[reads'[i]] <= Len(reads') - i
    <3>1. i \in 1..Len(reads) /\ Len(reads') = Len(reads)
      BY <2>3, LenProperties DEF Turned
    <3>2. CASE i = Len(reads)
      <4>0. ~(i + 1 <= Len(reads)) /\ i + 1 - Len(reads) = 1
        BY <2>2, <3>2
      <4>1. reads'[i] = reads[1]
        BY <2>3, <3>1, <4>0 DEF Turned
      <4>2. age'[reads'[i]] = 0
        BY <2>1, <2>2, <4>1
      <4>. QED  BY <2>2, <3>1, <3>2, <4>2
    <3>3. CASE i # Len(reads)
      <4>1. i + 1 \in 1..Len(reads) /\ 1 \in 1..Len(reads) /\ i + 1 # 1
        BY <2>2, <3>1, <3>3
      <4>2. reads'[i] = reads[i + 1] /\ reads[i + 1] # reads[1]
        BY <2>2, <2>3, <3>1, <4>1 DEF Turned
      <4>3. age[reads[i + 1]] \in Nat /\ age[reads[i + 1]] <= Len(reads) - (i + 1)
        BY <2>2, <4>1
      <4>4. age'[reads'[i]] = Aged(age[reads[i + 1]])
        BY <2>1, <2>2, <4>1, <4>2
      <4>5. Aged(age[reads[i + 1]]) = age[reads[i + 1]] + 1
        BY SMTT(30), <2>2, <2>6, <4>1, <4>3
      <4>. QED  BY SMTT(30), <2>2, <3>1, <4>3, <4>4, <4>5
    <3>. QED  BY <3>2, <3>3
  <2>. QED  BY <2>5, <2>7, <2>8 DEF AgeInv
<1>. QED  BY <1>1, <1>2

(* A register that becomes polled during the boot.                         *)
LEMMA BootRegisterStep ==
  ASSUME Inv, SetPollRegisters \/ CreateEntity
  PROVE  BootInv' /\ RingInv' /\ AgeInv'
<1>1. /\ todo # <<>> /\ EnsurePolled(Head(todo)) /\ todo' = Tail(todo)
      /\ phase \in {"generated", "entities"}
      /\ UNCHANGED <<phase, modbus, age>>
  BY DEF SetPollRegisters, CreateEntity
<1>2. Head(todo) \in Registers /\ todo' \in Seq(Registers) /\ ~modbus
      /\ age = [a \in Registers |-> 0]
  BY <1>1, TailFacts DEF Inv, BootInv
<1>3. RingInv'
  BY <1>1, <1>2, EnsurePolledStep DEF Inv
<1>4. BootInv'
  BY <1>1, <1>2 DEF Inv, BootInv
<1>5. AgeInv'
  <2>1. /\ reads' \in Seq(Registers) /\ DOMAIN reads' = 1..Len(reads')
        /\ Len(reads') \in Nat
    BY <1>3, LenProperties DEF RingInv
  <2>2. \A i \in DOMAIN reads' : age'[reads'[i]] = 0
    BY <1>1, <1>2, <2>1, ElementOfSeq
  <2>. QED  BY <1>1, <1>2, <2>1, <2>2 DEF AgeInv
<1>. QED  BY <1>3, <1>4, <1>5

LEMMA QuietRegisters ==
  ASSUME Inv, UNCHANGED <<phase, todo, modbus, polled, reads, age>>
  PROVE  BootInv' /\ RingInv' /\ AgeInv'
  BY DEF Inv, BootInv, RingInv, AgeInv, Occurs

LEMMA RegistersNext ==
  ASSUME Inv, [Next]_vars
  PROVE  BootInv' /\ RingInv' /\ AgeInv'
<1>1. CASE SetPollRegisters \/ CreateEntity
  BY <1>1, BootRegisterStep
<1>2. CASE SetProtocol
  BY <1>2, SlaveAssumption
  DEF SetProtocol, registers, Inv, BootInv, RingInv, AgeInv, Occurs, Phases
<1>3. CASE ApplyRuntimeMode
  BY <1>3, Configured
  DEF ApplyRuntimeMode, registers, Inv, BootInv, RingInv, AgeInv, Occurs, Phases
<1>4. CASE FinishSetup
  BY <1>4 DEF FinishSetup, registers, Inv, BootInv, RingInv, AgeInv, Occurs, Phases
<1>5. CASE OnFrame
  <2>1. phase = "run" /\ UNCHANGED <<phase, todo, modbus, polled>>
    BY <1>5 DEF OnFrame, boot
  <2>2. BootInv'
    BY <2>1 DEF Inv, BootInv
  <2>3. CASE \E f : AnswerReadPoll(f)
    BY <2>1, <2>2, <2>3, ReadPollStep DEF Inv
  <2>4. CASE UNCHANGED <<reads, age>>
    BY <2>1, <2>4, QuietRegisters
  <2>. QED  BY <1>5, <2>3, <2>4
            DEF OnFrame, AnswerWritePoll, HandleValue, HandleModel, AnswerOther, HearForeign
<1>6. CASE (\E w \in Request, a \in WriteAddrs : UserWrite(w, a)) \/ Pump \/ UNCHANGED vars
  <2>1. UNCHANGED <<phase, todo, modbus, polled, reads, age>>
    BY <1>6 DEF UserWrite, Pump, PumpPollsReads, PumpPollsWrites, PumpSendsOther,
                PumpAnnounces, PumpSendsValue, PumpTalksToOthers, PumpStopsWaiting,
                Send, boot, registers, vars
  <2>. QED  BY <2>1, QuietRegisters
<1>. QED  BY <1>1, <1>2, <1>3, <1>4, <1>5, <1>6 DEF Next, Boot

-----------------------------------------------------------------------------
(* The write queue, and what it promises.                                  *)
LEMMA RequestsAreIntegers == Request \in SUBSET Int
  BY DEF Request

LEMMA SameWaiting ==
  ASSUME NEW f
  PROVE  Promise!Waiting(f) = WaitingOf(Request, f)
  BY DEF Promise!Waiting, Promise!Request, WaitingOf, Request

(* WriteService's own Cardinality is the same operator.                    *)
LEMMA SameCount ==
  ASSUME NEW S
  PROVE  Promise!Cardinality(S) = Cardinality(S)
  BY DEF Promise!Cardinality, Cardinality

LEMMA FrontIsPromised ==
  ASSUME QueueInv, writes # <<>>
  PROVE  /\ Head(writes).raw \in Request
         /\ fate[Head(writes).raw] = "queued"
         /\ Promise!IsOldest(Head(writes).raw, fate)
<1>1. /\ Head(writes).raw \in WaitingOf(Request, fate)
      /\ \A v \in WaitingOf(Request, fate) : Head(writes).raw <= v
  BY FrontIsOldest, RequestsAreIntegers DEF QueueInv
<1>. QED  BY <1>1, SameWaiting DEF Promise!IsOldest, WaitingOf

(* queue_write()                                                           *)
LEMMA QueueWriteStep ==
  ASSUME QueueInv, NEW w \in Request, NEW a \in Nat, QueueWrite(w, a)
  PROVE  QueueInv' /\ (Promise!Refuse(w) \/ Promise!Accept(w))
<1>. DEFINE x == [addr |-> a, raw |-> w]
<1>0. /\ writes \in Seq(WriteReq) /\ Len(writes) \in Nat
      /\ Len(writes) <= QueueCap
      /\ fate \in [Request -> Fate] /\ sends \in [Request -> Nat]
      /\ \A v \in Request : fate[v] \in {"none", "queued"} => sends[v] = 0
      /\ Mirrors(writes, Request, fate)
      /\ QueueCap \in Nat \ {0}
  BY LenProperties, SlaveAssumption DEF QueueInv
<1>1. /\ Fresh(w, Request, fate) /\ Promise!IsNext(w)
      /\ sends' = sends /\ fate[w] = "none"
  BY DEF QueueWrite, IsNext, Fresh, Promise!IsNext, Promise!Request, Request
<1>2. x \in WriteReq /\ x.raw = w
  BY DEF WriteReq
<1>3. Promise!Cardinality(Promise!Waiting(fate)) = Len(writes)
  BY <1>0, LengthCounts, SameWaiting, SameCount, RequestsAreIntegers
<1>4. CASE writes' = writes /\ fate' = [fate EXCEPT ![w] = "refused"]
  <2>1. Mirrors(writes', Request, fate')
    BY <1>0, <1>1, <1>4, RefuseMirrors, RequestsAreIntegers
  <2>2. Promise!Refuse(w)
    BY <1>1, <1>4 DEF Promise!Refuse
  <2>3. /\ fate' \in [Request -> Fate]
        /\ \A v \in Request : fate'[v] \in {"none", "queued"} => sends'[v] = 0
    BY <1>0, <1>1, <1>4 DEF Fate
  <2>. QED  BY <1>0, <1>1, <1>4, <2>1, <2>2, <2>3 DEF QueueInv
<1>5. CASE /\ Len(writes) < QueueCap
           /\ writes' = Append(writes, x)
           /\ fate' = [fate EXCEPT ![w] = "queued"]
  <2>1. Mirrors(writes', Request, fate')
    <3>. HIDE DEF x
    <3>. QED  BY <1>0, <1>1, <1>2, <1>5, PushMirrors, RequestsAreIntegers
  <2>2. writes' \in Seq(WriteReq) /\ Len(writes') <= QueueCap
    <3>. HIDE DEF x
    <3>. QED  BY <1>0, <1>2, <1>5, AppendFacts
  <2>3. Promise!Accept(w)
    BY <1>1, <1>3, <1>5 DEF Promise!Accept
  <2>4. /\ fate' \in [Request -> Fate]
        /\ \A v \in Request : fate'[v] \in {"none", "queued"} => sends'[v] = 0
    BY <1>0, <1>1, <1>5 DEF Fate
  <2>. QED  BY <1>0, <1>1, <2>1, <2>2, <2>3, <2>4 DEF QueueInv
<1>6. CASE /\ Len(writes) >= QueueCap
           /\ writes' = Append(Tail(writes), x)
           /\ fate' = [fate EXCEPT ![w] = "queued", ![Head(writes).raw] = "overflowed"]
  <2>. DEFINE v == Head(writes).raw
              f == [fate EXCEPT ![v] = "overflowed"]
  <2>1. writes # <<>> /\ Len(writes) = QueueCap
    BY <1>0, <1>6, EmptySeq
  <2>2. v \in Request /\ Promise!IsOldest(v, fate)
    BY <2>1, FrontIsPromised
  <2>3. v # w /\ Mirrors(Append(Tail(writes), x), Request, [f EXCEPT ![w] = "queued"])
    <3>1. /\ Request \in SUBSET Int /\ "overflowed" \in Fate
          /\ writes \in Seq(WriteReq) /\ writes # <<>>
          /\ fate \in [Request -> Fate] /\ Mirrors(writes, Request, fate)
          /\ Fresh(w, Request, fate)
      BY <1>0, <1>1, <2>1, RequestsAreIntegers DEF Fate
    <3>. HIDE DEF x
    <3>. QED  BY <1>2, <3>1, OverflowMirrors
  <2>4. /\ fate' = [fate EXCEPT ![v] = "overflowed", ![w] = "queued"]
        /\ fate' = [f EXCEPT ![w] = "queued"]
        /\ fate' \in [Request -> Fate]
    <3>. HIDE DEF v
    <3>. QED  BY <1>0, <1>6, <2>2, <2>3 DEF v, Fate
  <2>5. Mirrors(writes', Request, fate')
    <3>. HIDE DEF x, f
    <3>. QED  BY <1>6, <2>3, <2>4
  <2>6. writes' \in Seq(WriteReq) /\ Len(writes') <= QueueCap
    <3>. HIDE DEF x
    <3>. QED  BY <1>0, <1>2, <1>6, <2>1, TailFacts, AppendFacts
  <2>7. Promise!Accept(w)
    <3>. HIDE DEF v
    <3>. QED  BY <1>1, <1>3, <2>1, <2>2, <2>4
              DEF Promise!Accept, Promise!Request, Request
  <2>8. \A u \in Request : fate'[u] \in {"none", "queued"} => sends'[u] = 0
    <3>. HIDE DEF v
    <3>. QED  BY <1>0, <1>1, <2>2, <2>4
  <2>. QED  BY <1>0, <1>1, <2>4, <2>5, <2>6, <2>7, <2>8 DEF QueueInv
<1>. QED  BY <1>0, <1>4, <1>5, <1>6 DEF QueueWrite

LEMMA QuietQueue ==
  ASSUME QueueInv, UNCHANGED requests
  PROVE  QueueInv' /\ UNCHANGED Promise!vars
  BY DEF requests, QueueInv, Mirrors, WaitingOf, Promise!vars

(* A write poll: the oldest request is sent and forgotten.                 *)
LEMMA WritePollStep ==
  ASSUME QueueInv, NEW f, AnswerWritePoll(f)
  PROVE  QueueInv' /\ (Promise!TransmitAndConclude \/ UNCHANGED Promise!vars)
<1>1. CASE writes = <<>>
  BY <1>1, QuietQueue DEF AnswerWritePoll
<1>2. CASE writes # <<>>
  <2>. DEFINE w == Head(writes).raw
  <2>1. /\ writes' = Tail(writes)
        /\ fate' = [fate EXCEPT ![w] = "sent"]
        /\ sends' = [sends EXCEPT ![w] = @ + 1]
    BY <1>2 DEF AnswerWritePoll
  <2>2. /\ writes \in Seq(WriteReq) /\ Len(writes) <= QueueCap
        /\ fate \in [Request -> Fate] /\ sends \in [Request -> Nat]
        /\ \A v \in Request : fate[v] \in {"none", "queued"} => sends[v] = 0
        /\ Mirrors(writes, Request, fate)
        /\ QueueCap \in Nat \ {0}
    BY SlaveAssumption DEF QueueInv
  <2>3. w \in Request /\ fate[w] = "queued" /\ Promise!IsOldest(w, fate)
    BY <1>2, FrontIsPromised
  <2>4. Mirrors(writes', Request, fate')
    BY <1>2, <2>1, <2>2, PopMirrors, RequestsAreIntegers
  <2>5. writes' \in Seq(WriteReq) /\ Len(writes') <= QueueCap
    BY <1>2, <2>1, <2>2, TailFacts
  <2>. HIDE DEF w
  <2>6. /\ fate' \in [Request -> Fate] /\ sends' \in [Request -> Nat]
        /\ \A v \in Request : fate'[v] \in {"none", "queued"} => sends'[v] = 0
    BY <2>1, <2>2, <2>3 DEF Fate
  <2>7. Promise!Conclude(fate') /\ Promise!Transmit(fate)
    <3>1. "sent" \in Promise!Finished /\ w \in Promise!Request
      BY <2>3 DEF Promise!Finished, Promise!Request, Request
    <3>2. sends[w] < 1
      BY <2>2, <2>3
    <3>. QED  BY <2>1, <2>3, <3>1, <3>2 DEF Promise!Conclude, Promise!Transmit
  <2>. QED  BY <2>4, <2>5, <2>6, <2>7 DEF QueueInv, Promise!TransmitAndConclude
<1>. QED  BY <1>1, <1>2

LEMMA QueueNext ==
  ASSUME Inv, [Next]_vars
  PROVE  QueueInv' /\ [Promise!Next]_(Promise!vars)
<1>0. QueueInv /\ Promise!Request = Request
  BY DEF Inv, Promise!Request, Request
<1>1. CASE FinishSetup
  <2>1. 1 \in Request /\ AlarmReset \in Nat /\ QueueWrite(1, AlarmReset)
    BY <1>1, SlaveAssumption DEF FinishSetup, Request, AlarmReset
  <2>. QED  BY <1>0, <2>1, QueueWriteStep DEF Promise!Next
<1>2. CASE \E w \in Request, a \in WriteAddrs : UserWrite(w, a)
  BY <1>0, <1>2, QueueWriteStep, SlaveAssumption DEF UserWrite, Promise!Next
<1>3. CASE OnFrame
  <2>1. (\E f : AnswerWritePoll(f)) \/ UNCHANGED requests
    BY <1>3 DEF OnFrame, AnswerReadPoll, HandleValue, HandleModel, AnswerOther, HearForeign
  <2>. QED  BY <1>0, <2>1, WritePollStep, QuietQueue DEF Promise!Next
<1>4. CASE \/ SetPollRegisters \/ CreateEntity \/ SetProtocol \/ ApplyRuntimeMode
           \/ Pump \/ UNCHANGED vars
  <2>1. UNCHANGED requests
    BY <1>4 DEF SetPollRegisters, CreateEntity, SetProtocol, ApplyRuntimeMode, Pump,
                PumpPollsReads, PumpPollsWrites, PumpSendsOther, PumpAnnounces,
                PumpSendsValue, PumpTalksToOthers, PumpStopsWaiting, Send, vars
  <2>. QED  BY <1>0, <2>1, QuietQueue
<1>. QED  BY <1>1, <1>2, <1>3, <1>4 DEF Next, Boot

-----------------------------------------------------------------------------
(* The bus.                                                                *)
LEMMA ReceivedFrames ==
  ASSUME BusInv, rx # <<>>
  PROVE  /\ FrameOK(Head(rx))
         /\ \E S : Tail(rx) \in Seq(S)
         /\ \A i \in DOMAIN Tail(rx) : FrameOK(Tail(rx)[i])
<1>1. PICK S : rx \in Seq(S)
  BY DEF BusInv
<1>2. /\ Tail(rx) \in Seq(S) /\ Len(Tail(rx)) = Len(rx) - 1
      /\ \A i \in 1..Len(Tail(rx)) : Tail(rx)[i] = rx[i + 1]
      /\ Head(rx) = rx[1] /\ Len(rx) \in Nat \ {0}
      /\ DOMAIN rx = 1..Len(rx) /\ DOMAIN Tail(rx) = 1..Len(Tail(rx))
  BY <1>1, TailFacts, LenProperties
<1>3. \A i \in 1..Len(rx) : FrameOK(rx[i])
  BY <1>2 DEF BusInv
<1>4. \A i \in DOMAIN Tail(rx) : i + 1 \in 1..Len(rx) /\ Tail(rx)[i] = rx[i + 1]
  BY <1>2
<1>5. 1 \in 1..Len(rx)
  BY <1>2
<1>. QED  BY <1>2, <1>3, <1>4, <1>5

(* on_frame_(), whatever the frame.                                        *)
LEMMA OnFrameBus ==
  ASSUME Inv, OnFrame
  PROVE  BusInv'
<1>. DEFINE f == Head(rx)
<1>1. /\ FrameOK(f) /\ \E S : rx' \in Seq(S)
      /\ \A i \in DOMAIN rx' : FrameOK(rx'[i])
      /\ seen' \in BOOLEAN
  BY ReceivedFrames DEF Inv, OnFrame, BusInv
<1>2. /\ model' \in Models /\ saved' \in [mode : {0}, model : Models]
      /\ slot' \in {"none", slot}
  <2>1. CASE AnswerReadPoll(f) \/ AnswerWritePoll(f) \/ HandleValue(f) \/ AnswerOther(f)
    <3>1. f.to = Own /\ Tx(f) /\ UNCHANGED <<model, saved>>
      BY <2>1 DEF AnswerReadPoll, AnswerWritePoll, HandleValue, AnswerOther
    <3>. QED  BY <3>1 DEF Tx, Inv, BusInv
  <2>2. CASE HandleModel(f)
    <3>1. f.to = Own /\ Tx(f) /\ model' = f.data /\ f.data \in Models
      BY <1>1, <2>2 DEF HandleModel, FrameOK
    <3>2. saved' \in [mode : {0}, model : Models]
      BY <2>2, <3>1 DEF HandleModel, Inv, BusInv
    <3>. QED  BY <3>1, <3>2 DEF Tx, Inv, BusInv
  <2>3. CASE HearForeign(f)
    BY <2>3 DEF HearForeign, Inv, BusInv
  <2>. QED  BY <2>1, <2>2, <2>3 DEF OnFrame
<1>. QED  BY <1>1, <1>2 DEF Inv, BusInv

(* The pump opens a slot only when none is open.                           *)
LEMMA SendBus ==
  ASSUME Inv, NEW f, FrameOK(f), Send(f)
  PROVE  BusInv'
<1>1. PICK S : rx \in Seq(S)
  BY DEF Inv, BusInv
<1>2. /\ slot = "none" /\ slot' = IF f.to = Own THEN f.cmd ELSE "foreign"
      /\ rx' = Append(rx, f) \/ rx' = rx
      /\ UNCHANGED <<model, saved, seen>>
  BY DEF Send, identity
<1>3. (\E T : rx' \in Seq(T)) /\ \A i \in DOMAIN rx' : FrameOK(rx'[i])
  <2>1. CASE rx' = Append(rx, f)
    <3>1. rx \in Seq(S \cup {f})
      BY <1>1, SeqMonotonic
    <3>2. /\ rx' \in Seq(S \cup {f}) /\ Len(rx') = Len(rx) + 1 /\ Len(rx) \in Nat
          /\ DOMAIN rx = 1..Len(rx) /\ DOMAIN rx' = 1..Len(rx')
          /\ \A i \in 1..Len(rx) : rx'[i] = rx[i]
          /\ rx'[Len(rx) + 1] = f
      BY <2>1, <3>1, AppendFacts, LenProperties
    <3>3. \A i \in DOMAIN rx' : i \in DOMAIN rx \/ i = Len(rx) + 1
      BY <3>2
    <3>. QED  BY <3>2, <3>3 DEF Inv, BusInv
  <2>2. CASE rx' = rx
    BY <2>2 DEF Inv, BusInv
  <2>. QED  BY <1>2, <2>1, <2>2
<1>4. BusInv'
  <2>1. slot' \in {"none", "foreign"} \cup Cmds
    BY <1>2 DEF FrameOK
  <2>. QED  BY <1>2, <1>3, <2>1 DEF Inv, BusInv
<1>. QED  BY <1>4

LEMMA BusNext ==
  ASSUME Inv, [Next]_vars
  PROVE  BusInv'
<1>1. CASE OnFrame
  BY <1>1, OnFrameBus
<1>2. CASE \E f : FrameOK(f) /\ Send(f)
  BY <1>2, SendBus
<1>3. CASE PumpStopsWaiting
  BY <1>3 DEF PumpStopsWaiting, identity, Inv, BusInv
<1>4. CASE UNCHANGED <<rx, slot, model, saved, seen>>
  BY <1>4 DEF Inv, BusInv
<1>5. CASE Pump
  <2>1. CASE PumpPollsReads \/ PumpPollsWrites \/ PumpSendsOther \/ PumpTalksToOthers
    BY <1>2, <2>1 DEF PumpPollsReads, PumpPollsWrites, PumpSendsOther,
                      PumpTalksToOthers, FrameOK, Bare, Frame, Cmds
  <2>2. CASE PumpAnnounces
    BY <1>2, <2>2 DEF PumpAnnounces, FrameOK, Frame, Cmds
  <2>3. CASE PumpSendsValue
    BY <1>2, <2>3 DEF PumpSendsValue, FrameOK, Bare, Frame, Cmds
  <2>. QED  BY <1>3, <1>5, <2>1, <2>2, <2>3 DEF Pump
<1>. QED  BY <1>1, <1>4, <1>5
          DEF Next, Boot, SetPollRegisters, SetProtocol, ApplyRuntimeMode, CreateEntity,
              FinishSetup, UserWrite, identity, bus, vars

-----------------------------------------------------------------------------
LEMMA InitInv == Init => Inv /\ Promise!Init
<1>. SUFFICES ASSUME Init PROVE Inv /\ Promise!Init
  OBVIOUS
<1>0. \A S : /\ <<>> \in Seq(S) /\ Len(<<>>) = 0
             /\ DOMAIN (<<>>) = {}
  BY EmptySeq
<1>1. BootInv /\ RingInv /\ AgeInv
  <2>1. BootInv
    BY Configured DEF Init, BootInv, Phases
  <2>2. RingInv
    BY <1>0 DEF Init, RingInv
  <2>3. AgeInv
    BY <1>0 DEF Init, AgeInv
  <2>. QED  BY <2>1, <2>2, <2>3
<1>2. QueueInv
  <2>1. Mirrors(writes, Request, fate)
    BY <1>0 DEF Init, Mirrors, WaitingOf
  <2>. QED  BY <1>0, <2>1, SlaveAssumption DEF Init, QueueInv, Fate
<1>3. BusInv
  <2>1. (\E S : rx \in Seq(S)) /\ \A i \in DOMAIN rx : FrameOK(rx[i])
    BY <1>0 DEF Init
  <2>. QED  BY <2>1, SlaveAssumption DEF Init, BusInv
<1>4. Promise!Init
  BY DEF Init, Promise!Init, Promise!Request, Request
<1>. QED  BY <1>1, <1>2, <1>3, <1>4 DEF Inv

LEMMA NextInv == Inv /\ [Next]_vars => Inv' /\ [Promise!Next]_(Promise!vars)
<1>. SUFFICES ASSUME Inv, [Next]_vars PROVE Inv' /\ [Promise!Next]_(Promise!vars)
  OBVIOUS
<1>. QED  BY RegistersNext, QueueNext, BusNext DEF Inv

LEMMA InvImplies ==
  Inv => TypeOK /\ ReadsCoverPolled /\ RotationFair
<1>. SUFFICES ASSUME Inv PROVE TypeOK /\ ReadsCoverPolled /\ RotationFair
  OBVIOUS
<1>1. TypeOK
  <2>1. todo \in Seq(Nat) /\ polled \in Seq(Nat) /\ reads \in Seq(Nat)
    BY Configured, SeqMonotonic DEF Inv, BootInv, RingInv
  <2>. QED  BY <2>1 DEF Inv, TypeOK, BootInv, QueueInv, BusInv, Phases, Cmds, Fate, WriteReq
<1>2. ReadsCoverPolled
  <2>1. \A i \in DOMAIN polled : polled[i] \in Registers /\ Occurs(polled[i], polled)
    BY LenProperties, ElementOfSeq DEF Inv, RingInv, Occurs
  <2>. QED  BY <2>1 DEF Inv, RingInv, ReadsCoverPolled
<1>3. RotationFair
  <2>. SUFFICES ASSUME NEW i \in DOMAIN reads PROVE age[reads[i]] < Len(reads)
    BY DEF RotationFair
  <2>1. /\ DOMAIN reads = 1..Len(reads) /\ Len(reads) \in Nat
        /\ reads[i] \in Registers
    BY LenProperties, ElementOfSeq DEF Inv, RingInv
  <2>2. age[reads[i]] \in Nat /\ age[reads[i]] <= Len(reads) - i
    BY <2>1 DEF Inv, AgeInv
  <2>. QED  BY <2>1, <2>2
<1>. QED  BY <1>1, <1>2, <1>3

(* The types of the NIBE driver's state.                                   *)
THEOREM Typing == Spec => []TypeOK
<1>. QED  BY InitInv, NextInv, InvImplies, PTL DEF Spec

(* set_poll_registers(), the entities and ensure_polled() make every       *)
(* polled register part of the rotation, once.                             *)
THEOREM Coverage == Spec => []ReadsCoverPolled
<1>. QED  BY InitInv, NextInv, InvImplies, PTL DEF Spec

(* The 0x69 branch asks for each register once in a turn of the ring.      *)
THEOREM Rotation == Spec => []RotationFair
<1>. QED  BY InitInv, NextInv, InvImplies, PTL DEF Spec

(* queue_write() and the 0x6B branch keep the promise about writes: they   *)
(* go out in order, each at most once.                                     *)
THEOREM Implementation == Spec => ImplementsWriteService
<1>. QED  BY InitInv, NextInv, PTL DEF Spec, ImplementsWriteService, Promise!Spec
=============================================================================
