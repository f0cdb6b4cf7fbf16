------------------------------ MODULE Entities ------------------------------
(***************************************************************************)
(* The entities in Home Assistant and the registers of the pump they stand *)
(* for.  Setting an entity queues a write and publishes the new state at   *)
(* once, before the pump knows of it; whatever the pump answers is         *)
(* published by on_value().  A write may be pushed out of the queue or get *)
(* lost on the bus, the pump's owner may turn its knobs, and an answer may *)
(* be older than what was set since.                                       *)
(*                                                                         *)
(* The two drivers appear as what they promise: a write leaves the queue   *)
(* in order, carried out or not, and on Modbus may be carried out and stay *)
(* for another attempt (WriteService); answers come again and again.       *)
(***************************************************************************)
EXTENDS Values

CONSTANTS
  Kind,         \* register -> "sensor", "number", "switch" or "select"
  Meta,         \* HW_META
  Options,      \* register of a select -> the raw numbers of its options
  Holds,        \* register -> raw numbers the pump may hold
  Wishes,       \* register of a number -> values a user may set
  QueueCap,     \* requests that can wait (4 in the code)
  MaxSets,      \* bound: how often users set something
  MaxChanges,   \* bound: how often the pump changes a register by itself
  Unknown       \* the state of an entity before the first value

AlarmReset == 45171

Registers == DOMAIN Kind
OfKind(k) == {a \in Registers : Kind[a] = k}

ASSUME EntityAssumption ==
  /\ Registers \subseteq DOMAIN Meta
  /\ \A a \in Registers : Kind[a] # "sensor" => a >= 20000
  /\ \A a \in Registers : \A n \in Holds[a] : InRange(Meta[a], n)
  /\ DOMAIN Options = OfKind("select")
  /\ DOMAIN Wishes = OfKind("number")
  /\ QueueCap \in Nat \ {0}

VARIABLES
  writes,    \* writes_
  cell,      \* what the pump's registers hold
  shown,     \* the state of each entity
  reply,     \* an answer on its way
  sets,      \* how often users have set something
  changes,   \* how often the pump has changed a register by itself
  wish       \* history: what each register should come to hold, as far as known

vars == <<writes, cell, shown, reply, sets, changes, wish>>

NoReply == [addr |-> 0, raw |-> 0]
Free    == [free |-> TRUE]

-----------------------------------------------------------------------------
Request(a, raw) == [addr |-> a, raw |-> raw]

Waits(a, q) == \E i \in DOMAIN q : q[i].addr = a

\* A request that leaves without effect leaves the register's future open,
\* unless a newer one for the register waits.
Forgotten(r, q) ==
  IF r.addr \in Registers /\ ~Waits(r.addr, q) THEN [wish EXCEPT ![r.addr] = Free] ELSE wish

PushedNewest(r) ==
  IF Len(writes) >= QueueCap THEN Append(SubSeq(writes, 1, Len(writes) - 1), r)
  ELSE Append(writes, r)

(* queue_write                                                             *)
Pushed(r) ==
  IF Len(writes) >= QueueCap THEN Append(Tail(writes), r) ELSE Append(writes, r)

QueueWrite(r, want) ==
  /\ writes' = Pushed(r)
  /\ LET known == IF Len(writes) >= QueueCap THEN Forgotten(Head(writes), Pushed(r)) ELSE wish
     IN  wish' = IF r.addr \in Registers THEN [known EXCEPT ![r.addr] = want] ELSE known

Set(a, raw, state) ==
  /\ sets < MaxSets /\ sets' = sets + 1
  /\ QueueWrite(Request(a, raw), [raw |-> raw])
  /\ shown' = [shown EXCEPT ![a] = state]
  /\ UNCHANGED <<cell, reply, changes>>

NumberControl(a, x) == Set(a, RawToWrite(Meta[a], x), ShownAfter(Meta[a], x))

SwitchWriteState(a, on) == Set(a, IF on THEN 1 ELSE 0, on)

SelectControl(a, i) == Set(a, Options[a][i], i)

\* The page's button: a register without an entity.
ResetAlarm ==
  /\ sets < MaxSets /\ sets' = sets + 1
  /\ QueueWrite(Request(AlarmReset, 1), Free)
  /\ UNCHANGED <<cell, shown, reply, changes>>

-----------------------------------------------------------------------------
(* on_value(addr, v): the entity of the register takes the value in its    *)
(* own way; a select shows the first option of that raw number, and is     *)
(* left as it is if it has none.                                           *)
SelectRaw(a, v) == Lround(v, Factor(Meta[a]))

OptionOf(a, raw) ==
  {i \in DOMAIN Options[a] : /\ Options[a][i] = raw
                             /\ \A j \in 1..(i - 1) : Options[a][j] # raw}

StateForStale(a, v) == shown[a]

StateFor(a, v) ==
  CASE Kind[a] \in {"sensor", "number"} -> v
    [] Kind[a] = "switch" -> v # 0
    [] Kind[a] = "select" ->
         IF OptionOf(a, SelectRaw(a, v)) = {} THEN shown[a]
         ELSE CHOOSE i \in OptionOf(a, SelectRaw(a, v)) : TRUE

OnValue(a, v) ==
  shown' = IF a \in Registers THEN [shown EXCEPT ![a] = StateFor(a, v)] ELSE shown

Receive ==
  /\ reply # NoReply
  /\ OnValue(reply.addr, Scaled(Meta[reply.addr], reply.raw))
  /\ reply' = NoReply
  /\ UNCHANGED <<writes, cell, sets, changes, wish>>

-----------------------------------------------------------------------------
(* The drivers and the pump.                                               *)
CarriedOut(r) == IF r.addr \in Registers THEN [cell EXCEPT ![r.addr] = r.raw] ELSE cell

WriteDone ==
  /\ writes # <<>>
  /\ writes' = Tail(writes)
  /\ cell' = CarriedOut(Head(writes))
  /\ UNCHANGED <<shown, reply, sets, changes, wish>>

\* Damaged on the NIBE bus, or given up on Modbus.
WriteLost ==
  /\ writes # <<>>
  /\ writes' = Tail(writes)
  /\ wish' = Forgotten(Head(writes), Tail(writes))
  /\ UNCHANGED <<cell, shown, reply, sets, changes>>

\* Carried out, and its echo lost.
WriteUnconfirmed ==
  /\ writes # <<>>
  /\ cell' = CarriedOut(Head(writes))
  /\ UNCHANGED <<writes, shown, reply, sets, changes, wish>>

PumpAnswers(a) ==
  /\ reply = NoReply
  /\ reply' = [addr |-> a, raw |-> cell[a]]
  /\ UNCHANGED <<writes, cell, shown, sets, changes, wish>>

ReplyLost ==
  /\ reply # NoReply
  /\ reply' = NoReply
  /\ UNCHANGED <<writes, cell, shown, sets, changes, wish>>

PumpChanges(a) ==
  /\ changes < MaxChanges /\ changes' = changes + 1
  /\ \E n \in Holds[a] \ {cell[a]} : cell' = [cell EXCEPT ![a] = n]
  /\ wish' = IF Waits(a, writes) THEN wish ELSE [wish EXCEPT ![a] = Free]
  /\ UNCHANGED <<writes, shown, reply, sets>>

-----------------------------------------------------------------------------
Init ==
  /\ writes = <<>>
  /\ cell \in {c \in [Registers -> UNION {Holds[a] : a \in Registers}] :
                 \A a \in Registers : c[a] \in Holds[a]}
  /\ shown = [a \in Registers |-> Unknown]
  /\ reply = NoReply
  /\ sets = 0 /\ changes = 0
  /\ wish = [a \in Registers |-> Free]

Control ==
  \/ \E a \in OfKind("number") : \E x \in Wishes[a] : NumberControl(a, x)
  \/ \E a \in OfKind("switch"), on \in BOOLEAN : SwitchWriteState(a, on)
  \/ \E a \in OfKind("select") : \E i \in DOMAIN Options[a] : SelectControl(a, i)
  \/ ResetAlarm

Next ==
  \/ Control
  \/ Receive
  \/ WriteDone \/ WriteLost \/ WriteUnconfirmed
  \/ \E a \in Registers : PumpAnswers(a) \/ PumpChanges(a)
  \/ ReplyLost

Spec == Init /\ [][Next]_vars

(* The drivers keep going: each register is read again and again, of its   *)
(* answers infinitely many are heard, and every write leaves the queue.    *)
Fairness ==
  /\ WF_vars(WriteDone \/ WriteLost)
  /\ \A a \in Registers : SF_vars(reply.addr = a /\ Receive)
  /\ \A a \in Registers : SF_vars(PumpAnswers(a))

FairSpec == Spec /\ Fairness

-----------------------------------------------------------------------------
(* A register comes to hold what its entity was last set to, once no       *)
(* request for it waits: requests for other registers, the alarm reset, a  *)
(* full queue and repeated attempts do not change that.  Excepted are a    *)
(* last request that was pushed out or lost, and the pump's own changes.   *)
WishGranted ==
  \A a \in Registers :
    wish[a] # Free /\ ~Waits(a, writes) => cell[a] = wish[a].raw

(* What an entity should show while its register holds n.                  *)
Shows(a, n) ==
  CASE Kind[a] \in {"sensor", "number"} -> shown[a] = (Unit * n) \div Factor(Meta[a])
    [] Kind[a] = "switch" -> shown[a] = (n # 0)
    [] Kind[a] = "select" ->
         (\E i \in DOMAIN Options[a] : Options[a][i] = n) =>
           shown[a] \in DOMAIN Options[a] /\ Options[a][shown[a]] = n

(* When users and pump leave the registers alone, every entity ends up     *)
(* showing what the pump holds, and goes on showing it: a write that was   *)
(* lost or pushed out, the state published in advance, and an answer from  *)
(* before the write are all corrected.                                     *)
SettlesOnPump == <>[](\A a \in Registers : Shows(a, cell[a]))
=============================================================================
