------------------------------ MODULE NibeSlave ------------------------------
(***************************************************************************)
(* HeatWhisper on the NIBE bus, where it plays a MODBUS40 accessory: the   *)
(* pump is the master, and HeatWhisper may speak only in answer to a frame *)
(* the pump addresses to it.  Modelled are on_frame_(), the rotation of    *)
(* read requests in reads_ with ensure_polled(), the write queue of        *)
(* queue_write(), and the boot that fills them: generated code first, then *)
(* setup().  The pump and the line are the environment.                    *)
(*                                                                         *)
(* loop() calls on_frame_() for every complete frame it has; the pump and  *)
(* the picker's web handlers, on another task, act between two of these    *)
(* calls, so one call is one action.  Framing is NibeFraming's: rx holds   *)
(* the frames whose checksum is right.                                     *)
(***************************************************************************)
EXTENDS Naturals, Sequences

CONSTANTS
  ExtraPoll,    \* set_poll_registers: the YAML's extra registers
  Entities,     \* the registers create_entities makes entities for
  YamlModbus,   \* TRUE: the YAML says modbus_rtu and a saved mode overrides it
  WriteAddrs,   \* registers the users write
  Models,       \* what the pump may announce itself as; NoModel if unreadable
  NoModel,
  MaxWrites,    \* bound: write requests ever queued, the startup reset included
  QueueCap,     \* requests that can wait (4 in the code)
  RxCap         \* bound: frames that wait to be handled

AlarmReset == 45171
Request    == 1..MaxWrites

ASSUME SlaveAssumption ==
  /\ ExtraPoll \in Seq(Nat)
  /\ Entities \in Seq(Nat)
  /\ YamlModbus \in BOOLEAN
  /\ WriteAddrs \subseteq Nat
  /\ NoModel \in Models
  /\ MaxWrites \in Nat \ {0}
  /\ QueueCap \in Nat \ {0}

VARIABLES
  phase,    \* how far the boot has come
  todo,     \* registers the current boot step still has to make polled
  modbus,   \* modbus_
  polled,   \* polled_
  reads,    \* reads_: the registers whose encoded requests it holds
  writes,   \* writes_
  model,    \* model_
  saved,    \* the mode record in flash
  seen,     \* modbus40_seen_
  rx,       \* frames received and not handled yet
  slot,     \* what the pump waits for an answer to
  fate,     \* history: what has become of each write request
  sends,    \* history: how often each was transmitted
  age       \* history: read requests sent since a register was asked for

registers == <<polled, reads>>
requests  == <<writes, fate, sends>>
identity  == <<model, saved, seen>>
bus       == <<rx, slot>>
boot      == <<phase, todo, modbus>>
vars      == <<boot, registers, requests, identity, bus, age>>

Registers == {ExtraPoll[i] : i \in DOMAIN ExtraPoll} \cup
             {Entities[i] : i \in DOMAIN Entities}

Occurs(a, s) == \E i \in DOMAIN s : s[i] = a

-----------------------------------------------------------------------------
RotatedDropping(i, q) == SubSeq(q, i + 1, Len(q)) \o SubSeq(q, 1, i - 1)

(* ensure_polled: the register joins polled_ once; in NIBE mode its read   *)
(* request joins reads_, unless it is there: the search pops and pushes as *)
(* it goes and stops at the match, so the queue ends up rotated.           *)
RotatedPast(i, q) == SubSeq(q, i + 1, Len(q)) \o SubSeq(q, 1, i)

EnsurePolled(a) ==
  /\ polled' = IF Occurs(a, polled) THEN polled ELSE Append(polled, a)
  /\ IF modbus THEN UNCHANGED reads
     ELSE IF Occurs(a, reads)
          THEN \E i \in DOMAIN reads :
                 /\ reads[i] = a
                 /\ \A j \in 1..(i - 1) : reads[j] # a
                 /\ reads' = RotatedPast(i, reads)
          ELSE reads' = Append(reads, a)

IsNext(w) == fate[w] = "none" /\ \A v \in Request : v < w => fate[v] # "none"

IsWritable(a) == a >= 20000

QueueWriteUncapped(w, a) ==
  /\ IsNext(w) /\ IsWritable(a)
  /\ writes' = Append(writes, [addr |-> a, raw |-> w])
  /\ fate' = [fate EXCEPT ![w] = "queued"]
  /\ UNCHANGED sends

QueueWrite(w, a) ==
  /\ IsNext(w)
  /\ \/ /\ ~IsWritable(a)
        /\ fate' = [fate EXCEPT ![w] = "refused"]
        /\ UNCHANGED writes
     \/ /\ IsWritable(a)
        /\ Len(writes) >= QueueCap
        /\ writes' = Append(Tail(writes), [addr |-> a, raw |-> w])
        /\ fate' = [fate EXCEPT ![w] = "queued", ![Head(writes).raw] = "overflowed"]
     \/ /\ IsWritable(a)
        /\ Len(writes) < QueueCap
        /\ writes' = Append(writes, [addr |-> a, raw |-> w])
        /\ fate' = [fate EXCEPT ![w] = "queued"]
  /\ UNCHANGED sends

-----------------------------------------------------------------------------
(* Boot.  The generated code runs set_poll_registers() first, while        *)
(* modbus_ still has its default, then set_protocol_is_modbus(); setup()   *)
(* applies the saved mode, makes the entities, each of them polled, and    *)
(* queues the reset of the startup alarm.                                  *)
SetPollRegisters ==
  /\ phase = "generated" /\ todo # <<>>
  /\ EnsurePolled(Head(todo))
  /\ todo' = Tail(todo)
  /\ UNCHANGED <<phase, modbus, requests, identity, bus, age>>

SetProtocol ==
  /\ phase = "generated" /\ todo = <<>>
  /\ modbus' = YamlModbus
  /\ phase' = "setup"
  /\ UNCHANGED <<todo, registers, requests, identity, bus, age>>

\* This module follows the boots that end in NIBE mode.
ApplyRuntimeMode ==
  /\ phase = "setup"
  /\ modbus' = FALSE
  /\ todo' = Entities
  /\ phase' = "entities"
  /\ UNCHANGED <<registers, requests, identity, bus, age>>

CreateEntity ==
  /\ phase = "entities" /\ todo # <<>>
  /\ EnsurePolled(Head(todo))
  /\ todo' = Tail(todo)
  /\ UNCHANGED <<phase, modbus, requests, identity, bus, age>>

FinishSetup ==
  /\ phase = "entities" /\ todo = <<>>
  /\ QueueWrite(1, AlarmReset)
  /\ phase' = "run"
  /\ UNCHANGED <<todo, modbus, registers, identity, bus, age>>

Boot ==
  \/ SetPollRegisters
  \/ SetProtocol
  \/ ApplyRuntimeMode
  \/ CreateEntity
  \/ FinishSetup

UserWrite(w, a) ==
  /\ phase = "run"
  /\ QueueWrite(w, a)
  /\ UNCHANGED <<boot, registers, identity, bus, age>>

-----------------------------------------------------------------------------
(* on_frame_.  A frame has an addressee, a command and its data.           *)
Own == 32    \* kModbus40Addr

Frame(to, cmd, data) == [to |-> to, cmd |-> cmd, data |-> data]

Bare(cmd) == Frame(Own, cmd, NoModel)

\* HeatWhisper speaks at once, also when loop() is late and the pump has gone
\* on: the pump hears an answer of the kind it waits for.
Heeded(f) == slot = f.cmd

Tx(f) == slot' = IF Heeded(f) THEN "none" ELSE slot

RotatedStuck(q) == q

RotatedLost(q) == Tail(q)

Rotated(q) == Append(Tail(q), Head(q))

\* age is counted up to one more than a fair rotation ever needs.
Aged(n) == IF n > Len(reads) THEN n ELSE n + 1

\* 0x69, no data: the front request goes out and to the back of the queue.
AnswerReadPoll(f) ==
  /\ f.to = Own /\ f.cmd = "read"
  /\ Tx(f)
  /\ IF reads = <<>> THEN UNCHANGED <<reads, age>>
     ELSE /\ reads' = Rotated(reads)
          /\ age' = [a \in DOMAIN age |-> IF a = Head(reads) THEN 0 ELSE Aged(age[a])]
  /\ UNCHANGED <<requests, model, saved>>

AnswerWritePollKeeping(f) ==
  /\ f.to = Own /\ f.cmd = "write"
  /\ Tx(f)
  /\ UNCHANGED <<writes, fate>>
  /\ sends' = IF writes = <<>> THEN sends ELSE [sends EXCEPT ![Head(writes).raw] = @ + 1]
  /\ UNCHANGED <<reads, model, saved, age>>

AnswerWritePollSkipLast(f) ==
  /\ f.to = Own /\ f.cmd = "write"
  /\ Tx(f)
  /\ IF Len(writes) <= 1 THEN UNCHANGED requests
     ELSE /\ writes' = Tail(writes)
          /\ fate' = [fate EXCEPT ![Head(writes).raw] = "sent"]
          /\ sends' = [sends EXCEPT ![Head(writes).raw] = @ + 1]
  /\ UNCHANGED <<reads, model, saved, age>>

\* 0x6B, no data: the front write leaves the queue and goes out, unconfirmed.
AnswerWritePoll(f) ==
  /\ f.to = Own /\ f.cmd = "write"
  /\ Tx(f)
  /\ IF writes = <<>> THEN UNCHANGED requests
     ELSE /\ writes' = Tail(writes)
          /\ fate' = [fate EXCEPT ![Head(writes).raw] = "sent"]
          /\ sends' = [sends EXCEPT ![Head(writes).raw] = @ + 1]
  /\ UNCHANGED <<reads, model, saved, age>>

\* 0x68, 0x6A, 0x62: values, asked for or not.  What is published of them is
\* Codec's and Entities' matter.
HandleValue(f) ==
  /\ f.to = Own /\ f.cmd = "data"
  /\ Tx(f)
  /\ UNCHANGED <<reads, requests, model, saved, age>>

\* 0x6D: the pump's name; one that can be read is saved, with NIBE mode.
HandleModel(f) ==
  /\ f.to = Own /\ f.cmd = "model"
  /\ Tx(f)
  /\ model' = f.data
  /\ \/ f.data # NoModel /\ saved' = [mode |-> 0, model |-> f.data]
     \/ UNCHANGED saved        \* no name, or saving failed
  /\ UNCHANGED <<reads, requests, age>>

\* 0xEE gets the accessory's version, any other frame to 0x20 an ACK.
AnswerOther(f) ==
  /\ f.to = Own /\ f.cmd = "other"
  /\ Tx(f)
  /\ UNCHANGED <<reads, requests, model, saved, age>>

HearForeign(f) ==
  /\ f.to # Own
  /\ UNCHANGED <<slot, reads, requests, model, saved, age>>

OnFrame ==
  /\ phase = "run" /\ rx # <<>>
  /\ rx' = Tail(rx)
  /\ seen' = (seen \/ Head(rx).to = Own)
  /\ LET f == Head(rx)
     IN  \/ AnswerReadPoll(f)
         \/ AnswerWritePoll(f)
         \/ HandleValue(f)
         \/ HandleModel(f)
         \/ AnswerOther(f)
         \/ HearForeign(f)
  /\ UNCHANGED <<boot, polled>>

-----------------------------------------------------------------------------
(* The pump: external.  It sends a frame and waits for the answer, or for  *)
(* so long; it never starts a frame while it waits.  Frames get lost.  It  *)
(* may stop waiting before loop() has come to its frame.                   *)
Send(f) ==
  /\ slot = "none"
  /\ slot' = IF f.to = Own THEN f.cmd ELSE "foreign"
  /\ \/ Len(rx) < RxCap /\ rx' = Append(rx, f)
     \/ rx' = rx                        \* lost or damaged on the line
  /\ UNCHANGED <<boot, registers, requests, identity, age>>

PumpPollsReads  == Send(Bare("read"))
PumpPollsWrites == Send(Bare("write"))
PumpSendsValue  == Send(Bare("data"))
PumpSendsOther  == Send(Bare("other"))
PumpAnnounces   == \E m \in Models : Send(Frame(Own, "model", m))

\* A frame for another accessory on the bus; that one answers it.
PumpTalksToOthers == Send(Frame(25, "data", NoModel))

PumpStopsWaiting ==
  /\ slot # "none"
  /\ slot' = "none"
  /\ UNCHANGED <<boot, registers, requests, identity, rx, age>>

Pump ==
  \/ PumpPollsReads
  \/ PumpPollsWrites
  \/ PumpSendsOther
  \/ PumpAnnounces
  \/ PumpSendsValue
  \/ PumpTalksToOthers
  \/ PumpStopsWaiting

-----------------------------------------------------------------------------
Init ==
  /\ phase = "generated"
  /\ todo = ExtraPoll
  /\ modbus = FALSE
  /\ polled = <<>>
  /\ reads = <<>>
  /\ writes = <<>>
  /\ model = NoModel
  /\ saved = [mode |-> 0, model |-> NoModel]
  /\ seen = FALSE
  /\ rx = <<>>
  /\ slot = "none"
  /\ fate = [w \in Request |-> "none"]
  /\ sends = [w \in Request |-> 0]
  /\ age = [a \in Registers |-> 0]

Next ==
  \/ Boot
  \/ \E w \in Request, a \in WriteAddrs : UserWrite(w, a)
  \/ OnFrame
  \/ Pump

Spec == Init /\ [][Next]_vars

\* The pump polls for reads and for writes for ever, and often enough the
\* poll is heard; loop() is called for ever.
Heard == rx' # rx

Fairness ==
  /\ WF_vars(Boot)
  /\ WF_vars(OnFrame)
  /\ WF_vars(PumpStopsWaiting)
  /\ SF_vars(PumpPollsReads /\ Heard)
  /\ SF_vars(PumpPollsWrites /\ Heard)

FairSpec == Spec /\ Fairness

-----------------------------------------------------------------------------
TypeOK ==
  /\ phase \in {"generated", "setup", "entities", "run"}
  /\ todo \in Seq(Nat)
  /\ modbus \in BOOLEAN
  /\ polled \in Seq(Nat)
  /\ reads \in Seq(Nat)
  /\ writes \in Seq([addr : Nat, raw : Request])
  /\ Len(writes) <= QueueCap
  /\ model \in Models
  /\ saved \in [mode : {0}, model : Models]
  /\ seen \in BOOLEAN
  /\ slot \in {"none", "read", "write", "data", "model", "other", "foreign"}
  /\ fate \in [Request -> {"none", "refused", "queued", "overflowed", "sent"}]
  /\ sends \in [Request -> Nat]

(* Once setup() is done, every register that was ever made polled, by the  *)
(* generated code or by an entity, is in the rotation of read requests     *)
(* exactly once, and nothing else is.  It depends on set_poll_registers()  *)
(* running before set_protocol_is_modbus(), and on ensure_polled() putting *)
(* back what it pops.                                                      *)
ReadsCoverPolled ==
  phase = "run" =>
    /\ Len(reads) = Len(polled)
    /\ \A i \in DOMAIN polled : Occurs(polled[i], reads)
    /\ \A i, j \in DOMAIN reads : reads[i] = reads[j] => i = j

(* No register waits for more read polls than there are other registers.   *)
RotationFair ==
  phase = "run" => \A i \in DOMAIN reads : age[reads[i]] < Len(reads)

\* A read poll is answered with the request for register a.
AsksFor(a) ==
  /\ rx # <<>> /\ Head(rx) = Bare("read")
  /\ reads # <<>> /\ Head(reads) = a
  /\ OnFrame

(* Every polled register is asked for again and again, however often the   *)
(* pump's polls are lost or answered too late.                             *)
ReadsGoOn == \A a \in Registers : []<><<AsksFor(a)>>_vars

(* Every write that is queued goes out, or gives way to younger ones.      *)
WritesResolve == \A w \in Request : fate[w] = "queued" ~> fate[w] # "queued"

(* Writes go out in order, each one at most once: the NIBE bus is the      *)
(* promise of WriteService with a single attempt.                          *)
Promise == INSTANCE WriteService WITH Cap <- QueueCap, MaxAttempts <- 1

ImplementsWriteService == Promise!Spec
=============================================================================
