---------------------------- MODULE SharedQueue ----------------------------
(***************************************************************************)
(* writes_, a std::queue that two tasks use without a lock: the loop task  *)
(* queues what Home Assistant sets and takes requests out for the pump,    *)
(* the web server's task queues the reset of the alarm.                    *)
(*                                                                         *)
(* The queue is a run of slots between two cursors.  A pop loads the first *)
(* cursor and stores it one higher; a push loads the last one, writes the  *)
(* two words of the request into that slot, and stores the cursor one      *)
(* higher.  Each load and each store is a step, and the other task may do  *)
(* anything between two of them.  size() and empty() compare the cursors   *)
(* in one step.                                                            *)
(***************************************************************************)
EXTENDS Integers

CONSTANTS
  QueueCap,    \* requests that can wait (4 in the code)
  Slots,       \* bound: slots ever used
  Requests,    \* what each task queues: records [addr, raw]
  NoRequest

Tasks == {"loop", "web"}
Other(t) == IF t = "loop" THEN "web" ELSE "loop"

ASSUME QueueAssumption ==
  /\ QueueCap \in Nat /\ QueueCap >= 3     \* with less, a size could wrap round
  /\ Slots \in Nat
  /\ \A t \in Tasks : Requests[t] \subseteq [addr : Nat, raw : Int]
  /\ NoRequest \in [addr : Nat, raw : Int]

VARIABLES
  first, last,   \* the cursors
  slot,          \* the memory behind them
  at,            \* where each task is in queue_write() or in taking
  held,          \* the cursor each task has loaded
  arg,           \* the request each task is queueing
  front,         \* the request the loop task has copied
  begun,         \* calls each task has begun during the other's present one
  overlap        \* history: both tasks have pushed at the same time

vars == <<first, last, slot, at, held, arg, front, begun, overlap>>

Idle(t) == at[t] = "idle"

IsWritable(addr) == addr >= 20000

\* A call takes microseconds, and calls come milliseconds apart: during a call
\* of one task the other begins one more at most.
MayBegin(t) == Idle(t) /\ (Idle(Other(t)) \/ begun[t] = 0)

Begins(t, step) ==
  /\ at' = [at EXCEPT ![t] = step]
  /\ begun' = [begun EXCEPT ![t] = IF Idle(Other(t)) THEN 0 ELSE 1, ![Other(t)] = 0]

GoesTo(t, step) == at' = [at EXCEPT ![t] = step]

-----------------------------------------------------------------------------
(* queue_write(addr, raw)                                                  *)
QueueWrite(t, r) ==
  /\ MayBegin(t) /\ IsWritable(r.addr) /\ last < Slots
  /\ Begins(t, "size")
  /\ arg' = [arg EXCEPT ![t] = r]
  /\ UNCHANGED <<first, last, slot, held, front, overlap>>

\* The early return for a register that cannot be written.
RefuseWrite(t, r) == MayBegin(t) /\ ~IsWritable(r.addr) /\ UNCHANGED vars

CheckSize(t) ==
  /\ at[t] = "size"
  /\ GoesTo(t, IF last - first \in 0 .. QueueCap - 1 THEN "push" ELSE "pop")
  /\ UNCHANGED <<first, last, slot, held, arg, front, begun, overlap>>

LoadFirst(t) ==
  /\ at[t] \in {"pop", "take"}
  /\ held' = [held EXCEPT ![t] = first]
  /\ GoesTo(t, IF at[t] = "pop" THEN "popped" ELSE "taken")
  /\ UNCHANGED <<first, last, slot, arg, front, begun, overlap>>

StoreFirst(t) ==
  /\ at[t] = "popped"
  /\ first' = held[t] + 1
  /\ GoesTo(t, "push")
  /\ UNCHANGED <<last, slot, held, arg, front, begun, overlap>>

Pushing(t) == at[t] \in {"addr", "raw", "grow"}

LoadLastGrowing(t) ==
  /\ at[t] = "push"
  /\ held' = [held EXCEPT ![t] = last]
  /\ last' = last + 1
  /\ overlap' = (overlap \/ Pushing(Other(t)))
  /\ GoesTo(t, "addr")
  /\ UNCHANGED <<first, slot, arg, front, begun>>

LoadLast(t) ==
  /\ at[t] = "push"
  /\ held' = [held EXCEPT ![t] = last]
  /\ overlap' = (overlap \/ Pushing(Other(t)))
  /\ GoesTo(t, "addr")
  /\ UNCHANGED <<first, last, slot, arg, front, begun>>

StoreAddr(t) ==
  /\ at[t] = "addr"
  /\ slot' = [slot EXCEPT ![held[t]].addr = arg[t].addr]
  /\ GoesTo(t, "raw")
  /\ UNCHANGED <<first, last, held, arg, front, begun, overlap>>

StoreRaw(t) ==
  /\ at[t] = "raw"
  /\ slot' = [slot EXCEPT ![held[t]].raw = arg[t].raw]
  /\ GoesTo(t, "grow")
  /\ UNCHANGED <<first, last, held, arg, front, begun, overlap>>

StoreLast(t) ==
  /\ at[t] = "grow"
  /\ last' = held[t] + 1
  /\ GoesTo(t, "idle")
  /\ UNCHANGED <<first, slot, held, arg, front, begun, overlap>>

-----------------------------------------------------------------------------
(* The loop task finds the queue not empty.  On the NIBE bus it copies the *)
(* front and pops it; on Modbus it copies the front, and pops it some time *)
(* later, when it has looked again that the queue is not empty.            *)
FindWriteUnchecked(next) ==
  /\ MayBegin("loop")
  /\ Begins("loop", next)
  /\ UNCHANGED <<first, last, slot, held, arg, front, overlap>>

FindWrite(next) ==
  /\ MayBegin("loop") /\ first # last
  /\ Begins("loop", next)
  /\ UNCHANGED <<first, last, slot, held, arg, front, overlap>>

CopyFront(next) ==
  /\ at["loop"] = "front"
  /\ front' = slot[first]
  /\ GoesTo("loop", next)
  /\ UNCHANGED <<first, last, slot, held, arg, begun, overlap>>

DropFront ==
  /\ at["loop"] = "taken"
  /\ first' = held["loop"] + 1
  /\ GoesTo("loop", "idle")
  /\ UNCHANGED <<last, slot, held, arg, front, begun, overlap>>

-----------------------------------------------------------------------------
Init ==
  /\ first = 0 /\ last = 0
  /\ slot = [i \in 0..Slots + 1 |-> NoRequest]
  /\ at = [t \in Tasks |-> "idle"]
  /\ held = [t \in Tasks |-> 0]
  /\ arg = [t \in Tasks |-> NoRequest]
  /\ front = NoRequest
  /\ begun = [t \in Tasks |-> 0]
  /\ overlap = FALSE

Take == \/ FindWrite("front") \/ CopyFront("take")      \* on_frame_, 0x6B
        \/ CopyFront("idle") \/ FindWrite("take")       \* poll_one_ and its outcome
        \/ DropFront

Next ==
  \/ \E t \in Tasks :
       \/ \E r \in Requests[t] : QueueWrite(t, r) \/ RefuseWrite(t, r)
       \/ CheckSize(t) \/ LoadFirst(t) \/ StoreFirst(t)
       \/ LoadLast(t) \/ StoreAddr(t) \/ StoreRaw(t) \/ StoreLast(t)
  \/ Take

Spec == Init /\ [][Next]_vars

-----------------------------------------------------------------------------
(* However the two tasks interleave, the first cursor does not overtake    *)
(* the last: size() never wraps round, which would make loop() take        *)
(* requests for ever that nobody has made.                                 *)
NeverUnderflows == first <= last

(* What loop() takes out for the pump is a request that somebody has       *)
(* queued, complete, as long as no two pushes have met.                    *)
TakenWasQueued == ~overlap /\ front # NoRequest => front \in Requests["loop"] \cup Requests["web"]
=============================================================================
