-------------------------- MODULE SharedQueue_proof --------------------------
(***************************************************************************)
(* Proofs about SharedQueue, for every capacity from three, every number   *)
(* of slots and all requests.                                              *)
(*                                                                         *)
(* A cursor that is stored may be older than what the other task has       *)
(* stored meanwhile, so that either cursor may go back by one.  What keeps *)
(* them in order is how far the other task can get during one call: it     *)
(* ends the call it is in and begins one more.  The invariant counts those *)
(* steps that the other task has left.                                     *)
(***************************************************************************)
EXTENDS SharedQueue, TLAPS

Steps == {"idle", "size", "pop", "popped", "push", "addr", "raw", "grow",
          "front", "take", "taken"}

Spare(t)   == 1 - begun[t]
Popping(t) == at[t] \in {"popped", "taken"}
WillPop(t) == at[t] \in {"pop", "popped", "front", "take", "taken"}

\* Stores of a cursor that a task has not loaded yet, in this call and the next.
PopsLeft(t)   == (IF at[t] \in {"size", "pop", "front", "take"} THEN 1 ELSE 0) + Spare(t)
PushesLeft(t) == (IF at[t] \in {"size", "pop", "popped", "push"} THEN 1 ELSE 0) + Spare(t)

\* Requests that have to be there for pops already decided upon, those of u
\* and then, if u is the web server's task, one more of the loop's.
Due(u) == IF ~WillPop(u) THEN 0 ELSE IF u = "web" THEN 1 + Spare("loop") ELSE 1

AllDue == (IF WillPop("loop") THEN 1 ELSE 0) + Due("web")

CursorsOK ==
  /\ first \in Nat /\ last \in Nat
  /\ at \in [Tasks -> Steps] /\ at["web"] \notin {"front", "take", "taken"}
  /\ held \in [Tasks -> Nat]
  /\ begun \in [Tasks -> {0, 1}]

FirstInv ==
  \A t \in Tasks : Popping(t) =>
    /\ held[t] <= first
    /\ IF Popping(Other(t)) THEN held[Other(t)] + Spare(Other(t)) <= held[t] + 1
       ELSE first + PopsLeft(Other(t)) <= held[t] + 2

LastInv ==
  \A t \in Tasks : Pushing(t) =>
    /\ held[t] <= last
    /\ IF Pushing(Other(t))
       THEN /\ held[Other(t)] + Spare(Other(t)) <= held[t] + 1
            /\ last <= held[t] + 1
       ELSE last + PushesLeft(Other(t)) <= held[t] + 2

EnoughInv ==
  /\ last - first >= AllDue
  /\ \A t \in Tasks : Pushing(t) => held[t] + 1 - first >= Due(Other(t))

CursorInv == CursorsOK /\ FirstInv /\ LastInv /\ EnoughInv

Request == [addr : Nat, raw : Int]
Asked   == Requests["loop"] \cup Requests["web"]

\* The task has begun to queue arg[t].
Queueing(t) == at[t] \in {"size", "pop", "popped", "push"} \/ Pushing(t)
ToQueue(t)  == IF Queueing(t) THEN 1 ELSE 0

SlotsOK ==
  /\ slot \in [0 .. Slots + 1 -> Request]
  /\ arg \in [Tasks -> Request]
  /\ overlap \in BOOLEAN
  /\ \A t \in Tasks : Queueing(t) => arg[t] \in Requests[t]

\* No push goes beyond the slots.
RoomInv == last + ToQueue("loop") + ToQueue("web") <= Slots + 1

\* What lies below the last cursor has been written whole; a push that is
\* alone writes just above it, the address first.
FilledInv ==
  ~overlap =>
    /\ \A i \in 0 .. last - 1 : slot[i] \in Asked
    /\ \A t \in Tasks : Pushing(t) =>
         /\ ~Pushing(Other(t)) /\ held[t] = last
         /\ at[t] # "addr" => slot[last].addr = arg[t].addr
         /\ at[t] = "grow" => slot[last].raw = arg[t].raw
    /\ front \in Asked \cup {NoRequest}

SlotInv == SlotsOK /\ RoomInv /\ FilledInv

-----------------------------------------------------------------------------
(* What a step of one task changes, and what it leaves of the other's.     *)

LEMMA TwoTasks ==
  /\ Tasks = {"loop", "web"} /\ "loop" # "web"
  /\ Other("loop") = "web" /\ Other("web") = "loop"
  BY DEF Tasks, Other

LEMMA InitCursors == Init => CursorInv
  BY QueueAssumption DEF Init, CursorInv, CursorsOK, FirstInv, LastInv, EnoughInv, AllDue, Due,
     WillPop, Popping, Pushing, Tasks, Steps, Other

LEMMA QueueWriteCursors ==
  ASSUME CursorInv, NEW t \in Tasks, NEW r, QueueWrite(t, r)
  PROVE  CursorInv'
<1>. USE DEF CursorInv, CursorsOK, FirstInv, LastInv, EnoughInv, AllDue, Due,
          WillPop, Popping, Pushing, PopsLeft, PushesLeft, Spare, Steps
<1>1. CASE t = "loop"
  BY <1>1, TwoTasks DEF QueueWrite, MayBegin, Idle, Begins
<1>2. CASE t = "web"
  BY <1>2, TwoTasks DEF QueueWrite, MayBegin, Idle, Begins
<1>. QED  BY <1>1, <1>2, TwoTasks

LEMMA CheckSizeCursors ==
  ASSUME CursorInv, NEW t \in Tasks, CheckSize(t)
  PROVE  CursorInv'
<1>. USE DEF CursorInv, CursorsOK, FirstInv, LastInv, EnoughInv, AllDue, Due,
          WillPop, Popping, Pushing, PopsLeft, PushesLeft, Spare, Steps
<1>1. CASE t = "loop"
  BY <1>1, TwoTasks, QueueAssumption DEF CheckSize, GoesTo
<1>2. CASE t = "web"
  BY <1>2, TwoTasks, QueueAssumption DEF CheckSize, GoesTo
<1>. QED  BY <1>1, <1>2, TwoTasks

LEMMA LoadFirstCursors ==
  ASSUME CursorInv, NEW t \in Tasks, LoadFirst(t)
  PROVE  CursorInv'
<1>. USE DEF CursorInv, CursorsOK, FirstInv, LastInv, EnoughInv, AllDue, Due,
          WillPop, Popping, Pushing, PopsLeft, PushesLeft, Spare, Steps
<1>1. CASE t = "loop"
  BY <1>1, TwoTasks DEF LoadFirst, GoesTo
<1>2. CASE t = "web"
  BY <1>2, TwoTasks DEF LoadFirst, GoesTo
<1>. QED  BY <1>1, <1>2, TwoTasks

LEMMA StoreFirstCursors ==
  ASSUME CursorInv, NEW t \in Tasks, StoreFirst(t)
  PROVE  CursorInv'
<1>. USE DEF CursorInv, CursorsOK, FirstInv, LastInv, EnoughInv, AllDue, Due,
          WillPop, Popping, Pushing, PopsLeft, PushesLeft, Spare, Steps
<1>1. CASE t = "loop"
  BY <1>1, TwoTasks DEF StoreFirst, GoesTo
<1>2. CASE t = "web"
  BY <1>2, TwoTasks DEF StoreFirst, GoesTo
<1>. QED  BY <1>1, <1>2, TwoTasks

LEMMA LoadLastCursors ==
  ASSUME CursorInv, NEW t \in Tasks, LoadLast(t)
  PROVE  CursorInv'
<1>. USE DEF CursorInv, CursorsOK, FirstInv, LastInv, EnoughInv, AllDue, Due,
          WillPop, Popping, Pushing, PopsLeft, PushesLeft, Spare, Steps
<1>1. CASE t = "loop"
  BY <1>1, TwoTasks DEF LoadLast, GoesTo
<1>2. CASE t = "web"
  BY <1>2, TwoTasks DEF LoadLast, GoesTo
<1>. QED  BY <1>1, <1>2, TwoTasks

LEMMA StoreHalfCursors ==
  ASSUME CursorInv, NEW t \in Tasks, StoreAddr(t) \/ StoreRaw(t)
  PROVE  CursorInv'
<1>. USE DEF CursorInv, CursorsOK, FirstInv, LastInv, EnoughInv, AllDue, Due,
          WillPop, Popping, Pushing, PopsLeft, PushesLeft, Spare, Steps
<1>1. CASE t = "loop"
  BY <1>1, TwoTasks DEF StoreAddr, StoreRaw, GoesTo
<1>2. CASE t = "web"
  BY <1>2, TwoTasks DEF StoreAddr, StoreRaw, GoesTo
<1>. QED  BY <1>1, <1>2, TwoTasks

LEMMA StoreLastCursors ==
  ASSUME CursorInv, NEW t \in Tasks, StoreLast(t)
  PROVE  CursorInv'
<1>. USE DEF CursorInv, CursorsOK, FirstInv, LastInv, EnoughInv, AllDue, Due,
          WillPop, Popping, Pushing, PopsLeft, PushesLeft, Spare, Steps
<1>1. CASE t = "loop"
  BY <1>1, TwoTasks DEF StoreLast, GoesTo
<1>2. CASE t = "web"
  BY <1>2, TwoTasks DEF StoreLast, GoesTo
<1>. QED  BY <1>1, <1>2, TwoTasks

LEMMA TakeCursors ==
  ASSUME CursorInv, Take
  PROVE  CursorInv'
<1>. USE DEF CursorInv, CursorsOK, FirstInv, LastInv, EnoughInv, AllDue, Due,
          WillPop, Popping, Pushing, PopsLeft, PushesLeft, Spare, Steps
<1>1. CASE \E next \in {"front", "take"} : FindWrite(next)
  BY <1>1, TwoTasks DEF FindWrite, MayBegin, Idle, Begins
<1>2. CASE \E next \in {"take", "idle"} : CopyFront(next)
  BY <1>2, TwoTasks DEF CopyFront, GoesTo
<1>3. CASE DropFront
  BY <1>3, TwoTasks DEF DropFront, GoesTo
<1>. QED  BY <1>1, <1>2, <1>3 DEF Take

LEMMA NextCursors == ASSUME CursorInv, [Next]_vars PROVE CursorInv'
<1>1. CASE UNCHANGED vars
  BY <1>1 DEF vars, CursorInv, CursorsOK, FirstInv, LastInv, EnoughInv, AllDue, Due,
          WillPop, Popping, Pushing, PopsLeft, PushesLeft, Spare
<1>2. CASE Take
  BY <1>2, TakeCursors
<1>3. ASSUME NEW t \in Tasks, NEW r \in Requests[t], QueueWrite(t, r) \/ RefuseWrite(t, r)
      PROVE  CursorInv'
  BY <1>3, <1>1, QueueWriteCursors DEF RefuseWrite
<1>4. ASSUME NEW t \in Tasks,
             CheckSize(t) \/ LoadFirst(t) \/ StoreFirst(t)
               \/ LoadLast(t) \/ StoreAddr(t) \/ StoreRaw(t) \/ StoreLast(t)
      PROVE  CursorInv'
  BY <1>4, CheckSizeCursors, LoadFirstCursors, StoreFirstCursors, LoadLastCursors,
     StoreHalfCursors, StoreLastCursors
<1>. QED  BY <1>1, <1>2, <1>3, <1>4 DEF Next

(* In every reachable state of the queue a cursor that a task is about to  *)
(* store is at most one step out of date, and there are as many requests   *)
(* as pops have been decided upon.                                         *)
THEOREM Cursors == Spec => []CursorInv
<1>1. Init => CursorInv
  BY InitCursors
<1>2. CursorInv /\ [Next]_vars => CursorInv'
  BY NextCursors
<1>. QED  BY <1>1, <1>2, PTL DEF Spec

(* The two tasks cannot make the queue's size negative, whatever the order *)
(* of their loads and stores: writes_.size() does not wrap round.          *)
THEOREM NoUnderflow == Spec => []NeverUnderflows
<1>1. CursorInv => NeverUnderflows
  BY TwoTasks DEF CursorInv, CursorsOK, EnoughInv, AllDue, Due, Spare, NeverUnderflows
<1>. QED  BY <1>1, Cursors, PTL

-----------------------------------------------------------------------------
(* What lies in the slots.                                                 *)

LEMMA AskedRequests ==
  /\ Asked \subseteq Request /\ NoRequest \in Request
  /\ \A t \in Tasks : Requests[t] \subseteq Asked
  BY QueueAssumption, TwoTasks DEF Asked, Request

LEMMA InitSlots == Init => SlotInv
<1>. SUFFICES ASSUME Init PROVE SlotInv
  OBVIOUS
<1>1. SlotsOK
  <2>1. slot \in [0 .. Slots + 1 -> Request] /\ arg \in [Tasks -> Request]
    BY AskedRequests DEF Init
  <2>. QED  BY <2>1, TwoTasks DEF Init, SlotsOK, Queueing, Pushing
<1>2. RoomInv
  BY QueueAssumption, TwoTasks DEF Init, RoomInv, Queueing, Pushing, ToQueue
<1>3. FilledInv
  BY TwoTasks DEF Init, FilledInv, Pushing
<1>. QED  BY <1>1, <1>2, <1>3 DEF SlotInv

\* A task that pushes has a slot of its own to write to.
LEMMA HeldIsASlot ==
  ASSUME CursorInv, SlotInv, NEW t \in Tasks, Pushing(t)
  PROVE  /\ held[t] \in 0 .. Slots /\ last \in 0 .. Slots
         /\ held[t] \in 0 .. Slots + 1 /\ Queueing(t)
  BY TwoTasks, QueueAssumption
     DEF CursorInv, CursorsOK, LastInv, SlotInv, RoomInv, ToQueue, Queueing

LEMMA QueueWriteSlots ==
  ASSUME CursorInv, SlotInv, NEW t \in Tasks, NEW r \in Requests[t], QueueWrite(t, r)
  PROVE  SlotInv'
<1>. USE DEF CursorInv, CursorsOK, SlotInv, Queueing, Pushing, Steps
<1>1. r \in Request
  BY AskedRequests
<1>2. SlotsOK'
  BY <1>1, TwoTasks DEF SlotsOK, QueueWrite, MayBegin, Begins, Idle
<1>3. RoomInv'
  BY TwoTasks, QueueAssumption DEF RoomInv, ToQueue, QueueWrite, MayBegin, Begins, Idle
<1>4. FilledInv'
  BY TwoTasks DEF FilledInv, QueueWrite, MayBegin, Begins, Idle
<1>. QED  BY <1>2, <1>3, <1>4

\* The steps that touch neither the slots nor the last cursor.
LEMMA FirstSlots ==
  ASSUME CursorInv, SlotInv, NEW t \in Tasks,
         CheckSize(t) \/ LoadFirst(t) \/ StoreFirst(t)
  PROVE  SlotInv'
<1>. USE DEF CursorInv, CursorsOK, SlotInv, Queueing, Pushing, Steps
<1>1. SlotsOK'
  BY TwoTasks DEF SlotsOK, CheckSize, LoadFirst, StoreFirst, GoesTo
<1>2. RoomInv'
  BY TwoTasks, QueueAssumption DEF RoomInv, ToQueue, CheckSize, LoadFirst, StoreFirst, GoesTo
<1>3. FilledInv'
  BY TwoTasks DEF FilledInv, CheckSize, LoadFirst, StoreFirst, GoesTo
<1>. QED  BY <1>1, <1>2, <1>3

LEMMA LoadLastSlots ==
  ASSUME CursorInv, SlotInv, NEW t \in Tasks, LoadLast(t)
  PROVE  SlotInv'
<1>. USE DEF CursorInv, CursorsOK, SlotInv, Queueing, Pushing, Steps
<1>1. SlotsOK'
  BY TwoTasks DEF SlotsOK, LoadLast, GoesTo
<1>2. RoomInv'
  BY TwoTasks, QueueAssumption DEF RoomInv, ToQueue, LoadLast, GoesTo
<1>3. FilledInv'
  BY ZenonT(30), TwoTasks DEF FilledInv, LoadLast, GoesTo
<1>. QED  BY <1>1, <1>2, <1>3

LEMMA StoreHalfSlots ==
  ASSUME CursorInv, SlotInv, NEW t \in Tasks, StoreAddr(t) \/ StoreRaw(t)
  PROVE  SlotInv'
<1>. USE DEF CursorInv, CursorsOK, SlotInv, Queueing, Pushing, Steps
<1>1. /\ Pushing(t) /\ held[t] \in 0 .. Slots + 1 /\ Queueing(t)
      /\ arg[t] \in Request /\ slot \in [0 .. Slots + 1 -> Request]
  BY HeldIsASlot DEF StoreAddr, StoreRaw, SlotsOK
<1>2. SlotsOK'
  <2>1. slot' \in [0 .. Slots + 1 -> Request]
    BY SMTT(30), <1>1 DEF StoreAddr, StoreRaw, Request
  <2>. QED  BY <2>1, TwoTasks DEF SlotsOK, StoreAddr, StoreRaw, GoesTo
<1>3. RoomInv'
  BY TwoTasks, QueueAssumption DEF RoomInv, ToQueue, StoreAddr, StoreRaw, GoesTo
<1>4. FilledInv'
  <2>. SUFFICES ASSUME ~overlap' PROVE FilledInv'
    BY DEF FilledInv
  <2>1. ~overlap /\ ~Pushing(Other(t)) /\ held[t] = last /\ last \in Nat
    BY <1>1 DEF StoreAddr, StoreRaw, FilledInv
  <2>2. \A i \in 0 .. last' - 1 : slot'[i] \in Asked
    <3>1. SUFFICES ASSUME NEW i \in 0 .. last - 1 PROVE slot'[i] \in Asked
      BY DEF StoreAddr, StoreRaw
    <3>2. slot[i] \in Asked /\ i # held[t] /\ i \in 0 .. Slots + 1
      BY <2>1, HeldIsASlot, <1>1, QueueAssumption DEF FilledInv
    <3>. QED  BY <3>2, <1>1 DEF StoreAddr, StoreRaw
  <2>3. CASE StoreAddr(t)
    <3>1. slot'[last].addr = arg[t].addr
      BY <2>1, <2>3, <1>1 DEF StoreAddr, Request
    <3>. QED  BY <2>1, <2>2, <2>3, <3>1, TwoTasks DEF StoreAddr, GoesTo, FilledInv
  <2>4. CASE StoreRaw(t)
    <3>1. slot'[last].raw = arg[t].raw /\ slot'[last].addr = slot[last].addr
      BY <2>1, <2>4, <1>1 DEF StoreRaw, Request
    <3>. QED  BY <2>1, <2>2, <2>4, <3>1, TwoTasks DEF StoreRaw, GoesTo, FilledInv
  <2>. QED  BY <2>3, <2>4
<1>. QED  BY <1>2, <1>3, <1>4

LEMMA StoreLastSlots ==
  ASSUME CursorInv, SlotInv, NEW t \in Tasks, StoreLast(t)
  PROVE  SlotInv'
<1>. USE DEF CursorInv, CursorsOK, SlotInv, Queueing, Pushing, Steps
<1>1. SlotsOK'
  BY TwoTasks DEF SlotsOK, StoreLast, GoesTo
<1>2. RoomInv'
  BY TwoTasks, QueueAssumption DEF LastInv, RoomInv, ToQueue, StoreLast, GoesTo
<1>3. FilledInv'
  <2>. SUFFICES ASSUME ~overlap' PROVE FilledInv'
    BY DEF FilledInv
  <2>1. /\ ~overlap /\ ~Pushing(Other(t)) /\ held[t] = last /\ last \in Nat
        /\ arg[t] \in Requests[t] /\ last' = last + 1
    BY DEF StoreLast, FilledInv, SlotsOK
  <2>2. slot[last] = arg[t]
    <3>1. slot[last] \in Request /\ arg[t] \in Request
      BY <2>1, HeldIsASlot DEF SlotsOK, StoreLast
    <3>2. slot[last].addr = arg[t].addr /\ slot[last].raw = arg[t].raw
      BY <2>1 DEF FilledInv, StoreLast
    <3>. QED  BY <3>1, <3>2 DEF Request
  <2>3. \A i \in 0 .. last' - 1 : slot'[i] \in Asked
    BY <2>1, <2>2, AskedRequests DEF StoreLast, FilledInv
  <2>. QED  BY <2>1, <2>3, TwoTasks DEF FilledInv, StoreLast, GoesTo
<1>. QED  BY <1>1, <1>2, <1>3

LEMMA TakeSlots == ASSUME CursorInv, SlotInv, Take PROVE SlotInv'
<1>. USE DEF CursorInv, CursorsOK, SlotInv, Queueing, Pushing, Steps
<1>1. CASE \E next \in {"front", "take"} : FindWrite(next)
  <2>1. SlotsOK' /\ RoomInv'
    BY <1>1, TwoTasks, QueueAssumption
       DEF SlotsOK, RoomInv, ToQueue, FindWrite, MayBegin, Begins, Idle
  <2>2. FilledInv'
    BY <1>1, TwoTasks DEF FilledInv, FindWrite, MayBegin, Begins, Idle
  <2>. QED  BY <2>1, <2>2
<1>2. CASE \E next \in {"take", "idle"} : CopyFront(next)
  <2>1. SlotsOK' /\ RoomInv'
    BY <1>2, TwoTasks, QueueAssumption DEF SlotsOK, RoomInv, ToQueue, CopyFront, GoesTo
  <2>2. first \in 0 .. last - 1
    BY <1>2, TwoTasks DEF EnoughInv, AllDue, Due, WillPop, Spare, CopyFront
  <2>3. FilledInv'
    BY <1>2, <2>2, TwoTasks DEF FilledInv, CopyFront, GoesTo
  <2>. QED  BY <2>1, <2>3
<1>3. CASE DropFront
  <2>1. SlotsOK' /\ RoomInv'
    BY <1>3, TwoTasks, QueueAssumption DEF SlotsOK, RoomInv, ToQueue, DropFront, GoesTo
  <2>2. FilledInv'
    BY <1>3, TwoTasks DEF FilledInv, DropFront, GoesTo
  <2>. QED  BY <2>1, <2>2
<1>. QED  BY <1>1, <1>2, <1>3 DEF Take

LEMMA NextSlots == ASSUME CursorInv, SlotInv, [Next]_vars PROVE SlotInv'
<1>1. CASE UNCHANGED vars
  BY <1>1 DEF vars, SlotInv, SlotsOK, RoomInv, FilledInv, ToQueue, Queueing, Pushing
<1>2. CASE Take
  BY <1>2, TakeSlots
<1>3. ASSUME NEW t \in Tasks, NEW r \in Requests[t], QueueWrite(t, r) \/ RefuseWrite(t, r)
      PROVE  SlotInv'
  BY <1>3, <1>1, QueueWriteSlots DEF RefuseWrite
<1>4. ASSUME NEW t \in Tasks,
             CheckSize(t) \/ LoadFirst(t) \/ StoreFirst(t)
               \/ LoadLast(t) \/ StoreAddr(t) \/ StoreRaw(t) \/ StoreLast(t)
      PROVE  SlotInv'
  BY <1>4, FirstSlots, LoadLastSlots, StoreHalfSlots, StoreLastSlots
<1>. QED  BY <1>1, <1>2, <1>3, <1>4 DEF Next

(* A request that loop() takes out for the pump is one that was queued,    *)
(* with its address and value together, unless two pushes have met: the    *)
(* missing lock can mix up requests only where two tasks queue at once.    *)
THEOREM OnlyQueuedIsTaken == Spec => []TakenWasQueued
<1>1. Init => CursorInv /\ SlotInv
  BY InitCursors, InitSlots
<1>2. CursorInv /\ SlotInv /\ [Next]_vars => (CursorInv /\ SlotInv)'
  BY NextCursors, NextSlots
<1>3. SlotInv => TakenWasQueued
  BY DEF SlotInv, FilledInv, TakenWasQueued, Asked
<1>. QED  BY <1>1, <1>2, <1>3, PTL DEF Spec
=============================================================================
