------------------------- MODULE WriteService_proof -------------------------
(***************************************************************************)
(* Requests never overtake one another, for any number of requests, any    *)
(* capacity and any number of attempts.  Whatever implements WriteService  *)
(* inherits it.                                                            *)
(*                                                                         *)
(* InOrder is not inductive: a request that is accepted must find the      *)
(* younger ones unsent, which holds because requests are issued in order   *)
(* (Issued) and nothing is sent before it is issued (NoneUnsent).          *)
(***************************************************************************)
EXTENDS WriteService, TLAPS

NoneUnsent == \A w \in Request : fate[w] = "none" => sends[w] = 0

Issued ==
  \A v, w \in Request : v < w /\ fate[v] = "none" => fate[w] = "none"

Inv == TypeOK /\ InOrder /\ NoneUnsent /\ Issued

-----------------------------------------------------------------------------
LEMMA RequestsAreNumbers == Request \subseteq Int
  BY DEF Request

LEMMA InitInv == Init => Inv
  BY DEF Init, Inv, TypeOK, InOrder, NoneUnsent, Issued, Fates

LEMMA RefuseStep ==
  ASSUME Inv, NEW w \in Request, Refuse(w)
  PROVE  Inv'
<1>1. /\ fate' = [fate EXCEPT ![w] = "refused"] /\ sends' = sends
      /\ fate[w] = "none" /\ \A v \in Request : v < w => fate[v] # "none"
  BY DEF Refuse, IsNext
<1>2. \A v \in Request : fate'[v] = IF v = w THEN "refused" ELSE fate[v]
  BY <1>1 DEF Inv, TypeOK
<1>3. TypeOK'
  BY <1>1 DEF Inv, TypeOK, Fates
<1>4. InOrder' /\ NoneUnsent'
  BY <1>1, <1>2 DEF Inv, InOrder, NoneUnsent
<1>5. Issued'
  BY <1>1, <1>2 DEF Inv, Issued
<1>. QED  BY <1>3, <1>4, <1>5 DEF Inv

LEMMA AcceptStep ==
  ASSUME Inv, NEW w \in Request, Accept(w)
  PROVE  Inv'
<1>1. /\ sends' = sends
      /\ fate[w] = "none" /\ \A v \in Request : v < w => fate[v] # "none"
  BY DEF Accept, IsNext
<1>2. PICK v \in Request :
        \/ fate' = [fate EXCEPT ![w] = "queued"]
        \/ IsOldest(v, fate) /\ fate' = [fate EXCEPT ![v] = "overflowed", ![w] = "queued"]
  BY DEF Accept
<1>3. \A u \in Request :
        \/ u = w /\ fate'[u] = "queued"
        \/ u # w /\ fate'[u] = fate[u]
        \/ u # w /\ fate[u] = "queued" /\ fate'[u] = "overflowed"
  BY <1>2 DEF Inv, TypeOK, IsOldest, Waiting
<1>4. TypeOK'
  BY <1>1, <1>2 DEF Inv, TypeOK, Fates
<1>5. InOrder'
  <2>. SUFFICES ASSUME NEW a \in Request, NEW b \in Request,
                       a < b, fate'[a] = "queued"
                PROVE  sends'[b] = 0
    BY DEF InOrder
  <2>1. CASE a = w
    <3>1. fate[b] = "none"
      BY <1>1, <2>1 DEF Inv, Issued
    <3>. QED  BY <1>1, <3>1 DEF Inv, NoneUnsent
  <2>2. CASE a # w
    <3>1. fate[a] = "queued"
      BY <1>3, <2>2
    <3>. QED  BY <1>1, <3>1 DEF Inv, InOrder
  <2>. QED  BY <2>1, <2>2
<1>6. NoneUnsent'
  BY <1>1, <1>3 DEF Inv, NoneUnsent
<1>7. Issued'
  BY <1>1, <1>3 DEF Inv, Issued
<1>. QED  BY <1>4, <1>5, <1>6, <1>7 DEF Inv

(* A request that leaves was waiting, and nothing else changes.            *)
LEMMA ConcludeFacts ==
  ASSUME TypeOK, Conclude(fate')
  PROVE  /\ fate' \in [Request -> Fates]
         /\ \A u \in Request :
              \/ fate'[u] = fate[u]
              \/ fate[u] = "queued" /\ fate'[u] \in Finished
<1>1. PICK w \in Request, o \in Finished :
        IsOldest(w, fate) /\ fate' = [fate EXCEPT ![w] = o]
  BY DEF Conclude
<1>. QED  BY <1>1 DEF TypeOK, IsOldest, Waiting, Fates

(* A request that is transmitted waits, and no older one does.             *)
LEMMA TransmitFacts ==
  ASSUME TypeOK, NEW f, Transmit(f)
  PROVE  /\ sends' \in [Request -> Nat]
         /\ \E w \in Request :
              /\ f[w] = "queued"
              /\ \A v \in Request : v < w => f[v] # "queued"
              /\ \A u \in Request : u # w => sends'[u] = sends[u]
<1>1. PICK w \in Request :
        IsOldest(w, f) /\ sends' = [sends EXCEPT ![w] = @ + 1]
  BY DEF Transmit
<1>2. \A v \in Request : v < w => f[v] # "queued"
  BY <1>1, RequestsAreNumbers DEF IsOldest, Waiting
<1>. QED  BY <1>1, <1>2 DEF TypeOK, IsOldest, Waiting

(* What the four transmitting and concluding steps have in common.         *)
LEMMA DriverStep ==
  ASSUME Inv,
         fate' \in [Request -> Fates],
         \A u \in Request : \/ fate'[u] = fate[u]
                            \/ fate[u] = "queued" /\ fate'[u] \in Finished,
         NEW f, f = fate \/ f = fate',
         sends' = sends \/ Transmit(f)
  PROVE  Inv'
<1>1. CASE sends' = sends
  BY <1>1 DEF Inv, TypeOK, InOrder, NoneUnsent, Issued, Finished
<1>2. CASE Transmit(f)
  <2>1. PICK w \in Request :
          /\ f[w] = "queued"
          /\ \A v \in Request : v < w => f[v] # "queued"
          /\ \A u \in Request : u # w => sends'[u] = sends[u]
    BY <1>2, TransmitFacts DEF Inv
  <2>2. \A u \in Request : fate'[u] = "queued" => fate[u] = "queued"
    BY DEF Finished
  <2>3. \A u \in Request : fate'[u] = "none" <=> fate[u] = "none"
    BY DEF Finished
  <2>4. TypeOK'
    BY <1>2, TransmitFacts DEF Inv, TypeOK
  <2>5. InOrder'
    <3>. SUFFICES ASSUME NEW a \in Request, NEW b \in Request,
                         a < b, fate'[a] = "queued"
                  PROVE  sends'[b] = 0
      BY DEF InOrder
    <3>1. f[a] = "queued" /\ fate[a] = "queued"
      BY <2>2
    <3>2. b # w
      BY <2>1, <3>1
    <3>. QED  BY <2>1, <3>1, <3>2 DEF Inv, InOrder
  <2>6. NoneUnsent'
    <3>1. fate[w] # "none"
      BY <2>1, <2>3
    <3>. QED  BY <2>1, <2>3, <3>1 DEF Inv, NoneUnsent
  <2>7. Issued'
    BY <2>3 DEF Inv, Issued
  <2>. QED  BY <2>4, <2>5, <2>6, <2>7 DEF Inv
<1>. QED  BY <1>1, <1>2

LEMMA NextInv == Inv /\ [Next]_vars => Inv'
<1>. SUFFICES ASSUME Inv, [Next]_vars PROVE Inv'
  OBVIOUS
<1>0. TypeOK
  BY DEF Inv
<1>1. CASE UNCHANGED vars
  BY <1>1 DEF vars, Inv, TypeOK, InOrder, NoneUnsent, Issued
<1>2. ASSUME NEW w \in Request, Refuse(w) PROVE Inv'
  BY <1>2, RefuseStep
<1>3. ASSUME NEW w \in Request, Accept(w) PROVE Inv'
  BY <1>3, AcceptStep
<1>4. CASE ConcludeOnly
  BY <1>0, <1>4, ConcludeFacts, DriverStep DEF ConcludeOnly
<1>5. CASE TransmitOnly
  <2>1. fate' \in [Request -> Fates] /\ \A u \in Request : fate'[u] = fate[u]
    BY <1>0, <1>5 DEF TransmitOnly, TypeOK
  <2>. QED  BY <1>5, <2>1, DriverStep DEF TransmitOnly
<1>6. CASE ConcludeThenTransmit
  BY <1>0, <1>6, ConcludeFacts, DriverStep DEF ConcludeThenTransmit
<1>7. CASE TransmitAndConclude
  BY <1>0, <1>7, ConcludeFacts, DriverStep DEF TransmitAndConclude
<1>. QED  BY <1>1, <1>2, <1>3, <1>4, <1>5, <1>6, <1>7 DEF Next

(* Neither a full queue nor a retry lets a later request overtake one that *)
(* waits: queue_write() appends, and only the front of writes_ is sent.    *)
THEOREM Ordering == Spec => []InOrder
<1>1. Inv => InOrder
  BY DEF Inv
<1>. QED  BY <1>1, InitInv, NextInv, PTL DEF Spec

(* A request that was refused, given way to a younger one, or been         *)
(* concluded stays so, and is never on the wire again.                     *)
THEOREM Finality == Spec => NeverRevived
<1>. DEFINE Kept == \A w \in Request : fate[w] \notin {"none", "queued"} =>
                      fate'[w] = fate[w] /\ sends'[w] = sends[w]
<1>1. Inv /\ [Next]_vars => [Kept]_vars
  <2>. SUFFICES ASSUME Inv, Next PROVE Kept
    BY DEF vars
  <2>0. TypeOK
    BY DEF Inv
  <2>1. ASSUME NEW w \in Request, Refuse(w) PROVE Kept
    BY <2>0, <2>1 DEF Refuse, IsNext, TypeOK
  <2>2. ASSUME NEW w \in Request, Accept(w) PROVE Kept
    BY <2>0, <2>2 DEF Accept, IsNext, TypeOK, IsOldest, Waiting
  <2>3. CASE ConcludeOnly
    BY <2>0, <2>3, ConcludeFacts DEF ConcludeOnly
  <2>4. ASSUME NEW f, Transmit(f), \A u \in Request : f[u] = "queued" => fate[u] = "queued"
        PROVE  \A u \in Request : fate[u] # "queued" => sends'[u] = sends[u]
    BY <2>0, <2>4, TransmitFacts
  <2>5. CASE TransmitOnly
    BY <2>4, <2>5 DEF TransmitOnly
  <2>6. CASE ConcludeThenTransmit
    <3>1. \A u \in Request : fate'[u] = "queued" => fate[u] = "queued"
      BY <2>0, <2>6, ConcludeFacts DEF ConcludeThenTransmit, Finished
    <3>. QED  BY <2>0, <2>4, <2>6, <3>1, ConcludeFacts DEF ConcludeThenTransmit
  <2>7. CASE TransmitAndConclude
    BY <2>0, <2>4, <2>7, ConcludeFacts DEF TransmitAndConclude
  <2>. QED  BY <2>1, <2>2, <2>3, <2>5, <2>6, <2>7 DEF Next
<1>. QED  BY <1>1, InitInv, NextInv, PTL DEF Spec, NeverRevived
=============================================================================
