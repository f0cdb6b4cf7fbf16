---------------------------- MODULE WriteService ----------------------------
(***************************************************************************)
(* What HeatWhisper promises about the write requests its users issue      *)
(* (a number set, a switch toggled, the alarm reset), whatever transport   *)
(* carries them.  Requests are numbered in the order they are issued.      *)
(*                                                                         *)
(*   - at most Cap requests wait; a request too many pushes out the oldest *)
(*     one that waits;                                                     *)
(*   - only the oldest waiting request is put on the wire, and at most     *)
(*     MaxAttempts times;                                                  *)
(*   - requests leave in the order they were issued, each one once.        *)
(*                                                                         *)
(* Both bus drivers are shown to implement it: ModbusMaster, which sends   *)
(* and waits for the echo, and NibeSlave, which sends and forgets.  They   *)
(* say what the constants are.                                             *)
(***************************************************************************)
EXTENDS Integers, FiniteSets

CONSTANTS MaxWrites,    \* bound: how many requests are ever issued
          Cap,          \* requests that can wait
          MaxAttempts   \* transmissions of one request

VARIABLES fate,   \* what has become of each request
          sends   \* how often each request was put on the wire

vars == <<fate, sends>>

Request  == 1..MaxWrites
Finished == {"acked", "abandoned", "sent"}
Fates    == {"none", "refused", "queued", "overflowed"} \cup Finished

TypeOK ==
  /\ fate  \in [Request -> Fates]
  /\ sends \in [Request -> Nat]

Init ==
  /\ fate  = [w \in Request |-> "none"]
  /\ sends = [w \in Request |-> 0]

Waiting(f) == {w \in Request : f[w] = "queued"}

IsWaiting(w, f) == w \in Waiting(f)

IsOldest(w, f) == w \in Waiting(f) /\ \A v \in Waiting(f) : w <= v

IsNext(w) == fate[w] = "none" /\ \A v \in Request : v < w => fate[v] # "none"

-----------------------------------------------------------------------------
(* A request for a register that cannot be written is turned away.         *)
Refuse(w) ==
  /\ IsNext(w)
  /\ fate' = [fate EXCEPT ![w] = "refused"]
  /\ UNCHANGED sends

(* A request is accepted; if Cap requests wait already, the oldest goes.   *)
Accept(w) ==
  /\ IsNext(w)
  /\ \/ /\ Cardinality(Waiting(fate)) < Cap
        /\ fate' = [fate EXCEPT ![w] = "queued"]
     \/ /\ Cardinality(Waiting(fate)) = Cap
        /\ \E v \in Request :
             /\ IsOldest(v, fate)
             /\ fate' = [fate EXCEPT ![v] = "overflowed", ![w] = "queued"]
  /\ UNCHANGED sends

ConcludeAny(f) ==
  \E w \in Request, o \in Finished :
    fate[w] # "none" /\ f = [fate EXCEPT ![w] = o]

(* The oldest waiting request leaves, for good or ill.                     *)
Conclude(f) ==
  \E w \in Request, o \in Finished :
    IsOldest(w, fate) /\ f = [fate EXCEPT ![w] = o]

(* The oldest request of those that wait under f goes on the wire.         *)
Transmit(f) ==
  \E w \in Request :
    /\ IsOldest(w, f)
    /\ sends[w] < MaxAttempts
    /\ sends' = [sends EXCEPT ![w] = @ + 1]

(* The driver's three steps: an answer or a failure ends a request, a poll *)
(* sends one, and a poll that gives one up sends the next.                 *)
ConcludeOnly == Conclude(fate') /\ UNCHANGED sends

TransmitOnly == Transmit(fate) /\ UNCHANGED fate

ConcludeThenTransmit == Conclude(fate') /\ Transmit(fate')

(* Fire and forget: the request that is sent is also the one that leaves.  *)
TransmitAndConclude == Conclude(fate') /\ Transmit(fate)

Next ==
  \/ \E w \in Request : Refuse(w) \/ Accept(w)
  \/ ConcludeOnly
  \/ TransmitOnly
  \/ ConcludeThenTransmit
  \/ TransmitAndConclude

Spec == Init /\ [][Next]_vars

-----------------------------------------------------------------------------
(* While a request waits, no younger one has been on the wire: neither a   *)
(* full queue nor a retry lets a later request overtake.                   *)
InOrder ==
  \A v, w \in Request : v < w /\ fate[v] = "queued" => sends[w] = 0

(* What has become of a request never changes again once it has left the   *)
(* queue, and from then on it is not on the wire.                          *)
NeverRevived ==
  [][\A w \in Request : fate[w] \notin {"none", "queued"} =>
       fate'[w] = fate[w] /\ sends'[w] = sends[w]]_vars
=============================================================================
