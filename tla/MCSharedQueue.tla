--------------------------- MODULE MCSharedQueue ---------------------------
(* A small instance of SharedQueue for TLC.                                *)
EXTENDS SharedQueue, TLC

\* Home Assistant sets the heat offset, or tries a register that is read-only;
\* the page resets the alarm.
MCRequests == "loop" :> {[addr |-> 47011, raw |-> 5], [addr |-> 10012, raw |-> 1]}
           @@ "web"  :> {[addr |-> 45171, raw |-> 1]}

MCNoRequest == [addr |-> 0, raw |-> 0]
=============================================================================
