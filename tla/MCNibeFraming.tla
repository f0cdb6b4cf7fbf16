---------------------------- MODULE MCNibeFraming ----------------------------
(* Small instances of NibeFraming for TLC.                                 *)
EXTENDS NibeFraming

Msg(to, cmd, data) == [to |-> to, cmd |-> cmd, data |-> data]

\* A read poll, and a value that holds 5C 00, which looks like the start of a
\* frame, in a frame whose checksum is 5C.
TwoMessages == <<Msg(32, 105, <<>>), Msg(32, 104, <<92, 0, 16>>)>>

\* A value of 5C5C.
DoubleMessages == <<Msg(32, 105, <<>>), Msg(32, 104, <<68, 156, 92, 92>>)>>
=============================================================================
