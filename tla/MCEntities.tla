----------------------------- MODULE MCEntities -----------------------------
(* A small instance of Entities for TLC.                                   *)
EXTENDS Entities, TLC

\* The heat offset in steps of a tenth, lux with one of its options, and a
\* switch that the pump may also set to 2.
MCKind == 47011 :> "number" @@ 48132 :> "select" @@ 47371 :> "switch"

Reg(size, factor, min, max) ==
  [size |-> size, factor |-> factor, min |-> min, max |-> max, wo |-> 0]

MCMeta == 47011 :> Reg("s8", 10, -1, 1)
       @@ 48132 :> Reg("s8", 1, 0, 0)
       @@ 47371 :> Reg("u8", 1, 0, 0)

MCOptions == 48132 :> <<4>>

\* 3 is no option of the select.
MCHolds == 47011 :> {-1, 1} @@ 48132 :> {3, 4} @@ 47371 :> {0, 2}

\* 0.08, in sixtieths: it becomes 0.1.
MCWishes == 47011 :> {5}
=============================================================================
