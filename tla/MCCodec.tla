------------------------------ MODULE MCCodec ------------------------------
(* A small instance of Codec for TLC.                                      *)
EXTENDS Codec, TLC

\* Registers of the catalog's kinds.
Reg(size, factor, min, max, wo) ==
  [size |-> size, factor |-> factor, min |-> min, max |-> max, wo |-> wo]

MCCatalog == 40004 :> Reg("s16", 10, -500, 500, 0)
          @@ 40033 :> Reg("s16", 10, 0, 0, 0)
          @@ 43005 :> Reg("s16", 10, -30000, 30000, 0)
          @@ 47011 :> Reg("s8", 1, -10, 10, 0)
          @@ 48132 :> Reg("s8", 1, 0, 0, 0)
          @@ 47371 :> Reg("u8", 1, 0, 1, 0)
          @@ 40072 :> Reg("u16", 100, 0, 0, 0)
          @@ 43416 :> Reg("s32", 60, 0, 999999, 0)
          @@ 43420 :> Reg("s32", 1, 0, 0, 1)
          @@ 40940 :> Reg("s32", 10, -30000, 30000, 0)
          @@ 30267 :> Reg("u32", 1, 0, 0, 0)

MCNumbers == "u8"  :> {0, 1, 2, 255}
          @@ "s8"  :> {-128, -11, -1, 0, 10, 127}
          @@ "u16" :> {0, 255, 256, 65535}
          @@ "s16" :> {-32768, -501, -500, -1, 0, 500, 501, 32767}
          @@ "u32" :> {0, 65535, 65536, 7000000}
          @@ "s32" :> {-7000000, -65536, -30001, -1, 0, 30000, 65535, 65536, 7000000}

\* One that holds nothing of note, and one that holds the address of a register.
MCStrangers == {<<40, 7>>, <<30, 40033>>}

MCModels == {<<"VVM", "500">>, <<"SMO", "40">>, <<"STAR", "12">>, <<"Tehowatti", "Air">>,
             <<"F750">>, <<"S1255">>}

MCText == Mark \cup {"6", "E", "VVM", "500"}

MCOffsets == {-60, -30, -11, -5, -3, -1, 0, 1, 3, 5, 30, 300}
=============================================================================
