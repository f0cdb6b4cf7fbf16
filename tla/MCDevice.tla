------------------------------ MODULE MCDevice ------------------------------
(* Small instances of Device for TLC.                                      *)
EXTENDS Device, TLC

Both == "F1255" :> [addr |-> 1, fc |-> 16] @@ "WPM" :> [addr |-> 2, fc |-> 6]
One  == "F1255" :> [addr |-> 1, fc |-> 16]

\* Register 3 may be written but is below 20000; 30001 is titled like 47011;
\* the select 47041 has no options in the second catalog.
Catalog ==
  [meta     |-> 3 :> TRUE @@ 5 :> FALSE @@ 7 :> FALSE
                @@ 47011 :> TRUE @@ 30001 :> FALSE @@ 47041 :> TRUE,
   object   |-> 3 :> "pump" @@ 5 :> "flow" @@ 7 :> "return"
                @@ 47011 :> "offset" @@ 30001 :> "offset" @@ 47041 :> "comfort",
   hint     |-> 47041 :> 3,
   options  |-> 47041 :> 4,
   defaults |-> <<3, 5, 7>>,
   maps     |-> "F1255" :> {3, 47011, 47041} @@ "WPM" :> {3, 30001, 47011}]

OldCatalog ==
  [meta     |-> 3 :> TRUE @@ 47011 :> TRUE @@ 47041 :> TRUE,
   object   |-> 3 :> "pump" @@ 47041 :> "comfort",
   hint     |-> 47041 :> 3,
   options  |-> 47041 :> 0,
   defaults |-> <<3>>,
   maps     |-> "F1255" :> {3, 47011, 47041} @@ "WPM" :> {3, 47011}]

Image(isModbus, name, slave, transports, catalog) ==
  [modbus |-> isModbus, model |-> name, addr |-> slave,
   models |-> {"F1255", "WPM"}, transports |-> transports] @@ catalog

NibeBuild   == Image(FALSE, "", 1, Both, Catalog)
ModbusBuild == Image(TRUE, "F1255", 7, Both, Catalog)

\* Another firmware, of a smaller catalog: WPM without its transport.
OldBuild == Image(FALSE, "WPM", 1, One, OldCatalog)

MCBuilds == {NibeBuild, ModbusBuild, OldBuild}
OneBuild == {ModbusBuild}
=============================================================================
