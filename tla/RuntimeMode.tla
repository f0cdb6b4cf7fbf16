----------------------------- MODULE RuntimeMode -----------------------------
(***************************************************************************)
(* Which protocol and which pump model HeatWhisper runs with.  The YAML    *)
(* bakes a mode into the firmware, the picker page saves another one to    *)
(* flash, the pump announces its model on the NIBE bus, and each boot puts *)
(* the three together: load_mode, save_mode, apply_runtime_mode_,          *)
(* handle_mode_save_ and the 0x6D branch of on_frame_.                     *)
(*                                                                         *)
(* Power may go at any time, saving to flash may fail, and a new firmware  *)
(* may bring another YAML and another catalog while the flash record stays.*)
(***************************************************************************)
EXTENDS Naturals

CONSTANTS
  Builds,      \* firmware images: [modbus, model, addr, models, transports]
  Names,       \* model names a user or a pump may come up with
  LongNames,   \* those of 24 characters and more, cut short in flash
  Unnamed,     \* the empty string
  CutShort     \* what a long name has become in flash

Build ==
  {b \in Builds : /\ DOMAIN b.transports \subseteq b.models
                  /\ b.modbus => b.model \in DOMAIN b.transports}

ASSUME ModeAssumption ==
  /\ Builds = Build          \* to_code() refuses any other configuration
  /\ Builds # {}
  /\ LongNames \subseteq Names
  /\ Unnamed \notin Names /\ CutShort \notin Names
  /\ \A b \in Builds :
       /\ b.modbus \in BOOLEAN
       /\ b.model \in Names \cup {Unnamed}
       /\ b.addr \in Nat
       /\ b.models \subseteq Names \ LongNames
       /\ \A m \in DOMAIN b.transports : b.transports[m].addr \in Nat
       /\ \A m \in DOMAIN b.transports : b.transports[m].fc \in {6, 16}

NoRecord == [mode |-> 2, model |-> Unnamed]

VARIABLES
  build,      \* the firmware in place
  up,         \* it is running
  modbus,     \* modbus_
  model,      \* model_
  addr,       \* modbus_addr_
  flash,      \* the HeatWhisperMode record, or NoRecord
  choice,     \* history: the mode a user last saved, until a boot acts on it
  carried     \* history: modbus_ of the last run, unless something was saved since

vars == <<build, up, modbus, model, addr, flash, choice, carried>>

-----------------------------------------------------------------------------
RecordUncut(mode, m) == [mode |-> mode, model |-> m]

(* save_mode cuts the name to 23 characters; load_mode takes back what was *)
(* saved.                                                                  *)
Record(mode, m) ==
  [mode |-> mode, model |-> IF m \in LongNames THEN CutShort ELSE m]

EffectiveUnchecked(b, r) ==
  CASE r.mode = 0 ->
         [modbus |-> FALSE,
          model  |-> IF r.model \in b.models THEN r.model ELSE b.model,
          addr   |-> b.addr]
    [] r.mode = 1 /\ r.model \in b.models -> [modbus |-> TRUE, model |-> r.model, addr |-> b.addr]
    [] OTHER -> [modbus |-> b.modbus, model |-> b.model, addr |-> b.addr]

EffectiveKeepsModbus(b, r) ==
  IF r.mode = 1 /\ r.model \in DOMAIN b.transports
  THEN [modbus |-> TRUE, model |-> r.model, addr |-> b.transports[r.model].addr]
  ELSE [modbus |-> b.modbus, model |-> b.model, addr |-> b.addr]

(* apply_runtime_mode_: what boot b makes of flash record r.               *)
Effective(b, r) ==
  CASE r.mode = 0 ->
         [modbus |-> FALSE,
          model  |-> IF r.model \in b.models THEN r.model ELSE b.model,
          addr   |-> b.addr]
    [] r.mode = 1 /\ r.model \in DOMAIN b.transports ->
         [modbus |-> TRUE,
          model  |-> r.model,
          addr   |-> b.transports[r.model].addr]
    [] OTHER -> [modbus |-> b.modbus, model |-> b.model, addr |-> b.addr]

-----------------------------------------------------------------------------
(* write_fc_for_model_: how a master writes registers of one word.         *)
WriteFc(b, m) == IF m \in DOMAIN b.transports THEN b.transports[m].fc ELSE 6

-----------------------------------------------------------------------------
(* The generated code and setup().                                         *)
PowerUp ==
  /\ ~up
  /\ up' = TRUE
  /\ LET e == Effective(build, flash)
     IN  /\ modbus' = e.modbus
         /\ model' = e.model
         /\ addr' = e.addr
  /\ choice' = "none"
  /\ UNCHANGED <<build, flash, carried>>

PowerDown ==
  /\ up
  /\ up' = FALSE
  /\ carried' = IF choice = "none" THEN <<modbus>> ELSE <<>>
  /\ UNCHANGED <<build, modbus, model, addr, flash, choice>>

\* An update: the flash record stays.
Update ==
  /\ ~up
  /\ build' \in Builds \ {build}
  /\ carried' = <<>>
  /\ UNCHANGED <<up, modbus, model, addr, flash, choice>>

-----------------------------------------------------------------------------
(* handle_mode_save_.  Saving may fail, and then nothing else happens: that*)
(* answer (500), and the refusal of any other request (400), is a stutter. *)
SaveNibe(m) ==
  /\ up
  /\ flash' = Record(0, m)
  /\ model' = m
  /\ choice' = "nibe"
  /\ UNCHANGED <<build, up, modbus, addr, carried>>

SaveModbus(m) ==
  /\ up
  /\ m \in DOMAIN build.transports
  /\ flash' = Record(1, m)
  /\ choice' = "modbus"
  /\ UNCHANGED <<build, up, modbus, model, addr, carried>>

AnnounceSavesModbus(m) ==
  /\ up /\ ~modbus
  /\ model' = m
  /\ flash' = IF m = Unnamed THEN flash ELSE Record(1, m)
  /\ UNCHANGED <<build, up, modbus, addr, choice, carried>>

AnnounceToMaster(m) ==
  /\ up
  /\ model' = m
  /\ \/ m # Unnamed /\ flash' = Record(0, m)
     \/ UNCHANGED flash
  /\ UNCHANGED <<build, up, modbus, addr, choice, carried>>

(* on_frame_, 0x6D: heard on the NIBE bus only.  A name that is not empty  *)
(* is saved; whether that worked is not looked at.                         *)
Announce(m) ==
  /\ up /\ ~modbus
  /\ model' = m
  /\ \/ m # Unnamed /\ flash' = Record(0, m)
     \/ UNCHANGED flash
  /\ UNCHANGED <<build, up, modbus, addr, choice, carried>>

-----------------------------------------------------------------------------
Init ==
  /\ build \in Builds
  /\ up = FALSE
  /\ modbus = FALSE
  /\ model = Unnamed
  /\ addr = 1
  /\ flash = NoRecord
  /\ choice = "none"
  /\ carried = <<>>

Next ==
  \/ PowerUp
  \/ PowerDown
  \/ Update
  \/ \E m \in Names \cup {Unnamed} : SaveNibe(m) \/ SaveModbus(m) \/ Announce(m)

Spec == Init /\ [][Next]_vars

-----------------------------------------------------------------------------
StoredNames == (Names \ LongNames) \cup {Unnamed, CutShort}

TypeOK ==
  /\ build \in Builds
  /\ up \in BOOLEAN
  /\ modbus \in BOOLEAN
  /\ model \in Names \cup {Unnamed}
  /\ addr \in Nat
  /\ flash \in [mode : {0, 1}, model : StoredNames] \cup {NoRecord}
  /\ choice \in {"none", "nibe", "modbus"}
  /\ carried \in {<<>>, <<TRUE>>, <<FALSE>>}

(* The protocol changes from one boot to the next only when a user has     *)
(* saved a mode in between or the firmware was replaced: what the pump     *)
(* announces and what the catalog knows never switch it.                   *)
OnlyUsersSwitch == up /\ carried # <<>> /\ choice = "none" => <<modbus>> = carried

(* HeatWhisper never comes up as a Modbus master for a model it has no     *)
(* transport for, whatever an older firmware has left in flash.            *)
MastersHaveTransport ==
  [][~up /\ up' /\ modbus' => model' \in DOMAIN build.transports]_vars

(* A user who saves NIBE mode gets it at the next boot.                    *)
NibeChoiceHonoured ==
  [][~up /\ up' /\ choice = "nibe" => ~modbus']_vars

(* The model is looked up again at each write.  Under a running master it  *)
(* does not change the function code of the writes, unless the user asks   *)
(* for NIBE, which renames the model at once and stops the master later.   *)
MasterKeepsFc ==
  [][up /\ up' /\ modbus /\ WriteFc(build, model') # WriteFc(build, model)
       => choice' = "nibe"]_vars

(* A user who saves Modbus mode gets it at the next boot of the firmware:  *)
(* "picker saves {mode,model} to flash, reboot applies it".                *)
ModbusChoiceHonoured ==
  [][~up /\ up' /\ choice = "modbus" => modbus']_vars
=============================================================================
