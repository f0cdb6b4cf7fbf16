------------------------------- MODULE Device -------------------------------
(***************************************************************************)
(* RuntimeMode with what else a boot takes from flash: the registers a     *)
(* user has picked, the entities create_entities() makes of them, the page *)
(* that list_json_() fills and the request handle_save_() takes apart.     *)
(*                                                                         *)
(* A user picks registers for one firmware and boots another one with      *)
(* them; the model the page goes by may change after the boot; a request   *)
(* may be wrong in its last number; power may go at any time, also between *)
(* two entities.                                                           *)
(***************************************************************************)
EXTENDS RuntimeMode, Sequences, FiniteSets

(* A firmware image has these fields besides those of RuntimeMode:         *)
(*   meta      HW_META: register -> whether it may be written              *)
(*   object    register -> hash of the title's object id                   *)
(*   hint      HW_HINTS: register -> kind                                  *)
(*   options   register whose hint is a select -> how many options         *)
(*   defaults  HW_DEFAULTS                                                 *)
(*   maps      HW_MODELS: model -> its registers                           *)
CONSTANTS
  MaxSelection,   \* HW_MAX_SELECTION (50 in the code)
  Posted          \* the numbers that users post

Sensor == 0
Number == 1
Switch == 2
Select == 3

ASSUME DeviceAssumption ==
  /\ MaxSelection \in Nat
  /\ Posted \subseteq Nat
  /\ \A b \in Builds :
       /\ b.defaults \in Seq(Nat)
       /\ DOMAIN b.maps = b.models
       /\ \A a \in DOMAIN b.hint : b.hint[a] = Select => a \in DOMAIN b.options

VARIABLES
  selection,   \* the HeatWhisperSelection record: none, or one list of registers
  phase,       \* "off", "setup" or "run"
  booted,      \* addrs in create_entities()
  index,       \* i there
  ents,        \* the entities, in the order they are made
  form,        \* a request handle_save_() is at: none, or its addrs so far
  posted       \* history: the numbers of that request so far

own        == <<selection, phase, booted, index, ents, form, posted>>
deviceVars == <<vars, own>>

-----------------------------------------------------------------------------
(* load_selection and create_entities: what to make entities of.           *)
Loads == selection # <<>> /\ Len(selection[1]) <= MaxSelection

DefaultsUncut(b) == b.defaults

Defaults(b) ==
  IF Len(b.defaults) > MaxSelection THEN SubSeq(b.defaults, 1, MaxSelection) ELSE b.defaults

Chosen(b) == IF Loads THEN selection[1] ELSE Defaults(b)

(* The kind of an entity.  A register below 20000 is never written.        *)
KindOf(b, a) ==
  CASE a < 20000 -> Sensor
    [] a >= 20000 /\ a \in DOMAIN b.hint -> b.hint[a]
    [] a >= 20000 /\ a \notin DOMAIN b.hint -> IF b.meta[a] THEN Number ELSE Sensor

Titled(b, a) == a \in DOMAIN b.meta /\ a \in DOMAIN b.object

Usable(b, a) ==
  \/ KindOf(b, a) \in {Sensor, Number, Switch}
  \/ KindOf(b, a) = Select /\ b.options[a] > 0

Taken(object) == \E i \in DOMAIN ents : ents[i].object = object

Entity(b, a) == [addr |-> a, kind |-> KindOf(b, a), object |-> b.object[a]]

MakeAnyway(a) == ents' = IF Titled(build, a) /\ Usable(build, a)
                         THEN Append(ents, Entity(build, a)) ELSE ents

(* One round of the loop in create_entities.                               *)
Make(a) ==
  ents' = IF Titled(build, a) /\ Usable(build, a) /\ ~Taken(build.object[a])
          THEN Append(ents, Entity(build, a)) ELSE ents

CreateEntity ==
  /\ phase = "setup"
  /\ index <= Len(booted)
  /\ Make(booted[index])
  /\ index' = index + 1
  /\ UNCHANGED <<vars, selection, phase, booted, form, posted>>

SetupDone ==
  /\ phase = "setup"
  /\ index > Len(booted)
  /\ phase' = "run"
  /\ UNCHANGED <<vars, selection, booted, index, ents, form, posted>>

-----------------------------------------------------------------------------
SwitchOn ==
  /\ PowerUp
  /\ phase' = "setup"
  /\ booted' = Chosen(build)
  /\ index' = 1
  /\ UNCHANGED <<selection, ents, form, posted>>

SwitchOff ==
  /\ PowerDown
  /\ phase' = "off"
  /\ booted' = <<>>
  /\ index' = 0
  /\ ents' = <<>>
  /\ form' = <<>>
  /\ posted' = {}
  /\ UNCHANGED selection

Replace == Update /\ UNCHANGED own

(* The web handlers and the bus: after setup only.                         *)
ChangeMode(m) ==
  /\ phase = "run"
  /\ SaveNibe(m) \/ SaveModbus(m) \/ Announce(m)
  /\ UNCHANGED own

-----------------------------------------------------------------------------
(* handle_save_: the numbers of the request one by one.  A number out of   *)
(* range or unknown, and one too many, refuse the whole request (400).     *)
OpenForm ==
  /\ phase = "run" /\ form = <<>>
  /\ form' = << <<>> >>
  /\ posted' = {}
  /\ UNCHANGED <<vars, selection, phase, booted, index, ents>>

Refused(v) == v <= 0 \/ v > 65535 \/ v \notin DOMAIN build.meta

Repeated(v) == \E i \in DOMAIN form[1] : form[1][i] = v

\* What is remembered of a request that has been refused is nothing.
Note(v) == posted' = IF form' = <<>> THEN {} ELSE posted \cup {v}

ReadNumberRepeating(v) ==
  /\ form # <<>>
  /\ form' = IF Refused(v) \/ Len(form[1]) >= MaxSelection THEN <<>>
             ELSE <<Append(form[1], v)>>
  /\ Note(v)
  /\ UNCHANGED <<vars, selection, phase, booted, index, ents>>

ReadNumberSkipping(v) ==
  /\ form # <<>>
  /\ form' = IF Refused(v) \/ Repeated(v) \/ Len(form[1]) >= MaxSelection THEN form
             ELSE <<Append(form[1], v)>>
  /\ Note(v)
  /\ UNCHANGED <<vars, selection, phase, booted, index, ents>>

ReadNumber(v) ==
  /\ form # <<>>
  /\ form' = CASE Refused(v) -> <<>>
               [] ~Refused(v) /\ Repeated(v) -> form
               [] ~Refused(v) /\ ~Repeated(v) ->
                    IF Len(form[1]) >= MaxSelection THEN <<>> ELSE <<Append(form[1], v)>>
  /\ Note(v)
  /\ UNCHANGED <<vars, selection, phase, booted, index, ents>>

(* save_selection, which may fail (500).                                   *)
CloseForm ==
  /\ form # <<>>
  /\ form' = <<>>
  /\ posted' = {}
  /\ \/ Len(form[1]) <= MaxSelection /\ selection' = form
     \/ UNCHANGED selection
  /\ UNCHANGED <<vars, phase, booted, index, ents>>

-----------------------------------------------------------------------------
(* list_json_: which registers the page offers, of what kind, and which of *)
(* them are ticked.                                                        *)
Members(s) == {s[i] : i \in DOMAIN s}

Offered ==
  {a \in IF model \in build.models THEN build.maps[model] ELSE Members(build.defaults) :
     a \in DOMAIN build.meta /\ a \in DOMAIN build.object}

Hinted(a) ==
  IF a \in DOMAIN build.hint THEN build.hint[a]
  ELSE IF build.meta[a] THEN Number ELSE Sensor

OfferedKindAsHinted(a) == IF Hinted(a) > Select THEN Sensor ELSE Hinted(a)

OfferedKind(a) == IF a < 20000 \/ Hinted(a) > Select THEN Sensor ELSE Hinted(a)

Ticked == Members(IF Loads THEN selection[1] ELSE build.defaults)

-----------------------------------------------------------------------------
DeviceInit ==
  /\ Init
  /\ selection = <<>>
  /\ phase = "off"
  /\ booted = <<>>
  /\ index = 0
  /\ ents = <<>>
  /\ form = <<>>
  /\ posted = {}

DeviceNext ==
  \/ SwitchOn \/ SwitchOff \/ Replace
  \/ CreateEntity \/ SetupDone
  \/ \E m \in Names \cup {Unnamed} : ChangeMode(m)
  \/ OpenForm \/ CloseForm
  \/ \E v \in Posted : ReadNumber(v)

DeviceSpec == DeviceInit /\ [][DeviceNext]_deviceVars

-----------------------------------------------------------------------------
(* A register has one entity at most and no two entities share an object   *)
(* id, under which Home Assistant would take them for one.                 *)
OneEntityEach ==
  \A i, j \in DOMAIN ents :
    i # j => ents[i].addr # ents[j].addr /\ ents[i].object # ents[j].object

(* ESPHome keeps MaxSelection slots for the entities of each kind and      *)
(* drops what does not fit without a word.                                 *)
SlotsSuffice ==
  \A k \in {Sensor, Number, Switch, Select} :
    Cardinality({i \in DOMAIN ents : ents[i].kind = k}) <= MaxSelection

(* The selection in flash repeats no register, so that none of its places  *)
(* is wasted, and holds no more than a boot can load.                      *)
SelectionSound ==
  selection # <<>> =>
    /\ Loads
    /\ Cardinality(Members(selection[1])) = Len(selection[1])

(* A request is saved whole or not at all: what handle_save_() puts into   *)
(* flash are all the numbers of the request, however it repeats them, and  *)
(* never what was read of one before it was refused.                       *)
SavedWhole == [][selection' # selection => Members(selection'[1]) = posted]_deviceVars

(* The page tells the truth about the entities of a saved selection that   *)
(* has been booted with: what it offers with a tick exists, as the kind it *)
(* says, unless another entity has the object id or it is a select without *)
(* options; and what exists has its tick.                                  *)
PageShowsEntities ==
  phase = "run" /\ selection = <<booted>> =>
    \A a \in Offered :
      /\ a \in Ticked => Taken(build.object[a]) \/ ~Usable(build, a)
      /\ \A i \in DOMAIN ents :
           ents[i].addr = a => a \in Ticked /\ OfferedKind(a) = ents[i].kind
=============================================================================
