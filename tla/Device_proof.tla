---------------------------- MODULE Device_proof ----------------------------
(***************************************************************************)
(* Proofs about RuntimeMode and Device, for any firmwares, names,          *)
(* selections and requests.                                                *)
(*                                                                         *)
(* OnlyUsersSwitch speaks of a run and the run before it.  What carries    *)
(* the protocol from one to the other is the record in flash, so the       *)
(* invariant says what the next boot would make of it at any time.         *)
(*                                                                         *)
(* What the entities are at the end of create_entities() is known from a   *)
(* loop invariant: the entities made so far come from the numbers passed   *)
(* so far, no two share an object id, and every number passed that could   *)
(* become an entity finds its object id among them.                        *)
(***************************************************************************)
EXTENDS Device, SequenceTheorems, FiniteSetTheorems, TLAPS

-----------------------------------------------------------------------------
(* Part 1: RuntimeMode.                                                    *)

\* What the firmware in place would do at its next boot.
NextBoot == Effective(build, flash)

\* Unless a user has saved a mode, the next boot does what this one did.
Settled == up /\ choice = "none" => NextBoot.modbus = modbus

\* In between, it does what the last run did.
Kept == ~up /\ carried # <<>> => choice = "none" /\ carried = <<NextBoot.modbus>>

\* The pump cannot undo a choice of NIBE: it saves NIBE itself.
NibeSaved == choice = "nibe" => flash.mode = 0

Inv ==
  /\ TypeOK
  /\ Settled
  /\ Kept
  /\ NibeSaved
  /\ OnlyUsersSwitch

-----------------------------------------------------------------------------
(* What a boot makes of a record is well formed, and a record that says    *)
(* NIBE makes it a NIBE boot.                                              *)
LEMMA EffectiveFacts ==
  ASSUME NEW b \in Builds, NEW r
  PROVE  /\ Effective(b, r).modbus \in BOOLEAN
         /\ Effective(b, r).model \in Names \cup {Unnamed}
         /\ Effective(b, r).addr \in Nat
         /\ r.mode = 0 => ~Effective(b, r).modbus
         /\ Effective(b, r).modbus => Effective(b, r).model \in DOMAIN b.transports
<1>1. /\ DOMAIN b.transports \subseteq b.models
      /\ b.modbus => b.model \in DOMAIN b.transports
  BY ModeAssumption DEF Build
<1>2. /\ b.modbus \in BOOLEAN /\ b.model \in Names \cup {Unnamed} /\ b.addr \in Nat
      /\ b.models \subseteq Names
      /\ \A m \in DOMAIN b.transports : b.transports[m].addr \in Nat
  BY ModeAssumption
<1>3. CASE r.mode = 0
  <2>. DEFINE m == IF r.model \in b.models THEN r.model ELSE b.model
  <2>1. Effective(b, r) = [modbus |-> FALSE, model |-> m, addr |-> b.addr]
    BY <1>3 DEF Effective
  <2>2. m \in Names \cup {Unnamed}
    BY <1>2
  <2>. HIDE DEF m
  <2>. QED  BY <1>2, <2>1, <2>2
<1>4. CASE r.mode = 1 /\ r.model \in DOMAIN b.transports
  <2>1. Effective(b, r) = [modbus |-> TRUE, model |-> r.model,
                           addr |-> b.transports[r.model].addr]
    BY <1>4 DEF Effective
  <2>. QED  BY <1>1, <1>2, <1>4, <2>1
<1>5. CASE r.mode # 0 /\ ~(r.mode = 1 /\ r.model \in DOMAIN b.transports)
  <2>1. Effective(b, r) = [modbus |-> b.modbus, model |-> b.model, addr |-> b.addr]
    BY <1>5 DEF Effective
  <2>. QED  BY <1>1, <1>2, <1>5, <2>1
<1>. QED  BY <1>3, <1>4, <1>5

(* A saved name fits the field.                                            *)
LEMMA RecordFacts ==
  ASSUME NEW mode \in {0, 1}, NEW m \in Names \cup {Unnamed}
  PROVE  /\ Record(mode, m) \in [mode : {0, 1}, model : StoredNames]
         /\ Record(mode, m).mode = mode
  BY DEF Record, StoredNames

-----------------------------------------------------------------------------
LEMMA InitInv == Init => Inv
<1>. SUFFICES ASSUME Init PROVE Inv
  OBVIOUS
<1>1. TypeOK
  BY DEF Init, TypeOK
<1>. QED  BY <1>1 DEF Init, Inv, Settled, Kept, NibeSaved, OnlyUsersSwitch

LEMMA PowerUpInv == Inv /\ PowerUp => Inv'
<1>. SUFFICES ASSUME Inv, PowerUp PROVE Inv'
  OBVIOUS
<1>1. /\ build \in Builds /\ ~up /\ up' = TRUE
      /\ modbus' = NextBoot.modbus /\ model' = NextBoot.model /\ addr' = NextBoot.addr
      /\ choice' = "none"
      /\ build' = build /\ flash' = flash /\ carried' = carried
  BY DEF Inv, TypeOK, PowerUp, NextBoot
<1>2. NextBoot' = NextBoot
  BY <1>1 DEF NextBoot
<1>3. TypeOK'
  BY <1>1, EffectiveFacts DEF Inv, TypeOK, NextBoot
<1>. QED  BY <1>1, <1>2, <1>3 DEF Inv, Settled, Kept, NibeSaved, OnlyUsersSwitch

LEMMA PowerDownInv == Inv /\ PowerDown => Inv'
<1>. SUFFICES ASSUME Inv, PowerDown PROVE Inv'
  OBVIOUS
<1>1. /\ up /\ up' = FALSE
      /\ carried' = IF choice = "none" THEN <<modbus>> ELSE <<>>
      /\ UNCHANGED <<build, modbus, model, addr, flash, choice>>
  BY DEF PowerDown
<1>2. NextBoot' = NextBoot
  BY <1>1 DEF NextBoot
<1>3. TypeOK'
  BY <1>1 DEF Inv, TypeOK
<1>. QED  BY <1>1, <1>2, <1>3 DEF Inv, Settled, Kept, NibeSaved, OnlyUsersSwitch

LEMMA UpdateInv == Inv /\ Update => Inv'
  BY DEF Inv, Update, TypeOK, Settled, Kept, NibeSaved, OnlyUsersSwitch

LEMMA SaveInv ==
  ASSUME Inv, NEW m \in Names \cup {Unnamed}, SaveNibe(m) \/ SaveModbus(m)
  PROVE  Inv'
<1>1. CASE SaveNibe(m)
  <2>1. TypeOK'
    BY <1>1, RecordFacts DEF Inv, TypeOK, SaveNibe
  <2>. QED  BY <1>1, <2>1, RecordFacts
            DEF Inv, TypeOK, SaveNibe, Settled, Kept, NibeSaved, OnlyUsersSwitch
<1>2. CASE SaveModbus(m)
  <2>1. TypeOK'
    BY <1>2, RecordFacts DEF Inv, TypeOK, SaveModbus
  <2>. QED  BY <1>2, <2>1 DEF Inv, SaveModbus, Settled, Kept, NibeSaved, OnlyUsersSwitch
<1>. QED  BY <1>1, <1>2

(* The pump speaks to a NIBE boot only, and asks for another one.          *)
LEMMA AnnounceInv ==
  ASSUME Inv, NEW m \in Names \cup {Unnamed}, Announce(m)
  PROVE  Inv'
<1>1. /\ up /\ ~modbus /\ build \in Builds
      /\ UNCHANGED <<build, up, modbus, addr, choice, carried>>
  BY DEF Announce, Inv, TypeOK
<1>2. TypeOK'
  BY RecordFacts DEF Inv, TypeOK, Announce
<1>3. CASE m # Unnamed /\ flash' = Record(0, m)
  <2>1. flash'.mode = 0
    BY <1>3, RecordFacts
  <2>2. NextBoot'.modbus = FALSE
    BY <1>1, <2>1, EffectiveFacts DEF NextBoot
  <2>. QED  BY <1>1, <1>2, <2>1, <2>2
            DEF Inv, TypeOK, Settled, Kept, NibeSaved, OnlyUsersSwitch
<1>4. CASE UNCHANGED flash
  <2>1. NextBoot' = NextBoot
    BY <1>1, <1>4 DEF NextBoot
  <2>. QED  BY <1>1, <1>2, <1>4, <2>1
            DEF Inv, Settled, Kept, NibeSaved, OnlyUsersSwitch
<1>. QED  BY <1>3, <1>4 DEF Announce

LEMMA NextInv == Inv /\ [Next]_vars => Inv'
<1>. SUFFICES ASSUME Inv, [Next]_vars PROVE Inv'
  OBVIOUS
<1>1. CASE UNCHANGED vars
  BY <1>1 DEF vars, Inv, TypeOK, Settled, Kept, NibeSaved, OnlyUsersSwitch, NextBoot
<1>. QED  BY <1>1, PowerUpInv, PowerDownInv, UpdateInv, SaveInv, AnnounceInv DEF Next

(* load_mode() and apply_runtime_mode_() give a well-formed mode, and the  *)
(* record in flash stays readable.                                         *)
THEOREM Typing == Spec => []TypeOK
<1>. QED  BY InitInv, NextInv, PTL DEF Spec, Inv

(* Announcements, reboots, failed saves and unknown names never change the *)
(* protocol: handle_mode_save_() or an update does.                        *)
THEOREM Stability == Spec => []OnlyUsersSwitch
<1>. QED  BY InitInv, NextInv, PTL DEF Spec, Inv

(* apply_runtime_mode_() leaves no master without a transport, whatever    *)
(* the record in flash says and whichever firmware wrote it.               *)
THEOREM Transport == Spec => MastersHaveTransport
<1>1. Inv /\ [Next]_vars
        => [~up /\ up' /\ modbus' => model' \in DOMAIN build.transports]_vars
  <2>. SUFFICES ASSUME Inv, Next, ~up, up', modbus'
                PROVE  model' \in DOMAIN build.transports
    OBVIOUS
  <2>1. PowerUp
    BY DEF Next, PowerDown, Update, SaveNibe, SaveModbus, Announce
  <2>. QED  BY <2>1, EffectiveFacts DEF Inv, TypeOK, PowerUp
<1>. QED  BY <1>1, InitInv, NextInv, PTL DEF Spec, MastersHaveTransport

(* Who saves NIBE mode gets it at the next boot: only a user's later save  *)
(* of Modbus can come between.                                             *)
THEOREM NibeChoice == Spec => NibeChoiceHonoured
<1>1. Inv /\ [Next]_vars => [~up /\ up' /\ choice = "nibe" => ~modbus']_vars
  <2>. SUFFICES ASSUME Inv, Next, ~up, up', choice = "nibe"
                PROVE  ~modbus'
    OBVIOUS
  <2>1. PowerUp
    BY DEF Next, PowerDown, Update, SaveNibe, SaveModbus, Announce
  <2>. QED  BY <2>1, EffectiveFacts DEF Inv, TypeOK, NibeSaved, PowerUp
<1>. QED  BY <1>1, InitInv, NextInv, PTL DEF Spec, NibeChoiceHonoured

(* The function code of a running master's writes stays, unless the user   *)
(* asks for NIBE: the pump's announcements do not reach a master.          *)
THEOREM MasterFc == Spec => MasterKeepsFc
<1>1. [Next]_vars
        => [up /\ up' /\ modbus /\ WriteFc(build, model') # WriteFc(build, model)
              => choice' = "nibe"]_vars
  <2>. SUFFICES ASSUME Next, up, up', modbus,
                       WriteFc(build, model') # WriteFc(build, model)
                PROVE  choice' = "nibe"
    OBVIOUS
  <2>1. model' # model
    OBVIOUS
  <2>. QED  BY <2>1
            DEF Next, PowerUp, PowerDown, Update, SaveNibe, SaveModbus, Announce
<1>. QED  BY <1>1, PTL DEF Spec, MasterKeepsFc

-----------------------------------------------------------------------------
(* Part 2: the selection, the entities and the page.                       *)

Things(b) == {Entity(b, a) : a \in {n \in Nat : Titled(b, n) /\ Usable(b, n)}}

Has(es, object) == \E j \in 1..Len(es) : es[j].object = object

\* The loop invariant: es has been made of the numbers of s before the i-th.
MadeOf(b, s, i, es) ==
  /\ es \in Seq(Things(b))
  /\ Len(es) < i
  /\ \A j, k \in 1..Len(es) : j # k => es[j].object # es[k].object
  /\ \A j \in 1..Len(es) : \E k \in 1..Len(s) : es[j].addr = s[k]
  /\ \A k \in 1..Len(s) :
       k < i /\ Titled(b, s[k]) /\ Usable(b, s[k]) => Has(es, b.object[s[k]])

Numbers(s) == s \in Seq(Nat) /\ Len(s) <= MaxSelection

NoRepeats(s) == \A j, k \in 1..Len(s) : j # k => s[j] # s[k]

\* A record in flash, or a request being read.
Listed(r) == r # <<>> => r = <<r[1]>> /\ Numbers(r[1]) /\ NoRepeats(r[1])

\* All the numbers of a request so far are listed.
Noted(r, numbers) == r # <<>> => Members(r[1]) = numbers

\* The state at each phase.
Running(p, b, s, i, es) ==
  p # "off" => Numbers(s) /\ i \in 1..(Len(s) + 1) /\ MadeOf(b, s, i, es)

DeviceInv ==
  /\ build \in Builds
  /\ phase \in {"off", "setup", "run"}
  /\ up <=> phase # "off"
  /\ phase = "off" => ents = <<>>
  /\ phase = "run" => index = Len(booted) + 1
  /\ Running(phase, build, booted, index, ents)
  /\ Listed(selection)
  /\ Listed(form)
  /\ Noted(form, posted)

-----------------------------------------------------------------------------
(* Device is RuntimeMode with more state: its steps are steps of that      *)
(* module or leave its variables alone.                                    *)
LEMMA StepMaps == DeviceNext => [Next]_vars
<1>. SUFFICES ASSUME DeviceNext PROVE [Next]_vars
  OBVIOUS
<1>1. CASE SwitchOn \/ SwitchOff \/ Replace
  BY <1>1 DEF SwitchOn, SwitchOff, Replace, Next
<1>2. CASE CreateEntity \/ SetupDone \/ OpenForm \/ CloseForm
  BY <1>2 DEF CreateEntity, SetupDone, OpenForm, CloseForm
<1>3. ASSUME NEW m \in Names \cup {Unnamed}, ChangeMode(m)
      PROVE  Next
  BY <1>3 DEF ChangeMode, Next
<1>4. ASSUME NEW v \in Posted, ReadNumber(v)
      PROVE  UNCHANGED vars
  BY <1>4 DEF ReadNumber
<1>. QED  BY <1>1, <1>2, <1>3, <1>4 DEF DeviceNext

(* Whatever RuntimeMode guarantees holds of the whole device.              *)
THEOREM DeviceRuns == DeviceSpec => Spec
<1>1. DeviceInit => Init
  BY DEF DeviceInit
<1>2. [DeviceNext]_deviceVars => [Next]_vars
  <2>1. UNCHANGED deviceVars => UNCHANGED vars
    BY DEF deviceVars
  <2>. QED  BY <2>1, StepMaps
<1>. QED  BY <1>1, <1>2, PTL DEF DeviceSpec, Spec

-----------------------------------------------------------------------------
(* The list of defaults is cut where a saved selection has its limit.      *)
LEMMA ChosenIsNumbers ==
  ASSUME NEW b \in Builds, Listed(selection)
  PROVE  Numbers(Chosen(b))
<1>1. MaxSelection \in Nat /\ b.defaults \in Seq(Nat)
  BY DeviceAssumption
<1>2. Numbers(Defaults(b))
  <2>1. CASE Len(b.defaults) > MaxSelection
    <3>. DEFINE d == b.defaults
    <3>1. \A i \in 1..MaxSelection : d[i] \in Nat
      BY <1>1, <2>1
    <3>2. /\ SubSeq(d, 1, MaxSelection) \in Seq(Nat)
          /\ Len(SubSeq(d, 1, MaxSelection)) <= MaxSelection
      BY <1>1, <3>1, SubSeqProperties
    <3>. QED  BY <2>1, <3>2 DEF Numbers, Defaults
  <2>2. CASE ~(Len(b.defaults) > MaxSelection)
    BY <1>1, <2>2, LenProperties DEF Numbers, Defaults
  <2>. QED  BY <2>1, <2>2
<1>. QED  BY <1>2 DEF Chosen, Loads, Listed

LEMMA NothingMade ==
  ASSUME NEW b, NEW s
  PROVE  MadeOf(b, s, 1, <<>>)
<1>1. <<>> \in Seq(Things(b)) /\ Len(<<>>) = 0
  BY EmptySeq
<1>2. \A k \in 1..Len(s) : ~(k < 1)
  OBVIOUS
<1>. QED  BY <1>1, <1>2 DEF MadeOf

(* One round of the loop.                                                  *)
LEMMA OneRound ==
  ASSUME NEW b, NEW s \in Seq(Nat), NEW i \in 1..Len(s), NEW es, NEW new,
         MadeOf(b, s, i, es),
         new = IF Titled(b, s[i]) /\ Usable(b, s[i]) /\ ~Has(es, b.object[s[i]])
               THEN Append(es, Entity(b, s[i])) ELSE es
  PROVE  MadeOf(b, s, i + 1, new)
<1>. DEFINE e == Entity(b, s[i])
            fits == Titled(b, s[i]) /\ Usable(b, s[i])
<1>1. /\ es \in Seq(Things(b)) /\ Len(es) \in Nat /\ Len(s) \in Nat
      /\ s[i] \in Nat /\ i \in Nat /\ Len(es) < i
  BY LenProperties DEF MadeOf
<1>2. CASE ~fits \/ Has(es, b.object[s[i]])
  <2>1. new = es
    BY <1>2
  <2>2. ASSUME NEW k \in 1..Len(s), k < i + 1, Titled(b, s[k]), Usable(b, s[k])
        PROVE  Has(es, b.object[s[k]])
    <3>1. CASE k = i
      BY <1>2, <2>2, <3>1
    <3>2. CASE k # i
      <4>1. k < i
        BY <1>1, <2>2, <3>2
      <4>. QED  BY <2>2, <4>1 DEF MadeOf
    <3>. QED  BY <3>1, <3>2
  <2>3. Len(es) < i + 1
    BY <1>1
  <2>. QED  BY <2>1, <2>2, <2>3 DEF MadeOf
<1>3. CASE fits /\ ~Has(es, b.object[s[i]])
  <2>1. new = Append(es, e)
    BY <1>3
  <2>2. e \in Things(b)
    BY <1>1, <1>3 DEF Things
  <2>3. e.addr = s[i] /\ e.object = b.object[s[i]]
    BY DEF Entity
  <2>. HIDE DEF e
  <2>4. /\ new \in Seq(Things(b)) /\ Len(new) = Len(es) + 1 /\ Len(new) < i + 1
        /\ new[Len(es) + 1] = e
        /\ \A j \in 1..Len(es) : new[j] = es[j]
    BY <1>1, <2>1, <2>2
  <2>5. \A j \in 1..Len(new) : j \in 1..Len(es) \/ j = Len(es) + 1
    BY <1>1, <2>4
  <2>6. \A j \in 1..Len(es) : j \in 1..Len(new)
    BY <1>1, <2>4
  <2>7. Len(es) + 1 \in 1..Len(new)
    BY <1>1, <2>4
  <2>8. ASSUME NEW j \in 1..Len(new), NEW k \in 1..Len(new), j # k
        PROVE  new[j].object # new[k].object
    <3>1. \A l \in 1..Len(es) : es[l].object # b.object[s[i]]
      BY <1>3 DEF Has
    <3>2. CASE j = Len(es) + 1
      <4>1. k \in 1..Len(es)
        BY <2>5, <2>8, <3>2
      <4>. QED  BY <2>3, <2>4, <3>1, <3>2, <4>1
    <3>3. CASE k = Len(es) + 1
      <4>1. j \in 1..Len(es)
        BY <2>5, <2>8, <3>3
      <4>. QED  BY <2>3, <2>4, <3>1, <3>3, <4>1
    <3>4. CASE j \in 1..Len(es) /\ k \in 1..Len(es)
      BY <2>4, <2>8, <3>4 DEF MadeOf
    <3>. QED  BY <2>5, <3>2, <3>3, <3>4
  <2>9. ASSUME NEW j \in 1..Len(new)
        PROVE  \E k \in 1..Len(s) : new[j].addr = s[k]
    <3>1. CASE j \in 1..Len(es)
      BY ZenonT(30), <2>4, <3>1 DEF MadeOf
    <3>2. CASE j = Len(es) + 1
      BY <2>3, <2>4, <3>2
    <3>. QED  BY <2>5, <3>1, <3>2
  <2>10. ASSUME NEW k \in 1..Len(s), k < i + 1, Titled(b, s[k]), Usable(b, s[k])
         PROVE  Has(new, b.object[s[k]])
    <3>1. CASE k = i
      BY <2>3, <2>4, <2>7, <3>1 DEF Has
    <3>2. CASE k # i
      <4>1. k < i
        BY <1>1, <2>10, <3>2
      <4>2. Has(es, b.object[s[k]])
        BY <2>10, <4>1 DEF MadeOf
      <4>. QED  BY <2>4, <2>6, <4>2 DEF Has
    <3>. QED  BY <3>1, <3>2
  <2>. QED  BY <2>4, <2>8, <2>9, <2>10 DEF MadeOf
<1>. QED  BY <1>2, <1>3

(* One more number of a request.                                           *)
LEMMA OneMore ==
  ASSUME NEW s, Numbers(s), NoRepeats(s), NEW v \in Nat,
         ~\E i \in DOMAIN s : s[i] = v, ~(Len(s) >= MaxSelection)
  PROVE  Numbers(Append(s, v)) /\ NoRepeats(Append(s, v))
<1>. DEFINE t == Append(s, v)
<1>1. /\ s \in Seq(Nat) /\ Len(s) \in Nat /\ DOMAIN s = 1..Len(s)
      /\ MaxSelection \in Nat
  BY LenProperties, DeviceAssumption DEF Numbers
<1>2. /\ t \in Seq(Nat) /\ Len(t) = Len(s) + 1 /\ t[Len(s) + 1] = v
      /\ \A j \in 1..Len(s) : t[j] = s[j]
  BY <1>1
<1>. HIDE DEF t
<1>3. Len(t) <= MaxSelection
  BY <1>1, <1>2
<1>4. \A j \in 1..Len(t) : j \in 1..Len(s) \/ j = Len(s) + 1
  BY <1>1, <1>2
<1>5. NoRepeats(t)
  <2>. SUFFICES ASSUME NEW j \in 1..Len(t), NEW k \in 1..Len(t), j # k
                PROVE  t[j] # t[k]
    BY DEF NoRepeats
  <2>1. \A l \in 1..Len(s) : s[l] # v
    BY <1>1
  <2>2. CASE j \in 1..Len(s) /\ k \in 1..Len(s)
    BY <1>2, <2>2 DEF NoRepeats
  <2>3. CASE j = Len(s) + 1 \/ k = Len(s) + 1
    BY <1>2, <1>4, <2>1, <2>3
  <2>. QED  BY <1>4, <2>2, <2>3
<1>. QED  BY <1>2, <1>3, <1>5 DEF t, Numbers

-----------------------------------------------------------------------------
LEMMA DeviceInitInv == DeviceInit => DeviceInv
  BY DEF DeviceInit, Init, DeviceInv, Running, Listed, Noted

LEMMA SwitchOnInv == DeviceInv /\ SwitchOn => DeviceInv'
<1>. SUFFICES ASSUME DeviceInv, SwitchOn PROVE DeviceInv'
  OBVIOUS
<1>1. /\ phase = "off" /\ ents = <<>> /\ build \in Builds
      /\ phase' = "setup" /\ up' = TRUE /\ booted' = Chosen(build) /\ index' = 1
      /\ build' = build /\ ents' = ents /\ selection' = selection /\ form' = form /\ posted' = posted
  BY DEF DeviceInv, SwitchOn, PowerUp
<1>2. Numbers(booted')
  BY <1>1, ChosenIsNumbers DEF DeviceInv
<1>3. MadeOf(build', booted', index', ents')
  BY <1>1, NothingMade
<1>4. index' \in 1..(Len(booted') + 1)
  BY <1>1, <1>2, LenProperties DEF Numbers
<1>5. Running(phase', build', booted', index', ents')
  BY <1>2, <1>3, <1>4 DEF Running
<1>. QED  BY <1>1, <1>5 DEF DeviceInv

LEMMA SwitchOffInv == DeviceInv /\ SwitchOff => DeviceInv'
  BY DEF DeviceInv, SwitchOff, PowerDown, Running, Listed, Noted

LEMMA ReplaceInv == DeviceInv /\ Replace => DeviceInv'
<1>. SUFFICES ASSUME DeviceInv, Replace PROVE DeviceInv'
  OBVIOUS
<1>1. phase = "off" /\ build' \in Builds /\ up' = up /\ UNCHANGED own
  BY DEF DeviceInv, Replace, Update
<1>. QED  BY <1>1 DEF DeviceInv, own, Running, Listed

LEMMA CreateEntityInv == DeviceInv /\ CreateEntity => DeviceInv'
<1>. SUFFICES ASSUME DeviceInv, CreateEntity PROVE DeviceInv'
  OBVIOUS
<1>1. /\ phase = "setup" /\ index <= Len(booted) /\ index' = index + 1
      /\ UNCHANGED <<build, up, selection, phase, booted, form, posted>>
      /\ Make(booted[index])
  BY DEF CreateEntity, vars
<1>2. Numbers(booted) /\ index \in 1..(Len(booted) + 1) /\ MadeOf(build, booted, index, ents)
  BY <1>1 DEF DeviceInv, Running
<1>3. booted \in Seq(Nat) /\ Len(booted) \in Nat /\ index \in 1..Len(booted)
  BY <1>1, <1>2, LenProperties DEF Numbers
<1>4. \A object : Taken(object) <=> Has(ents, object)
  <2>1. DOMAIN ents = 1..Len(ents)
    BY <1>2, LenProperties DEF MadeOf
  <2>. QED  BY <2>1 DEF Taken, Has
<1>5. MadeOf(build, booted, index + 1, ents')
  <2>1. ents' = IF /\ Titled(build, booted[index]) /\ Usable(build, booted[index])
                   /\ ~Has(ents, build.object[booted[index]])
                THEN Append(ents, Entity(build, booted[index])) ELSE ents
    BY <1>1, <1>4 DEF Make
  <2>. QED  BY <1>2, <1>3, <2>1, OneRound
<1>6. Running(phase', build', booted', index', ents')
  <2>1. index + 1 \in 1..(Len(booted) + 1)
    BY <1>3
  <2>. QED  BY <1>1, <1>2, <1>5, <2>1 DEF Running
<1>. QED  BY <1>1, <1>6 DEF DeviceInv

LEMMA SetupDoneInv == DeviceInv /\ SetupDone => DeviceInv'
<1>. SUFFICES ASSUME DeviceInv, SetupDone PROVE DeviceInv'
  OBVIOUS
<1>1. /\ phase = "setup" /\ phase' = "run" /\ index > Len(booted)
      /\ UNCHANGED <<build, up, selection, booted, index, ents, form, posted>>
  BY DEF SetupDone, vars
<1>2. Numbers(booted) /\ index \in 1..(Len(booted) + 1)
  BY <1>1 DEF DeviceInv, Running
<1>3. index = Len(booted) + 1
  BY <1>1, <1>2, LenProperties DEF Numbers
<1>. QED  BY <1>1, <1>3 DEF DeviceInv, Running

LEMMA ChangeModeInv ==
  ASSUME DeviceInv, NEW m, ChangeMode(m)
  PROVE  DeviceInv'
<1>1. UNCHANGED <<build, up, selection, phase, booted, index, ents, form, posted>>
  BY DEF ChangeMode, SaveNibe, SaveModbus, Announce, own
<1>. QED  BY <1>1 DEF DeviceInv

LEMMA FormInv ==
  ASSUME DeviceInv, OpenForm \/ CloseForm
  PROVE  DeviceInv'
<1>1. UNCHANGED <<build, up, phase, booted, index, ents>>
  BY DEF OpenForm, CloseForm, vars
<1>2. CASE OpenForm
  <2>1. form' = << <<>> >> /\ selection' = selection /\ posted' = {}
    BY <1>2 DEF OpenForm
  <2>2. Numbers(<<>>) /\ NoRepeats(<<>>)
    BY DeviceAssumption, EmptySeq DEF Numbers, NoRepeats
  <2>3. Listed(form')
    BY <2>1, <2>2 DEF Listed
  <2>4. Noted(form', posted')
    <3>1. DOMAIN (<<>>) = {}
      BY EmptySeq
    <3>2. form'[1] = <<>>
      BY <2>1
    <3>. QED  BY <2>1, <3>1, <3>2 DEF Noted, Members
  <2>. QED  BY <1>1, <2>1, <2>3, <2>4 DEF DeviceInv
<1>3. CASE CloseForm
  <2>1. form' = <<>> /\ (selection' = form \/ selection' = selection)
    BY <1>3 DEF CloseForm
  <2>2. Listed(form') /\ Listed(selection')
    BY <2>1 DEF DeviceInv, Listed
  <2>. QED  BY <1>1, <2>1, <2>2 DEF DeviceInv, Noted
<1>. QED  BY <1>2, <1>3

(* A number more in a list is a number more in its members.                *)
LEMMA MembersGrow ==
  ASSUME NEW s \in Seq(Nat), NEW v \in Nat
  PROVE  Members(Append(s, v)) = Members(s) \cup {v}
<1>. DEFINE t == Append(s, v)
<1>1. /\ Len(s) \in Nat /\ DOMAIN s = 1..Len(s) /\ DOMAIN t = 1..(Len(s) + 1)
      /\ t[Len(s) + 1] = v /\ \A i \in 1..Len(s) : t[i] = s[i]
  BY LenProperties
<1>. HIDE DEF t
<1>2. \A i : i \in 1..(Len(s) + 1) <=> i \in 1..Len(s) \/ i = Len(s) + 1
  BY <1>1
<1>3. Members(t) = Members(s) \cup {v}
  BY <1>1, <1>2 DEF Members
<1>. QED  BY <1>3 DEF t

LEMMA ReadNumberInv ==
  ASSUME DeviceInv, NEW v \in Posted, ReadNumber(v)
  PROVE  DeviceInv'
<1>1. /\ UNCHANGED <<build, up, selection, phase, booted, index, ents>>
      /\ form # <<>> /\ Note(v)
      /\ \/ form' = <<>>
         \/ form' = form /\ Repeated(v)
         \/ /\ ~Repeated(v) /\ ~(Len(form[1]) >= MaxSelection)
            /\ form' = <<Append(form[1], v)>>
  BY DEF ReadNumber, vars
<1>2. Listed(form')
  <2>1. CASE form' \in {<<>>, form}
    BY <2>1 DEF DeviceInv, Listed
  <2>2. CASE /\ ~Repeated(v) /\ ~(Len(form[1]) >= MaxSelection)
             /\ form' = <<Append(form[1], v)>>
    <3>1. Numbers(form[1]) /\ NoRepeats(form[1]) /\ v \in Nat
      BY <1>1, DeviceAssumption DEF DeviceInv, Listed
    <3>2. Numbers(Append(form[1], v)) /\ NoRepeats(Append(form[1], v))
      BY <2>2, <3>1, OneMore DEF Repeated
    <3>. QED  BY <2>2, <3>2 DEF Listed
  <2>. QED  BY <1>1, <2>1, <2>2
<1>3. Noted(form', posted')
  <2>1. CASE form' = <<>>
    BY <2>1 DEF Noted
  <2>2. CASE form' = form /\ Repeated(v)
    <3>1. posted' = posted \cup {v} /\ Members(form[1]) = posted
      BY <1>1, <2>2 DEF Note, DeviceInv, Noted
    <3>2. v \in Members(form[1])
      BY <2>2 DEF Repeated, Members
    <3>. QED  BY <2>2, <3>1, <3>2 DEF Noted
  <2>3. CASE form' = <<Append(form[1], v)>>
    <3>1. posted' = posted \cup {v} /\ Members(form[1]) = posted
      BY <1>1, <2>3 DEF Note, DeviceInv, Noted
    <3>2. form[1] \in Seq(Nat) /\ v \in Nat
      BY <1>1, DeviceAssumption DEF DeviceInv, Listed, Numbers
    <3>3. Members(form'[1]) = Members(form[1]) \cup {v}
      BY <2>3, <3>2, MembersGrow
    <3>. QED  BY <3>1, <3>3 DEF Noted
  <2>. QED  BY <1>1, <2>1, <2>2, <2>3
<1>. QED  BY <1>1, <1>2, <1>3 DEF DeviceInv

LEMMA DeviceNextInv == DeviceInv /\ [DeviceNext]_deviceVars => DeviceInv'
<1>. SUFFICES ASSUME DeviceInv, [DeviceNext]_deviceVars PROVE DeviceInv'
  OBVIOUS
<1>1. CASE UNCHANGED deviceVars
  BY <1>1 DEF deviceVars, vars, own, DeviceInv
<1>. QED  BY <1>1, SwitchOnInv, SwitchOffInv, ReplaceInv, CreateEntityInv, SetupDoneInv,
             ChangeModeInv, FormInv, ReadNumberInv DEF DeviceNext

(* DeviceInv, in every state: what preferences, selection and entities     *)
(* hold between any two steps of boots, forms, updates and power cuts.     *)
THEOREM DeviceInvariance == DeviceSpec => []DeviceInv
<1>. QED  BY DeviceInitInv, DeviceNextInv, PTL DEF DeviceSpec

-----------------------------------------------------------------------------
(* create_entities() never gives a register two entities, nor two entities *)
(* one object id, whatever is in flash and whichever firmware has put it   *)
(* there.                                                                  *)
THEOREM Distinct == DeviceSpec => []OneEntityEach
<1>1. DeviceInv => OneEntityEach
  <2>. SUFFICES ASSUME DeviceInv, NEW i \in DOMAIN ents, NEW j \in DOMAIN ents, i # j
                PROVE  ents[i].addr # ents[j].addr /\ ents[i].object # ents[j].object
    BY DEF OneEntityEach
  <2>1. phase # "off"
    BY DEF DeviceInv
  <2>2. MadeOf(build, booted, index, ents)
    BY <2>1 DEF DeviceInv, Running
  <2>3. /\ i \in 1..Len(ents) /\ j \in 1..Len(ents)
        /\ ents[i] \in Things(build) /\ ents[j] \in Things(build)
    BY <2>2, LenProperties, ElementOfSeq DEF MadeOf
  <2>4. ents[i].object # ents[j].object
    BY <2>2, <2>3 DEF MadeOf
  <2>5. \A e \in Things(build) : e.object = build.object[e.addr]
    BY DEF Things, Entity
  <2>. QED  BY <2>3, <2>4, <2>5
<1>. QED  BY <1>1, DeviceInvariance, PTL

(* The slots of ESPHome that the generated code reserves are enough, for   *)
(* each kind of entity.                                                    *)
THEOREM Slots == DeviceSpec => []SlotsSuffice
<1>1. DeviceInv => SlotsSuffice
  <2>. SUFFICES ASSUME DeviceInv, NEW k
                PROVE  Cardinality({i \in DOMAIN ents : ents[i].kind = k}) <= MaxSelection
    BY DEF SlotsSuffice
  <2>1. /\ DOMAIN ents = 1..Len(ents) /\ Len(ents) \in Nat
        /\ Len(ents) <= MaxSelection /\ MaxSelection \in Nat
    <3>1. CASE phase = "off"
      BY <3>1, EmptySeq, DeviceAssumption DEF DeviceInv
    <3>2. CASE phase # "off"
      <4>1. /\ Numbers(booted) /\ index \in 1..(Len(booted) + 1)
            /\ MadeOf(build, booted, index, ents)
        BY <3>2 DEF DeviceInv, Running
      <4>2. /\ DOMAIN ents = 1..Len(ents) /\ Len(ents) \in Nat /\ Len(ents) < index
            /\ Len(booted) \in Nat /\ Len(booted) <= MaxSelection
        BY <4>1, LenProperties DEF MadeOf, Numbers
      <4>. QED  BY <4>1, <4>2, DeviceAssumption
    <3>. QED  BY <3>1, <3>2
  <2>. DEFINE n == Len(ents)
              those == {i \in DOMAIN ents : ents[i].kind = k}
  <2>2. IsFiniteSet(1..n) /\ Cardinality(1..n) = n
    <3>1. n \in Nat
      BY <2>1
    <3>. HIDE DEF n
    <3>2. n \in Int /\ 1 \in Int
      BY <3>1
    <3>3. IsFiniteSet(1..n) /\ Cardinality(1..n) = IF 1 > n THEN 0 ELSE n - 1 + 1
      BY <3>2, FS_Interval
    <3>4. (IF 1 > n THEN 0 ELSE n - 1 + 1) = n
      BY <3>1
    <3>. QED  BY <3>3, <3>4
  <2>3. those \in SUBSET (1..n)
    BY <2>1
  <2>4. IsFiniteSet(those) /\ Cardinality(those) <= n
    BY <2>2, <2>3, FS_Subset
  <2>5. Cardinality(those) \in Nat
    BY <2>4, FS_CardinalityType
  <2>. HIDE DEF those
  <2>6. Cardinality(those) <= MaxSelection
    BY <2>1, <2>4, <2>5
  <2>. QED  BY <2>6 DEF those
<1>. QED  BY <1>1, DeviceInvariance, PTL

(* A sequence without repeats has as many members as it is long.           *)
LEMMA MembersCount ==
  ASSUME NEW s \in Seq(Nat), NoRepeats(s)
  PROVE  Cardinality(Members(s)) = Len(s)
<1>1. Len(s) \in Nat /\ DOMAIN s = 1..Len(s) /\ s \in [1..Len(s) -> Nat]
  BY LenProperties
<1>2. s \in [1..Len(s) -> Members(s)]
  BY <1>1 DEF Members
<1>3. s \in Injection(1..Len(s), Members(s))
  BY <1>2 DEF NoRepeats, Injection, IsInjective
<1>4. s \in Surjection(1..Len(s), Members(s))
  BY <1>1, <1>2 DEF Members, Surjection
<1>5. ExistsBijection(1..Len(s), Members(s))
  BY <1>3, <1>4 DEF ExistsBijection, Bijection
<1>. QED  BY <1>1, <1>5, FS_CountingElements

(* What handle_save_() leaves in flash can be loaded by any boot and lists *)
(* no register twice.                                                      *)
THEOREM Selections == DeviceSpec => []SelectionSound
<1>1. DeviceInv => SelectionSound
  <2>. SUFFICES ASSUME DeviceInv, selection # <<>>
                PROVE  Loads /\ Cardinality(Members(selection[1])) = Len(selection[1])
    BY DEF SelectionSound
  <2>1. Numbers(selection[1]) /\ NoRepeats(selection[1])
    BY DEF DeviceInv, Listed
  <2>2. Cardinality(Members(selection[1])) = Len(selection[1])
    BY <2>1, MembersCount DEF Numbers
  <2>. QED  BY <2>1, <2>2 DEF Numbers, Loads
<1>. QED  BY <1>1, DeviceInvariance, PTL

(* handle_save_() saves the whole of a request or none of it.              *)
THEOREM WholeRequests == DeviceSpec => SavedWhole
<1>1. DeviceInv /\ [DeviceNext]_deviceVars
        => [selection' # selection => Members(selection'[1]) = posted]_deviceVars
  <2>. SUFFICES ASSUME DeviceInv, DeviceNext, selection' # selection
                PROVE  Members(selection'[1]) = posted
    OBVIOUS
  <2>1. CloseForm
    BY DEF DeviceNext, SwitchOn, SwitchOff, Replace, CreateEntity, SetupDone, ChangeMode,
           OpenForm, ReadNumber, own
  <2>2. form # <<>> /\ selection' = form
    BY <2>1 DEF CloseForm
  <2>. QED  BY <2>2 DEF DeviceInv, Noted
<1>. QED  BY <1>1, DeviceInvariance, PTL DEF DeviceSpec, SavedWhole

(* What list_json_() tells the page and what create_entities() has made    *)
(* agree for a saved selection that has been booted with.                  *)
THEOREM Page == DeviceSpec => []PageShowsEntities
<1>1. DeviceInv => PageShowsEntities
  <2>. SUFFICES ASSUME DeviceInv, phase = "run", selection = <<booted>>, NEW a \in Offered
                PROVE  /\ a \in Ticked => Taken(build.object[a]) \/ ~Usable(build, a)
                       /\ \A i \in DOMAIN ents :
                            ents[i].addr = a => a \in Ticked /\ OfferedKind(a) = ents[i].kind
    BY DEF PageShowsEntities
  <2>1. Numbers(booted) /\ index = Len(booted) + 1 /\ MadeOf(build, booted, index, ents)
    BY DEF DeviceInv, Running
  <2>2. Ticked = Members(booted)
    <3>1. selection # <<>> /\ selection[1] = booted
      OBVIOUS
    <3>. QED  BY <2>1, <3>1 DEF Ticked, Loads, Numbers
  <2>3. /\ Len(booted) \in Nat /\ DOMAIN booted = 1..Len(booted)
        /\ Len(ents) \in Nat /\ DOMAIN ents = 1..Len(ents)
    BY <2>1, LenProperties DEF MadeOf, Numbers
  <2>4. ASSUME a \in Ticked, Usable(build, a)
        PROVE  Taken(build.object[a])
    <3>1. PICK k \in 1..Len(booted) : booted[k] = a
      BY <2>2, <2>3, <2>4 DEF Members
    <3>2. k < index /\ Titled(build, booted[k]) /\ Usable(build, booted[k])
      BY <2>1, <2>3, <2>4, <3>1 DEF Offered, Titled
    <3>3. Has(ents, build.object[a])
      BY <2>1, <3>1, <3>2 DEF MadeOf
    <3>. QED  BY <2>3, <3>3 DEF Has, Taken
  <2>5. ASSUME NEW i \in DOMAIN ents, ents[i].addr = a
        PROVE  a \in Ticked /\ OfferedKind(a) = ents[i].kind
    <3>1. \E k \in 1..Len(booted) : ents[i].addr = booted[k]
      BY <2>1, <2>3 DEF MadeOf
    <3>2. a \in Ticked
      BY <2>2, <2>3, <2>5, <3>1 DEF Members
    <3>3. ents[i] \in Things(build)
      BY <2>1, <2>3, ElementOfSeq DEF MadeOf
    <3>4. ents[i].kind = KindOf(build, a) /\ Usable(build, a) /\ a \in Nat
      BY <2>5, <3>3 DEF Things, Entity
    <3>5. OfferedKind(a) = KindOf(build, a)
      <4>1. KindOf(build, a) \in 0..3
        BY <3>4 DEF Usable, Sensor, Number, Switch, Select
      <4>2. CASE a < 20000
        BY <3>4, <4>2 DEF OfferedKind, KindOf
      <4>3. CASE ~(a < 20000)
        <5>1. KindOf(build, a) = Hinted(a)
          BY <3>4, <4>3 DEF KindOf, Hinted
        <5>. QED  BY <4>1, <4>3, <5>1 DEF OfferedKind, Select
      <4>. QED  BY <4>2, <4>3
    <3>. QED  BY <3>2, <3>4, <3>5
  <2>. QED  BY <2>4, <2>5
<1>. QED  BY <1>1, DeviceInvariance, PTL
=============================================================================
