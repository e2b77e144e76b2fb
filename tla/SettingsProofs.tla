--------------------------- MODULE SettingsProofs ---------------------------
(***************************************************************************)
(* Settings, for every set of handlers, rotations and quality factors:     *)
(* types, the margins, what is on the disk, what a file that cannot be     *)
(* decoded is owed to, and what of the settings is in force.  Then the     *)
(* tables and conversions: every EDID text reads back, every log is told   *)
(* from its last report, every style comes off.                            *)
(***************************************************************************)
EXTENDS Settings, FiniteSetTheorems, SequenceTheorems, WellFoundedInduction, TLAPS

\* A handler that has changed the memory and has yet to save it.
Pending(h) == handler[h].pc \in {"read", "turn", "save", "write"}

\* What QuietMeansSaved needs while handlers are under way.
Saved == failed \/ LoadConfig(disk) = config \/ \E h \in Handler : Pending(h)

\* A value on its way to the configuration is one that was asked for.
AskedFor == \A h \in Handler : handler[h].pc \in {"factor", "set"} => handler[h].value \in Quality

IInv == TypeOK /\ AskedFor /\ MarginsFit /\ QualityAllowed /\ Saved /\ LossNeedsCutSave

Values == Rotation \cup Quality \cup {0, 100, 270}

LEMMA ConstantsAreNumbers == Rotation \subseteq Nat /\ Quality \subseteq Nat /\ Truncated \notin Setting
BY RotationAssumption, QualityAssumption, TruncatedAssumption

-----------------------------------------------------------------------------
(* The operators.                                                          *)

DisplayType == [turned : {0, 90, 180, 270}, side : [left : Nat, right : Nat],
                menu : [left : Nat, right : Nat]]

Fits(d) == /\ d \in DisplayType
           /\ d.turned = 90 => d.side = [left |-> 24, right |-> 44]
           /\ d.turned = 270 => d.side = [left |-> 44, right |-> 24]

\* Whatever number is asked for, LVGL is turned to one it knows and the margins fit.
LEMMA RotationFits == ASSUME NEW d, Fits(d), NEW r PROVE Fits(lvgl_set_rotation(d, r))
<1> DEFINE e == [d EXCEPT !.turned = Turn(d.turned, r), !.side = Margins(d.side, r)]
<1>1. lvgl_set_rotation(d, r) = e
  BY DEF lvgl_set_rotation
<1>2. d \in DisplayType
  BY DEF Fits
<1>3. e.turned = Turn(d.turned, r) /\ e.side = Margins(d.side, r) /\ e.menu = d.menu
  BY <1>2 DEF DisplayType
<1>4. Turn(d.turned, r) \in {0, 90, 180, 270}
  BY <1>2 DEF Turn, DisplayType
<1>5. Margins(d.side, r) \in [left : Nat, right : Nat]
  BY <1>2 DEF Margins, DisplayType
<1>6. e \in DisplayType
  BY <1>2, <1>4, <1>5 DEF DisplayType
<1>7. CASE r = 90
  <2>1. Margins(d.side, r) = [left |-> 24, right |-> 44]
    BY <1>7 DEF Margins
  <2>2. Turn(d.turned, r) = 90
    BY <1>7 DEF Turn
  <2> HIDE DEF e
  <2> QED
    BY <1>1, <1>3, <1>6, <2>1, <2>2 DEF Fits
<1>8. CASE r = 270
  <2>1. Margins(d.side, r) = [left |-> 44, right |-> 24]
    BY <1>8 DEF Margins
  <2>2. Turn(d.turned, r) = 270
    BY <1>8 DEF Turn
  <2> HIDE DEF e
  <2> QED
    BY <1>1, <1>3, <1>6, <2>1, <2>2 DEF Fits
<1>9. CASE r # 90 /\ r # 270
  <2>1. Margins(d.side, r) = d.side
    BY <1>9 DEF Margins
  <2>2. Turn(d.turned, r) \in {0, 180, d.turned}
    BY <1>9 DEF Turn
  <2> QED
    BY <1>1, <1>3, <1>6, <2>1, <2>2 DEF Fits
<1> QED
  BY <1>7, <1>8, <1>9

LEMMA InitFits == ASSUME NEW r PROVE Fits(lvgl_init(r))
<1> DEFINE d == [turned |-> 0, side |-> Side(flex_screen), menu |-> Side(flex_screen_menu)]
<1>1. Side(flex_screen) = [left |-> 44, right |-> 24]
  BY DEF Side, flex_screen
<1>2. Side(flex_screen_menu) \in [left : Nat, right : Nat]
  <2>1. DOMAIN flex_screen = {"left", "right", "layout", "flow", "bg"}
    BY DEF flex_screen
  <2>2. DOMAIN <<>> = {}
    OBVIOUS
  <2>3. flex_screen_menu.left = flex_screen.left /\ flex_screen_menu.right = flex_screen.right
    BY <2>1, <2>2 DEF flex_screen_menu, Over
  <2> QED
    BY <2>3 DEF Side, flex_screen
<1>3. Fits(d)
  BY <1>1, <1>2 DEF Fits, DisplayType
<1> QED
  BY <1>3, RotationFits DEF lvgl_init

LEMMA Loads ==
    ASSUME NEW file \in Setting \cup {Truncated}
    PROVE  LoadConfig(file) \in Setting /\ (file \in Setting => LoadConfig(file) = file)
BY ConstantsAreNumbers DEF LoadConfig, Default, Setting

LEMMA Qualities == ASSUME NEW s \in Setting PROVE s.quality \in Nat
<1>1. s.quality \in Quality \cup {100}
  BY DEF Setting
<1>2. Quality \cup {100} \subseteq Nat
  BY QualityAssumption
<1> QED
  BY <1>1, <1>2

LEMMA Starts == ASSUME NEW f \in Nat PROVE StartQuality(f) \in Nat /\ Allowed(StartQuality(f))
BY DEF StartQuality, Allowed

-----------------------------------------------------------------------------

LEMMA InitHolds == Init => IInv
<1> SUFFICES ASSUME Init PROVE IInv
  OBVIOUS
<1> USE ConstantsAreNumbers
<1>1. config \in Setting /\ option \in Setting
  BY Loads DEF Init
<1>2. TypeOK
  <2>1. option.quality \in Nat
    BY <1>1, Qualities
  <2>2. quality \in Nat
    BY <2>1, Starts DEF Init
  <2>3. handler \in [Handler -> [pc : Step, what : {"none", "rotation", "quality", "reset"},
                                 value : Values]]
    BY DEF Init, NoCall, Step, Values
  <2> QED
    BY <1>1, <2>2, <2>3, InitFits, BoundAssumption DEF Init, TypeOK, Values, Fits, DisplayType
<1>3. AskedFor
  BY DEF Init, NoCall, AskedFor
<1>4. MarginsFit
  BY InitFits DEF Init, MarginsFit, Fits
<1>5. QualityAllowed
  <2>1. option.quality \in Nat
    BY <1>1, Qualities
  <2> QED
    BY <2>1, Starts DEF Init, QualityAllowed
<1>6. Saved /\ LossNeedsCutSave
  BY DEF Init, Saved, LossNeedsCutSave
<1> QED
  BY <1>2, <1>3, <1>4, <1>5, <1>6 DEF IInv

-----------------------------------------------------------------------------
(* Every step.                                                             *)

HandlerType == [Handler -> [pc : Step, what : {"none", "rotation", "quality", "reset"},
                            value : Values]]

LEMMA StepHolds == IInv /\ [Next]_vars => IInv'
<1> SUFFICES ASSUME IInv, [Next]_vars PROVE IInv'
  OBVIOUS
<1> USE ConstantsAreNumbers
<1>t. /\ TypeOK /\ AskedFor /\ MarginsFit /\ QualityAllowed /\ Saved /\ LossNeedsCutSave
      /\ handler \in HandlerType /\ Fits(display)
  BY DEF IInv, TypeOK, MarginsFit, Fits, DisplayType, HandlerType, Values
<1>n. NoCall \in [pc : Step, what : {"none", "rotation", "quality", "reset"}, value : Values]
  BY DEF NoCall, Step, Values
<1>1. ASSUME NEW h \in Handler, NEW r \in Rotation, AskRotation(h, r) PROVE IInv'
  <2>1. handler' = [handler EXCEPT ![h] = [pc |-> "read", what |-> "rotation", value |-> r]]
    BY <1>1 DEF AskRotation, Begin
  <2>2. config' \in Setting
    BY <1>t, <1>1 DEF AskRotation, TypeOK, Setting
  <2>3. handler' \in HandlerType
    BY <1>t, <2>1 DEF HandlerType, Step, Values
  <2>4. TypeOK'
    BY <1>t, <1>1, <2>2, <2>3
       DEF AskRotation, Begin, Event, TypeOK, HandlerType, Values, native, Reason
  <2>5. AskedFor'
    BY <1>t, <2>1 DEF AskedFor, HandlerType
  <2>6. Saved'
    BY <1>t, <2>1 DEF Saved, Pending, HandlerType
  <2>7. LossNeedsCutSave'
    BY <1>t, <1>1, <2>1 DEF LossNeedsCutSave, HandlerType, AskRotation, Begin
  <2> QED
    BY <1>t, <1>1, <2>4, <2>5, <2>6, <2>7
       DEF IInv, AskRotation, native, MarginsFit, QualityAllowed
<1>2. ASSUME NEW h \in Handler, NEW f \in Quality, AskQuality(h, f) PROVE IInv'
  <2>1. handler' = [handler EXCEPT ![h] = [pc |-> "factor", what |-> "quality", value |-> f]]
    BY <1>2 DEF AskQuality, Begin
  <2>2. handler' \in HandlerType
    BY <1>t, <2>1 DEF HandlerType, Step, Values
  <2>3. TypeOK'
    BY <1>t, <1>2, <2>2
       DEF AskQuality, Begin, Event, TypeOK, HandlerType, Values, native, Reason
  <2>4. AskedFor'
    BY <1>t, <2>1 DEF AskedFor, HandlerType
  <2>5. \A g \in Handler : handler[g].pc \notin {"idle", "factor"} => handler'[g] = handler[g]
    BY <1>t, <1>2, <2>1 DEF HandlerType, AskQuality, Begin
  <2>6. Saved' /\ LossNeedsCutSave'
    BY <1>t, <1>2, <2>5 DEF Saved, Pending, LossNeedsCutSave, AskQuality
  <2> QED
    BY <1>t, <1>2, <2>3, <2>4, <2>6 DEF IInv, AskQuality, native, MarginsFit, QualityAllowed
<1>3. ASSUME NEW h \in Handler, AskReset(h) PROVE IInv'
  <2>1. handler' = [handler EXCEPT ![h] = [pc |-> "save", what |-> "reset", value |-> 0]]
    BY <1>3 DEF AskReset, Begin
  <2>2. handler' \in HandlerType
    BY <1>t, <2>1 DEF HandlerType, Step, Values
  <2>3. TypeOK'
    BY <1>t, <1>3, <2>2
       DEF AskReset, Begin, Event, TypeOK, HandlerType, Values, native, Reason, Default, Setting
  <2>4. AskedFor'
    BY <1>t, <2>1 DEF AskedFor, HandlerType
  <2>5. Saved' /\ LossNeedsCutSave'
    BY <1>t, <1>3, <2>1 DEF Saved, Pending, LossNeedsCutSave, AskReset, Begin, HandlerType
  <2> QED
    BY <1>t, <1>3, <2>3, <2>4, <2>5 DEF IInv, AskReset, native, MarginsFit, QualityAllowed
<1>4. ASSUME NEW h \in Handler, ReadRotation(h) PROVE IInv'
  <2>1. handler' = [handler EXCEPT ![h].pc = "turn", ![h].value = config.rotation]
    BY <1>4 DEF ReadRotation
  <2>2. config.rotation \in Values
    BY <1>t DEF TypeOK, Setting, Values
  <2>3. handler' \in HandlerType
    BY <1>t, <2>1, <2>2 DEF HandlerType, Step
  <2>4. TypeOK'
    BY <1>t, <1>4, <2>3 DEF ReadRotation, TypeOK, HandlerType, Values, native
  <2>5. AskedFor'
    BY <1>t, <2>1 DEF AskedFor, HandlerType
  <2>6. Saved' /\ LossNeedsCutSave'
    BY <1>t, <1>4, <2>1 DEF Saved, Pending, LossNeedsCutSave, ReadRotation, HandlerType
  <2> QED
    BY <1>t, <1>4, <2>4, <2>5, <2>6 DEF IInv, ReadRotation, native, MarginsFit, QualityAllowed
<1>5. ASSUME NEW h \in Handler, SetRotation(h) PROVE IInv'
  <2>1. handler' = [handler EXCEPT ![h].pc = "save"]
    BY <1>5 DEF SetRotation, Goto
  <2>2. handler' \in HandlerType
    BY <1>t, <2>1 DEF HandlerType, Step
  <2>3. Fits(display')
    BY <1>t, <1>5, RotationFits DEF SetRotation
  <2>4. TypeOK' /\ MarginsFit'
    BY <1>t, <1>5, <2>2, <2>3
       DEF SetRotation, TypeOK, HandlerType, Values, Reason, Fits, DisplayType, MarginsFit
  <2>5. AskedFor'
    BY <1>t, <2>1 DEF AskedFor, HandlerType
  <2>6. Saved' /\ LossNeedsCutSave'
    BY <1>t, <1>5, <2>1 DEF Saved, Pending, LossNeedsCutSave, SetRotation, HandlerType
  <2> QED
    BY <1>t, <1>5, <2>4, <2>5, <2>6 DEF IInv, SetRotation, QualityAllowed
<1>6. ASSUME NEW h \in Handler, SetQualityFactor(h) PROVE IInv'
  <2>1. handler' = [handler EXCEPT ![h].pc = "set"]
    BY <1>6 DEF SetQualityFactor, Goto
  <2>2. handler' \in HandlerType
    BY <1>t, <2>1 DEF HandlerType, Step
  <2>3. quality' \in Nat /\ QualityAllowed'
    BY <1>t, <1>6 DEF SetQualityFactor, QualityAllowed, Allowed, TypeOK
  <2>4. TypeOK'
    BY <1>t, <1>6, <2>2, <2>3 DEF SetQualityFactor, TypeOK, HandlerType, Values, Reason
  <2>5. AskedFor'
    BY <1>t, <1>6, <2>1 DEF AskedFor, HandlerType, SetQualityFactor
  <2>6. \A g \in Handler : handler[g].pc # "factor" => handler'[g] = handler[g]
    BY <1>t, <1>6, <2>1 DEF HandlerType, SetQualityFactor
  <2>7. Saved' /\ LossNeedsCutSave'
    BY <1>t, <1>6, <2>6 DEF Saved, Pending, LossNeedsCutSave, SetQualityFactor
  <2> QED
    BY <1>t, <1>6, <2>3, <2>4, <2>5, <2>7 DEF IInv, SetQualityFactor, MarginsFit
<1>7. ASSUME NEW h \in Handler, RememberQuality(h) PROVE IInv'
  <2>1. handler' = [handler EXCEPT ![h].pc = "save"]
    BY <1>7 DEF RememberQuality, Goto
  <2>2. handler' \in HandlerType
    BY <1>t, <2>1 DEF HandlerType, Step
  <2>3. config' \in Setting
    BY <1>t, <1>7 DEF RememberQuality, TypeOK, Setting, AskedFor
  <2>4. TypeOK'
    BY <1>t, <1>7, <2>2, <2>3 DEF RememberQuality, TypeOK, HandlerType, Values, native
  <2>5. AskedFor'
    BY <1>t, <2>1 DEF AskedFor, HandlerType
  <2>6. Saved' /\ LossNeedsCutSave'
    BY <1>t, <1>7, <2>1 DEF Saved, Pending, LossNeedsCutSave, RememberQuality, HandlerType
  <2> QED
    BY <1>t, <1>7, <2>4, <2>5, <2>6
       DEF IInv, RememberQuality, native, MarginsFit, QualityAllowed
<1>8. ASSUME NEW h \in Handler, CallFails(h) \/ CreateFails(h) \/ EncodeFails(h) PROVE IInv'
  <2>1. handler' = [handler EXCEPT ![h] = NoCall] /\ failed' = TRUE
    BY <1>8 DEF CallFails, CreateFails, EncodeFails, Fail, Return
  <2>2. handler' \in HandlerType
    BY <1>t, <1>n, <2>1 DEF HandlerType
  <2>3. UNCHANGED <<config, disk, option, native, left>> /\ cut' \in BOOLEAN
    BY <1>t, <1>8 DEF CallFails, CreateFails, EncodeFails, TypeOK
  <2>4. parted' \subseteq Reason
    <3>1. parted' = parted \cup {"failed"}
      BY <1>8 DEF CallFails, CreateFails, EncodeFails, Fail
    <3>2. parted \subseteq Reason
      BY <1>t DEF TypeOK
    <3> QED
      BY <3>1, <3>2 DEF Reason
  <2>5. TypeOK'
    BY <1>t, <2>1, <2>2, <2>3, <2>4 DEF TypeOK, HandlerType, Values, native
  <2>6. AskedFor'
    BY <1>t, <2>1 DEF AskedFor, HandlerType, NoCall
  <2>7. cut' \/ (cut' = cut /\ handler[h].pc # "write")
    BY <1>8 DEF CallFails, CreateFails, EncodeFails
  <2>8. Saved' /\ LossNeedsCutSave'
    BY <1>t, <2>1, <2>3, <2>7 DEF Saved, LossNeedsCutSave, HandlerType
  <2> QED
    BY <1>t, <2>3, <2>5, <2>6, <2>8 DEF IInv, native, MarginsFit, QualityAllowed
<1>9. ASSUME NEW h \in Handler, Create(h) PROVE IInv'
  <2>1. handler' = [handler EXCEPT ![h].pc = "write"]
    BY <1>9 DEF Create, Goto
  <2>2. handler' \in HandlerType
    BY <1>t, <2>1 DEF HandlerType, Step
  <2>3. TypeOK'
    BY <1>t, <1>9, <2>2 DEF Create, TypeOK, HandlerType, Values, native
  <2>4. AskedFor'
    BY <1>t, <2>1 DEF AskedFor, HandlerType
  <2>5. Saved' /\ LossNeedsCutSave'
    BY <1>t, <2>1 DEF Saved, Pending, LossNeedsCutSave, HandlerType
  <2> QED
    BY <1>t, <1>9, <2>3, <2>4, <2>5 DEF IInv, Create, native, MarginsFit, QualityAllowed
<1>10. ASSUME NEW h \in Handler, Encode(h) PROVE IInv'
  <2>1. handler' = [handler EXCEPT ![h] = NoCall]
    BY <1>10 DEF Encode, Return
  <2>2. handler' \in HandlerType
    BY <1>t, <1>n, <2>1 DEF HandlerType
  <2>3. TypeOK'
    BY <1>t, <1>10, <2>2 DEF Encode, TypeOK, HandlerType, Values, native
  <2>4. AskedFor'
    BY <1>t, <2>1 DEF AskedFor, HandlerType, NoCall
  <2>5. disk' \in Setting /\ config' = disk'
    BY <1>t, <1>10 DEF Encode, TypeOK
  <2>6. Saved' /\ LossNeedsCutSave'
    BY <2>5, Loads DEF Saved, LossNeedsCutSave
  <2> QED
    BY <1>t, <1>10, <2>3, <2>4, <2>6 DEF IInv, Encode, native, MarginsFit, QualityAllowed
<1>11. ASSUME NativeEnds PROVE IInv'
  <2>1. parted' \subseteq Reason
    <3>1. parted \subseteq Reason /\ parted' = parted \cup {"restart"}
      BY <1>t, <1>11 DEF NativeEnds, TypeOK
    <3> QED
      BY <3>1 DEF Reason
  <2>2. left' \in Nat
    BY <1>t, <1>11 DEF NativeEnds, Event, TypeOK
  <2>3. TypeOK'
    BY <1>t, <1>11, <2>1, <2>2 DEF NativeEnds, TypeOK
  <2> QED
    BY <1>t, <1>11, <2>3
       DEF NativeEnds, IInv, AskedFor, MarginsFit, QualityAllowed, Saved, Pending, LossNeedsCutSave
<1>12. ASSUME NativeStarts PROVE IInv'
  <2>1. Fits(display')
    BY <1>12, InitFits DEF NativeStarts
  <2>2. quality' \in Nat /\ QualityAllowed'
    BY <1>t, <1>12, Qualities, Starts DEF NativeStarts, QualityAllowed, TypeOK
  <2>3. TypeOK' /\ MarginsFit'
    BY <1>t, <1>12, <2>1, <2>2 DEF NativeStarts, TypeOK, Fits, DisplayType, MarginsFit
  <2> QED
    BY <1>t, <1>12, <2>2, <2>3
       DEF NativeStarts, IInv, AskedFor, Saved, Pending, LossNeedsCutSave
<1>13. ASSUME AppRestarts PROVE IInv'
  <2>1. Fits(display')
    BY <1>13, InitFits DEF AppRestarts
  <2>2. config' \in Setting /\ option' \in Setting
    BY <1>t, <1>13, Loads DEF AppRestarts, TypeOK
  <2>3. quality' \in Nat /\ QualityAllowed'
    BY <2>2, <1>13, Qualities, Starts DEF AppRestarts, QualityAllowed
  <2>4. handler' \in HandlerType
    BY <1>n, <1>13 DEF AppRestarts, HandlerType
  <2>5. TypeOK' /\ MarginsFit'
    <3>1. left' \in Nat
      BY <1>t, <1>13 DEF AppRestarts, Event, TypeOK
    <3>2. disk' \in Setting \cup {Truncated} /\ running' \in BOOLEAN /\ failed' \in BOOLEAN
          /\ cut' \in BOOLEAN /\ parted' \subseteq Reason
      BY <1>t, <1>13 DEF AppRestarts, TypeOK
    <3> QED
      BY <2>1, <2>2, <2>3, <2>4, <3>1, <3>2
         DEF TypeOK, HandlerType, Values, Fits, DisplayType, MarginsFit
  <2>6. AskedFor'
    BY <1>13 DEF AppRestarts, AskedFor, NoCall
  <2>7. Saved' /\ LossNeedsCutSave'
    BY <1>t, <1>13 DEF AppRestarts, Saved, LossNeedsCutSave
  <2> QED
    BY <2>3, <2>5, <2>6, <2>7 DEF IInv
<1>14. CASE UNCHANGED vars
  BY <1>t, <1>14 DEF vars, native, IInv, TypeOK, AskedFor, MarginsFit, QualityAllowed, Saved,
                     Pending, LossNeedsCutSave
<1> QED
  BY <1>1, <1>2, <1>3, <1>4, <1>5, <1>6, <1>7, <1>8, <1>9, <1>10, <1>11, <1>12, <1>13, <1>14
     DEF Next

-----------------------------------------------------------------------------
(* Memory and process in step.                                             *)

Known == {0, 90, 180, 270}

RotationAgrees == config.rotation \in Known => display.turned = config.rotation
QualityAgrees == Allowed(config.quality) => quality = config.quality

\* What SettingsAgree needs while a handler is under way: as long as nothing has parted the two,
\* there is one handler at most, and they differ in what this one is about to set.
InStep ==
    parted = {} =>
        /\ running
        /\ \A g, h \in Handler : handler[g].pc # "idle" /\ handler[h].pc # "idle" => g = h
        /\ \A h \in Handler : handler[h].pc = "turn" => handler[h].value = config.rotation
        /\ \A h \in Handler :
              handler[h].pc = "set" => Allowed(handler[h].value) /\ quality = handler[h].value
        /\ RotationAgrees \/ \E h \in Handler : handler[h].pc \in {"read", "turn"}
        /\ QualityAgrees \/ \E h \in Handler : handler[h].pc = "set"

\* LVGL is turned to what it is asked for, if it knows it.
LEMMA RotationTurns ==
    ASSUME NEW d \in DisplayType, NEW r \in Known
    PROVE  lvgl_set_rotation(d, r).turned = r
<1>1. lvgl_set_rotation(d, r).turned = Turn(d.turned, r)
  BY DEF lvgl_set_rotation, DisplayType
<1>2. Turn(d.turned, r) = r
  BY DEF Turn, Known
<1> QED
  BY <1>1, <1>2

LEMMA InitTurns == ASSUME NEW r \in Known PROVE lvgl_init(r).turned = r
<1> DEFINE d == [turned |-> 0, side |-> Side(flex_screen), menu |-> Side(flex_screen_menu)]
<1>1. lvgl_init(r).turned = Turn(d.turned, r)
  BY DEF lvgl_init, lvgl_set_rotation
<1>2. Turn(d.turned, r) = r
  BY DEF Turn, Known
<1> QED
  BY <1>1, <1>2

\* A process, when the application starts, works with the configuration that was read.
LEMMA StartAgrees ==
    ASSUME option = config,
           display = lvgl_init(option.rotation), quality = StartQuality(option.quality)
    PROVE  RotationAgrees /\ QualityAgrees
<1>1. RotationAgrees
  BY InitTurns DEF RotationAgrees
<1>2. QualityAgrees
  BY DEF QualityAgrees, StartQuality
<1> QED
  BY <1>1, <1>2

LEMMA InitInStep == Init => InStep
<1> SUFFICES ASSUME Init PROVE InStep
  OBVIOUS
<1>1. RotationAgrees /\ QualityAgrees
  BY StartAgrees DEF Init
<1>2. running /\ \A h \in Handler : handler[h].pc = "idle"
  BY DEF Init, NoCall
<1> QED
  BY <1>1, <1>2 DEF InStep

\* A call that begins leaves the two in step only at rest, and then it is alone.
LEMMA BeginsAlone ==
    ASSUME TypeOK, NEW h \in Handler, NEW pc \in {"read", "factor", "save"}, NEW what, NEW value,
           Begin(h, pc, what, value), parted' = {}
    PROVE  /\ parted = {} /\ AtRest /\ what # "reset"
           /\ handler'[h].pc = pc
           /\ \A g \in Handler \ {h} : handler'[g].pc = "idle"
<1>1. parted = {} /\ AtRest /\ what # "reset"
  BY DEF Begin
<1>2. handler' = [handler EXCEPT ![h] = [pc |-> pc, what |-> what, value |-> value]]
  BY DEF Begin
<1>3. DOMAIN handler = Handler
  BY DEF TypeOK
<1>4. handler'[h].pc = pc /\ \A g \in Handler \ {h} : handler'[g] = handler[g]
  BY <1>2, <1>3
<1> QED
  BY <1>1, <1>4 DEF AtRest

LEMMA StepInStep == IInv /\ InStep /\ [Next]_vars => InStep'
<1> SUFFICES ASSUME IInv, InStep, [Next]_vars, parted' = {} PROVE InStep'
  BY DEF InStep
<1>t. TypeOK /\ handler \in HandlerType /\ display \in DisplayType
  BY DEF IInv, TypeOK, HandlerType, DisplayType, Values
<1>a. ASSUME AtRest, parted = {} PROVE running /\ RotationAgrees /\ QualityAgrees
  BY <1>a DEF InStep, AtRest
<1>1. ASSUME NEW h \in Handler, NEW r \in Rotation, AskRotation(h, r) PROVE InStep'
  <2>1. /\ parted = {} /\ AtRest /\ handler'[h].pc = "read"
        /\ \A g \in Handler \ {h} : handler'[g].pc = "idle"
    BY <1>t, <1>1, BeginsAlone DEF AskRotation
  <2>2. UNCHANGED native /\ config'.quality = config.quality
    BY <1>t, <1>1 DEF AskRotation, TypeOK, Setting
  <2>3. running' /\ QualityAgrees'
    BY <1>a, <2>1, <2>2 DEF native, QualityAgrees
  <2> QED
    BY <2>1, <2>3 DEF InStep
<1>2. ASSUME NEW h \in Handler, NEW f \in Quality, AskQuality(h, f) PROVE InStep'
  <2>1. /\ parted = {} /\ AtRest /\ handler'[h].pc = "factor"
        /\ \A g \in Handler \ {h} : handler'[g].pc = "idle"
    BY <1>t, <1>2, BeginsAlone DEF AskQuality
  <2>2. running' /\ QualityAgrees' /\ RotationAgrees'
    BY <1>a, <1>2, <2>1 DEF AskQuality, native, QualityAgrees, RotationAgrees
  <2> QED
    BY <2>1, <2>2 DEF InStep
<1>3. ASSUME NEW h \in Handler, AskReset(h) PROVE FALSE
  BY <1>t, <1>3, BeginsAlone DEF AskReset
\* The steps of a call under way, which is the only one.
<1>b. ASSUME NEW h \in Handler, handler[h].pc # "idle", parted = {}
      PROVE  \A g \in Handler \ {h} : handler[g].pc = "idle"
  BY <1>b DEF InStep
<1>4. ASSUME NEW h \in Handler, ReadRotation(h) PROVE InStep'
  <2>1. /\ parted = {} /\ handler[h].pc = "read"
        /\ UNCHANGED <<config, running, display, quality>>
    BY <1>4 DEF ReadRotation, native
  <2>2. handler'[h].pc = "turn" /\ handler'[h].value = config'.rotation
    BY <1>t, <1>4 DEF ReadRotation, HandlerType
  <2>3. \A g \in Handler \ {h} : handler'[g].pc = "idle"
    BY <1>t, <1>4, <1>b, <2>1 DEF ReadRotation, HandlerType
  <2>4. QualityAgrees'
    BY <1>b, <2>1 DEF InStep, QualityAgrees
  <2> QED
    BY <2>1, <2>2, <2>3, <2>4 DEF InStep
<1>5. ASSUME NEW h \in Handler, SetRotation(h) PROVE InStep'
  <2>1. /\ parted = {} /\ handler[h].pc = "turn" /\ handler[h].value \in Known
        /\ UNCHANGED <<config, running, quality>>
        /\ display' = lvgl_set_rotation(display, handler[h].value)
    BY <1>5 DEF SetRotation, Known
  <2>2. RotationAgrees'
    BY <1>t, <2>1, RotationTurns DEF InStep, RotationAgrees
  <2>3. handler'[h].pc = "save" /\ \A g \in Handler \ {h} : handler'[g].pc = "idle"
    BY <1>t, <1>5, <1>b, <2>1 DEF SetRotation, Goto, HandlerType
  <2>4. QualityAgrees'
    BY <1>b, <2>1 DEF InStep, QualityAgrees
  <2> QED
    BY <2>1, <2>2, <2>3, <2>4 DEF InStep
<1>6. ASSUME NEW h \in Handler, SetQualityFactor(h) PROVE InStep'
  <2>1. /\ parted = {} /\ handler[h].pc = "factor" /\ Allowed(handler[h].value)
        /\ UNCHANGED <<config, running, display>> /\ quality' = handler[h].value
    BY <1>6 DEF SetQualityFactor
  <2>2. handler'[h].pc = "set" /\ handler'[h].value = handler[h].value
    BY <1>t, <1>6 DEF SetQualityFactor, Goto, HandlerType
  <2>3. \A g \in Handler \ {h} : handler'[g].pc = "idle"
    BY <1>t, <1>6, <1>b, <2>1 DEF SetQualityFactor, Goto, HandlerType
  <2>4. RotationAgrees'
    BY <1>b, <2>1 DEF InStep, RotationAgrees
  <2> QED
    BY <2>1, <2>2, <2>3, <2>4 DEF InStep
<1>7. ASSUME NEW h \in Handler, RememberQuality(h) PROVE InStep'
  <2>1. /\ parted = {} /\ handler[h].pc = "set" /\ UNCHANGED <<running, display, quality>>
        /\ config' = [config EXCEPT !.quality = handler[h].value]
    BY <1>7 DEF RememberQuality, native
  <2>2. config'.quality = handler[h].value /\ config'.rotation = config.rotation
    BY <1>t, <2>1 DEF TypeOK, Setting
  <2>3. QualityAgrees'
    BY <2>1, <2>2 DEF InStep, QualityAgrees
  <2>4. handler'[h].pc = "save" /\ \A g \in Handler \ {h} : handler'[g].pc = "idle"
    BY <1>t, <1>7, <1>b, <2>1 DEF RememberQuality, Goto, HandlerType
  <2>5. RotationAgrees'
    BY <1>b, <2>1, <2>2 DEF InStep, RotationAgrees
  <2> QED
    BY <2>1, <2>3, <2>4, <2>5 DEF InStep
<1>8. ASSUME NEW h \in Handler, CallFails(h) \/ CreateFails(h) \/ EncodeFails(h) PROVE FALSE
  BY <1>8 DEF CallFails, CreateFails, EncodeFails, Fail
<1>9. ASSUME NEW h \in Handler, Create(h) \/ Encode(h) PROVE InStep'
  <2>1. /\ parted = {} /\ handler[h].pc \in {"save", "write"}
        /\ UNCHANGED <<config, running, display, quality>>
    BY <1>9 DEF Create, Encode, native
  <2>2. handler'[h].pc \in {"write", "idle"} /\ \A g \in Handler \ {h} : handler'[g].pc = "idle"
    BY <1>t, <1>9, <1>b, <2>1 DEF Create, Encode, Goto, Return, NoCall, HandlerType
  <2>3. RotationAgrees' /\ QualityAgrees'
    BY <1>b, <2>1 DEF InStep, RotationAgrees, QualityAgrees
  <2> QED
    BY <2>1, <2>2, <2>3 DEF InStep
<1>10. CASE NativeEnds
  BY <1>10 DEF NativeEnds
<1>11. CASE NativeStarts
  BY <1>11 DEF NativeStarts, InStep
<1>12. CASE AppRestarts
  <2>1. RotationAgrees' /\ QualityAgrees'
    <3>1. /\ option' = config' /\ display' = lvgl_init(option'.rotation)
          /\ quality' = StartQuality(option'.quality)
      BY <1>12 DEF AppRestarts
    <3>2. RotationAgrees'
      BY <3>1, InitTurns DEF RotationAgrees
    <3>3. QualityAgrees'
      BY <3>1 DEF QualityAgrees, StartQuality
    <3> QED
      BY <3>2, <3>3
  <2>2. running' /\ \A h \in Handler : handler'[h].pc = "idle"
    BY <1>12 DEF AppRestarts, NoCall
  <2> QED
    BY <2>1, <2>2 DEF InStep
<1>13. CASE UNCHANGED vars
  BY <1>13 DEF vars, native, InStep, RotationAgrees, QualityAgrees
<1> QED
  BY <1>1, <1>2, <1>3, <1>4, <1>5, <1>6, <1>7, <1>8, <1>9, <1>10, <1>11, <1>12, <1>13 DEF Next

-----------------------------------------------------------------------------
(* The theorems.                                                           *)

(* IInv is an invariant.                                                   *)
THEOREM Inductive == Spec => []IInv
BY InitHolds, StepHolds, PTL DEF Spec

(* Types, through any calls, failures and restarts (jsonrpc.go:222).       *)
THEOREM TypeCorrect == Spec => []TypeOK
<1>1. IInv => TypeOK
  BY DEF IInv
<1> QED
  BY <1>1, Inductive, PTL

(* The margins fit the way the display is turned (screen.c:111).           *)
THEOREM MarginsAlwaysFit == Spec => []MarginsFit
<1>1. IInv => MarginsFit
  BY DEF IInv
<1> QED
  BY <1>1, Inductive, PTL

(* At rest and without a failure the disk holds what the memory holds      *)
(* (config.go:181).                                                        *)
THEOREM QuietIsSaved == Spec => []QuietMeansSaved
<1>1. IInv => QuietMeansSaved
  BY DEF IInv, Saved, Pending, QuietMeansSaved, AtRest
<1> QED
  BY <1>1, Inductive, PTL

(* A configuration that cannot be decoded is owed to a save that was cut   *)
(* short (config.go:187).                                                  *)
THEOREM LossIsOwedToACutSave == Spec => []LossNeedsCutSave
<1>1. IInv => LossNeedsCutSave
  BY DEF IInv
<1> QED
  BY <1>1, Inductive, PTL

(* The process works with a quality factor it allows (ctrl.c:383).         *)
THEOREM QualityIsAllowed == Spec => []QualityAllowed
<1>1. IInv => QualityAllowed
  BY DEF IInv
<1> QED
  BY <1>1, Inductive, PTL

(* Settings are kept: types, at rest saved, lost only to a cut save.       *)
THEOREM SettingsAreKept == Spec => []SettingsKept
BY TypeCorrect, QuietIsSaved, LossIsOwedToACutSave, PTL DEF SettingsKept

(* The native process has the margins of its rotation and an allowed       *)
(* quality.                                                                *)
THEOREM NativeIsSound == Spec => []NativeSound
BY MarginsAlwaysFit, QualityIsAllowed, PTL DEF NativeSound

(* While no call fails, overlaps another or asks for what the process does *)
(* not know, and nothing is restarted or reset, the native process works   *)
(* with the rotation and the quality of the configuration whenever the     *)
(* handlers are at rest (jsonrpc.go:222).                                  *)
THEOREM ProcessFollows == Spec => []SettingsAgree
<1>1. InStep => SettingsAgree
  BY DEF InStep, SettingsAgree, AtRest, RotationAgrees, QualityAgrees, Known
<1>2. Spec => []InStep
  BY InitInStep, StepInStep, Inductive, PTL DEF Spec
<1> QED
  BY <1>1, <1>2, PTL

-----------------------------------------------------------------------------
(* Induction.                                                              *)

(* A set of naturals that is not empty has a least element.                *)
LEMMA LeastExists == ASSUME NEW T, T \subseteq Nat, T # {} PROVE \E x \in T : \A y \in T : x <= y
<1>1. \E x \in T : \A y \in T : ~ (<<y, x>> \in OpToRel(<, Nat))
  BY NatLessThanWellFounded, WFMin
<1>2. \A x, y \in T : ~ (<<y, x>> \in OpToRel(<, Nat)) => x <= y
  BY DEF OpToRel
<1> QED
  BY <1>1, <1>2

(* A set that holds 0, and with a number the next one, holds them all.     *)
LEMMA NatsByInduction ==
  ASSUME NEW T, 0 \in T, \A k \in Nat : k \in T => k + 1 \in T
  PROVE  Nat \subseteq T
<1> SUFFICES ASSUME Nat \ T # {} PROVE FALSE
  OBVIOUS
<1>1. PICK x \in Nat \ T : \A y \in Nat \ T : x <= y
  BY LeastExists
<1>2. x # 0 /\ x \in Nat
  BY <1>1
<1>3. x - 1 \in Nat /\ ~(x <= x - 1) /\ (x - 1) + 1 = x
  BY <1>2
<1>4. x - 1 \in T
  BY <1>1, <1>3
<1> QED
  BY <1>1, <1>3, <1>4

-----------------------------------------------------------------------------
(* Sums of bytes.                                                          *)

(* What f, the function that SumOf defines, is.                            *)
SumsUp(f, b, from, to) ==
    f = [i \in from .. to |-> IF i = from THEN 0 ELSE (f[i - 1] + b[i]) % 256]

LEMMA SumIsChosen ==
  ASSUME NEW b, NEW from, NEW to
  PROVE  SumOf(b, from, to) = (CHOOSE f : SumsUp(f, b, from, to))[to]
BY DEF SumOf, SumsUp

LEMMA SumsExist == ASSUME NEW b, NEW from \in Int, NEW n \in Nat PROVE \E f : SumsUp(f, b, from, from + n)
<1> DEFINE K == {k \in Nat : \E f : SumsUp(f, b, from, from + k)}
           next(i, s) == (s + b[i]) % 256
<1>0. ASSUME NEW k, NEW f PROVE SumsUp(f, b, from, k) <=>
        f = [i \in from .. k |-> IF i = from THEN 0 ELSE next(i, f[i - 1])]
  BY DEF SumsUp
<1> HIDE DEF next
<1>1. 0 \in K
  <2> DEFINE m == from + 0
             f == [i \in from .. m |-> 0]
  <2>1. \A i \in from .. m : i = from
    OBVIOUS
  <2> HIDE DEF m
  <2>2. f = [i \in from .. m |-> IF i = from THEN 0 ELSE next(i, f[i - 1])]
    BY <2>1
  <2> HIDE DEF f
  <2>3. SumsUp(f, b, from, m)
    BY <1>0, <2>2
  <2>4. \E g : SumsUp(g, b, from, from + 0)
    BY <2>3 DEF m
  <2> QED
    BY <2>4
<1>2. ASSUME NEW k \in Nat, k \in K PROVE k + 1 \in K
  <2> DEFINE m == from + k
  <2>1. PICK f : f = [i \in from .. m |-> IF i = from THEN 0 ELSE next(i, f[i - 1])]
    BY <1>0, <1>2
  <2>2. m \in Int /\ from <= m /\ from + (k + 1) = m + 1
    OBVIOUS
  <2> HIDE DEF m
  <2> DEFINE g == [i \in from .. m + 1 |-> IF i = from THEN 0 ELSE next(i, f[i - 1])]
  <2>3. \A i \in from .. m : i \in from .. m + 1 /\ f[i] = IF i = from THEN 0 ELSE next(i, f[i - 1])
    BY <2>1, <2>2
  <2>4. \A i \in from .. m : g[i] = f[i]
    BY <2>3
  <2>5. g = [i \in from .. m + 1 |-> g[i]]
    OBVIOUS
  <2>6. \A i \in from .. m + 1 : g[i] = IF i = from THEN 0 ELSE next(i, f[i - 1])
    OBVIOUS
  <2> HIDE DEF g
  <2>7. \A i \in from .. m + 1 : i # from => g[i - 1] = f[i - 1]
    BY <2>2, <2>4
  <2>8. g = [i \in from .. m + 1 |-> IF i = from THEN 0 ELSE next(i, g[i - 1])]
    BY <2>5, <2>6, <2>7
  <2>9. SumsUp(g, b, from, m + 1)
    BY <1>0, <2>8
  <2>10. \E h : SumsUp(h, b, from, from + (k + 1))
    BY <2>2, <2>9
  <2> QED
    BY <2>10
<1> HIDE DEF K
<1>3. Nat \subseteq K
  BY <1>1, <1>2, NatsByInduction
<1> QED
  BY <1>3 DEF K

\* f has the sums of the bytes after from, each of one byte more, up to n bytes.
Steps(f, b, from, n) ==
    /\ f[0] = 0
    /\ \A k \in 0 .. n - 1 : f[k + 1] = (f[k] + b[from + k + 1]) % 256

(* SumOf is the last of them.                                              *)
LEMMA SumSteps ==
  ASSUME NEW b, NEW from \in Int, NEW n \in Nat
  PROVE  \E f : Steps(f, b, from, n) /\ SumOf(b, from, from + n) = f[n]
<1> DEFINE to == from + n
           g == CHOOSE h : SumsUp(h, b, from, to)
           f == [k \in 0 .. n |-> g[from + k]]
<1>1. SumsUp(g, b, from, to)
  BY SumsExist
<1>2. SumOf(b, from, to) = g[to]
  BY SumIsChosen
<1> HIDE DEF g
<1>3. \A i \in from .. to : g[i] = IF i = from THEN 0 ELSE (g[i - 1] + b[i]) % 256
  BY <1>1 DEF SumsUp
<1>4. f[0] = 0
  <2>1. from + 0 = from /\ from \in from .. to /\ 0 \in 0 .. n
    OBVIOUS
  <2> HIDE DEF to
  <2> QED
    BY <1>3, <2>1
<1>5. ASSUME NEW k \in 0 .. n - 1 PROVE f[k + 1] = (f[k] + b[from + k + 1]) % 256
  <2>1. /\ from + (k + 1) \in from .. to /\ from + (k + 1) # from
        /\ from + (k + 1) - 1 = from + k /\ from + k + 1 = from + (k + 1)
        /\ k \in 0 .. n /\ k + 1 \in 0 .. n
    OBVIOUS
  <2> HIDE DEF to
  <2> QED
    BY <1>3, <2>1
<1>6. f[n] = g[to]
  OBVIOUS
<1> HIDE DEF f
<1>7. SumOf(b, from, from + n) = f[n]
  BY <1>2, <1>6
<1>8. Steps(f, b, from, n)
  BY <1>4, <1>5 DEF Steps
<1> QED
  BY <1>7, <1>8

LEMMA SumIsByte ==
  ASSUME NEW b, NEW from \in Int, NEW n \in Nat, \A i \in from + 1 .. from + n : b[i] \in Byte
  PROVE  SumOf(b, from, from + n) \in Byte
<1>1. PICK f : Steps(f, b, from, n) /\ SumOf(b, from, from + n) = f[n]
  BY SumSteps
<1> DEFINE K == {k \in Nat : k <= n => f[k] \in Byte}
<1>2. 0 \in K
  BY <1>1 DEF Byte, Steps
<1>3. ASSUME NEW k \in Nat, k \in K PROVE k + 1 \in K
  <2> SUFFICES ASSUME k + 1 <= n PROVE f[k + 1] \in Byte
    OBVIOUS
  <2>1. f[k] \in Byte /\ k \in 0 .. n - 1 /\ from + k + 1 \in from + 1 .. from + n
    BY <1>3
  <2>2. f[k + 1] = (f[k] + b[from + k + 1]) % 256 /\ b[from + k + 1] \in Byte
    BY <1>1, <2>1 DEF Steps
  <2> DEFINE x == f[k]
             y == b[from + k + 1]
             z == f[k + 1]
  <2>3. x \in 0 .. 255 /\ y \in 0 .. 255 /\ z = (x + y) % 256
    BY <2>1, <2>2 DEF Byte
  <2> HIDE DEF x, y, z
  <2>4. z \in 0 .. 255
    BY <2>3
  <2> QED
    BY <2>4 DEF z, Byte
<1> HIDE DEF K
<1>4. n \in K
  BY <1>2, <1>3, NatsByInduction
<1> QED
  BY <1>1, <1>4 DEF K

(* Bytes that are the same have the same sum.                              *)
LEMMA SumIsOfBytes ==
  ASSUME NEW a, NEW b, NEW from \in Int, NEW n \in Nat, \A i \in from + 1 .. from + n : a[i] = b[i]
  PROVE  SumOf(a, from, from + n) = SumOf(b, from, from + n)
<1>1. PICK f : Steps(f, a, from, n) /\ SumOf(a, from, from + n) = f[n]
  BY SumSteps
<1>2. PICK g : Steps(g, b, from, n) /\ SumOf(b, from, from + n) = g[n]
  BY SumSteps
<1> DEFINE K == {k \in Nat : k <= n => f[k] = g[k]}
<1>3. 0 \in K
  BY <1>1, <1>2 DEF Steps
<1>4. ASSUME NEW k \in Nat, k \in K PROVE k + 1 \in K
  <2> SUFFICES ASSUME k + 1 <= n PROVE f[k + 1] = g[k + 1]
    OBVIOUS
  <2>1. f[k] = g[k] /\ k \in 0 .. n - 1 /\ from + k + 1 \in from + 1 .. from + n
    BY <1>4
  <2>2. a[from + k + 1] = b[from + k + 1]
    BY <2>1
  <2> QED
    BY <1>1, <1>2, <2>1, <2>2 DEF Steps
<1> HIDE DEF K
<1>5. n \in K
  BY <1>3, <1>4, NatsByInduction
<1> QED
  BY <1>1, <1>2, <1>5 DEF K

LEMMA SumOfNothing ==
  ASSUME NEW b, NEW from \in Int, NEW n \in Nat, \A i \in from + 1 .. from + n : b[i] = 0
  PROVE  SumOf(b, from, from + n) = 0
<1>1. PICK f : Steps(f, b, from, n) /\ SumOf(b, from, from + n) = f[n]
  BY SumSteps
<1> DEFINE K == {k \in Nat : k <= n => f[k] = 0}
<1>2. 0 \in K
  BY <1>1 DEF Steps
<1>3. ASSUME NEW k \in Nat, k \in K PROVE k + 1 \in K
  <2> SUFFICES ASSUME k + 1 <= n PROVE f[k + 1] = 0
    OBVIOUS
  <2>1. f[k] = 0 /\ k \in 0 .. n - 1 /\ from + k + 1 \in from + 1 .. from + n
    BY <1>3
  <2>2. b[from + k + 1] = 0
    BY <2>1
  <2>3. f[k + 1] = (0 + 0) % 256
    BY <1>1, <2>1, <2>2 DEF Steps
  <2> QED
    BY <2>3
<1> HIDE DEF K
<1>4. n \in K
  BY <1>2, <1>3, NatsByInduction
<1> QED
  BY <1>1, <1>4 DEF K

-----------------------------------------------------------------------------
(* EDIDs.                                                                  *)

\* What a chip may hold: nothing, or one or two blocks of bytes with their checksums.
RightSums(e) ==
    \A i \in DOMAIN e : i % BlockSize = 0 => e[i] = (256 - SumOf(e, i - BlockSize, i - 1)) % 256

Chips == {<<>>} \cup {e \in Seq(Byte) : Len(e) \in {BlockSize, 2 * BlockSize} /\ RightSums(e)}

(* The bytes that a checksum sums up.                                      *)
LEMMA BlockEnds ==
  ASSUME NEW i \in Nat \ {0}, i % BlockSize = 0
  PROVE  /\ i - BlockSize \in Nat /\ i - 1 = (i - BlockSize) + 127
         /\ \A j \in i - BlockSize + 1 .. i - BlockSize + 127 : j \in 1 .. i - 1 /\ j % BlockSize # 0
BY DEF BlockSize

LEMMA SumOfBlock ==
  ASSUME NEW e, NEW n \in Nat, NEW i \in 1 .. n, \A j \in 1 .. n : e[j] \in Byte, i % BlockSize = 0
  PROVE  SumOf(e, i - BlockSize, i - 1) \in Byte
<1> DEFINE from == i - BlockSize
<1>1. from \in Nat /\ i - 1 = from + 127
  BY BlockEnds
<1>2. \A j \in from + 1 .. from + 127 : j \in 1 .. n
  BY BlockEnds
<1> HIDE DEF from
<1>3. SumOf(e, from, from + 127) \in Byte
  BY <1>1, <1>2, SumIsByte
<1> QED
  BY <1>1, <1>3 DEF from

LEMMA Checksum ==
  ASSUME NEW s \in Byte
  PROVE  (256 - s) % 256 \in Byte /\ (s + ((256 - s) % 256)) % 256 = 0
BY DEF Byte

(* A block's sum does not change when the checksums do.                    *)
LEMMA FixKeepsSum ==
  ASSUME NEW e \in Seq(Byte), NEW i \in 1 .. Len(e), i % BlockSize = 0
  PROVE  SumOf(fix_edid_checksum(e), i - BlockSize, i - 1) = SumOf(e, i - BlockSize, i - 1)
<1> DEFINE from == i - BlockSize
           x == fix_edid_checksum(e)
<1>1. from \in Nat /\ i - 1 = from + 127
  BY BlockEnds
<1>2. \A j \in from + 1 .. from + 127 : j \in 1 .. Len(e) /\ j % BlockSize # 0
  BY BlockEnds
<1> HIDE DEF from
<1>3. \A j \in from + 1 .. from + 127 : x[j] = e[j]
  BY <1>2 DEF fix_edid_checksum
<1> HIDE DEF x
<1>4. SumOf(x, from, from + 127) = SumOf(e, from, from + 127)
  BY <1>1, <1>3, SumIsOfBytes
<1> QED
  BY <1>1, <1>4 DEF from, x

(* What fix_edid_checksum gives has right sums, and else what it was given. *)
LEMMA FixGivesRightSums ==
  ASSUME NEW e \in Seq(Byte)
  PROVE  LET x == fix_edid_checksum(e)
         IN  /\ x \in Seq(Byte) /\ Len(x) = Len(e) /\ RightSums(x)
             /\ \A i \in DOMAIN x : i % BlockSize # 0 => x[i] = e[i]
             /\ \A i \in DOMAIN x : i % BlockSize = 0 =>
                   (SumOf(x, i - BlockSize, i - 1) + x[i]) % 256 = 0
<1> DEFINE x == fix_edid_checksum(e)
           n == Len(e)
           sum(i) == SumOf(e, i - BlockSize, i - 1)
<1>1. n \in Nat /\ \A i \in 1 .. n : e[i] \in Byte
  OBVIOUS
<1>2. x = [i \in 1 .. n |-> IF i % BlockSize = 0 THEN (256 - sum(i)) % 256 ELSE e[i]]
  BY DEF fix_edid_checksum
<1>3. \A i \in 1 .. n : i % BlockSize = 0 =>
         /\ sum(i) \in Byte
         /\ SumOf(x, i - BlockSize, i - 1) = sum(i)
  BY <1>1, SumOfBlock, FixKeepsSum
<1> HIDE DEF x, n, sum
<1>4. \A i \in 1 .. n : i % BlockSize = 0 =>
         /\ (256 - sum(i)) % 256 \in Byte
         /\ (sum(i) + ((256 - sum(i)) % 256)) % 256 = 0
  BY <1>3, Checksum
<1>5. \A i \in 1 .. n : IF i % BlockSize = 0 THEN x[i] = (256 - sum(i)) % 256 ELSE x[i] = e[i]
  BY <1>2
<1>6. x \in [1 .. n -> Byte]
  BY <1>1, <1>2, <1>4
<1>7. x \in Seq(Byte) /\ Len(x) = n /\ DOMAIN x = 1 .. n
  BY <1>1, <1>6
<1>8. RightSums(x)
  BY <1>3, <1>5, <1>7 DEF RightSums
<1>9. \A i \in DOMAIN x : i % BlockSize # 0 => x[i] = e[i]
  BY <1>5, <1>7
<1>10. \A i \in DOMAIN x : i % BlockSize = 0 => (SumOf(x, i - BlockSize, i - 1) + x[i]) % 256 = 0
  BY <1>3, <1>4, <1>5, <1>7
<1> QED
  BY <1>7, <1>8, <1>9, <1>10 DEF x, n

LEMMA RightSumsStay ==
  ASSUME NEW e \in Seq(Byte), RightSums(e)
  PROVE  fix_edid_checksum(e) = e
<1>1. e = [i \in 1 .. Len(e) |-> e[i]] /\ DOMAIN e = 1 .. Len(e)
  OBVIOUS
<1>2. \A i \in 1 .. Len(e) :
         (IF i % BlockSize = 0 THEN (256 - SumOf(e, i - BlockSize, i - 1)) % 256 ELSE e[i]) = e[i]
  BY <1>1 DEF RightSums
<1> QED
  BY <1>1, <1>2 DEF fix_edid_checksum

LEMMA DigitsAreRead == ASSUME NEW a \in Digit, NEW b \in Digit PROVE Strtol(a, b) = 16 * a + b
BY DEF Strtol, Digit, Space, Plus, Minus

LEMMA PairIsRead ==
  ASSUME NEW a \in 0 .. 19, NEW b \in 0 .. 19
  PROVE  /\ Strtol(a, b) \in Int
         /\ Strtol(a, b) >= 0 => Strtol(a, b) \in Byte /\ Strtol(a, b) = 16 * High(a) + b
<1>1. CASE b \notin Digit
  BY <1>1 DEF Strtol
<1>2. CASE b \in Digit
  <2>1. CASE a \in Digit
    <3>1. Strtol(a, b) = 16 * a + b
      BY <1>2, <2>1, DigitsAreRead
    <3>2. 16 * a + b \in 0 .. 255 /\ High(a) = a
      BY <1>2, <2>1 DEF Digit, High
    <3> QED
      BY <3>1, <3>2 DEF Byte
  <2>2. CASE a \notin Digit
    <3>1. Strtol(a, b) \in {b, 0, -1} /\ (Strtol(a, b) = 0 => b = 0)
      BY <1>2, <2>2 DEF Strtol, Digit, Space, Plus, Minus
    <3>2. b \in 0 .. 15 /\ 16 * High(a) + b = b
      BY <1>2, <2>2 DEF Digit, High
    <3> QED
      BY <3>1, <3>2 DEF Byte
  <2> QED
    BY <2>1, <2>2
<1> QED
  BY <1>1, <1>2

\* The numbers of a text's pairs.
Pairs(text, n) == [i \in 1 .. n |-> Strtol(text[2 * i - 1], text[2 * i])]

LEMMA HexIsRead ==
  ASSUME NEW text, Len(text) \in Nat
  PROVE  LET n == Len(text) \div 2
         IN  hex_to_bytes(text) =
                IF Len(text) % 2 = 0 /\ n <= MaxBytes /\ \A i \in 1 .. n : Pairs(text, n)[i] >= 0
                THEN {Pairs(text, n)} ELSE {}
BY DEF hex_to_bytes, Pairs

(* Bytes that are written in hexadecimal are read back.                    *)
LEMMA HexReadsBack ==
  ASSUME NEW b \in Seq(Byte), Len(b) \in 1 .. MaxBytes, NEW text \in bytes_to_hex(b)
  PROVE  hex_to_bytes(text) = {b} /\ Len(text) = 2 * Len(b)
<1> DEFINE n == Len(b)
<1>1. n \in Nat /\ n \in 1 .. MaxBytes /\ b # <<>> /\ \A i \in 1 .. n : b[i] \in Byte
  <2>1. n \in Nat /\ \A i \in 1 .. n : b[i] \in Byte
    OBVIOUS
  <2>2. n \in 1 .. MaxBytes /\ b # <<>>
    <3>1. 0 \notin 1 .. MaxBytes
      OBVIOUS
    <3>2. Len(<<>>) = 0
      OBVIOUS
    <3> QED
      BY <3>1, <3>2
  <2> QED
    BY <2>1, <2>2
<1>2. text = [i \in 1 .. 2 * n |-> IF i % 2 = 1 THEN b[(i + 1) \div 2] \div 16 ELSE b[i \div 2] % 16]
  BY <1>1 DEF bytes_to_hex
<1>3. b = [i \in 1 .. n |-> b[i]]
  OBVIOUS
<1> HIDE DEF n
<1>4. Len(text) = 2 * n
  BY <1>1, <1>2
<1>5. ASSUME NEW i \in 1 .. n PROVE Strtol(text[2 * i - 1], text[2 * i]) = b[i]
  <2>1. /\ 2 * i - 1 \in 1 .. 2 * n /\ (2 * i - 1) % 2 = 1 /\ ((2 * i - 1) + 1) \div 2 = i
        /\ 2 * i \in 1 .. 2 * n /\ (2 * i) % 2 # 1 /\ (2 * i) \div 2 = i
    BY <1>1
  <2>2. text[2 * i - 1] = b[i] \div 16 /\ text[2 * i] = b[i] % 16
    BY <1>2, <2>1
  <2> DEFINE x == b[i]
  <2>3. x \in 0 .. 255
    BY <1>1 DEF Byte
  <2> HIDE DEF x
  <2>4. x \div 16 \in Digit /\ x % 16 \in Digit /\ 16 * (x \div 16) + (x % 16) = x
    BY <2>3 DEF Digit
  <2>5. Strtol(x \div 16, x % 16) = x
    BY <2>4, DigitsAreRead
  <2> QED
    BY <2>2, <2>5 DEF x
<1>6. Len(text) \div 2 = n /\ Len(text) % 2 = 0
  BY <1>1, <1>4
<1>7. Pairs(text, n) = [i \in 1 .. n |-> b[i]]
  BY <1>5 DEF Pairs
<1>8. \A i \in 1 .. n : Pairs(text, n)[i] >= 0
  <2> TAKE i \in 1 .. n
  <2> DEFINE x == Pairs(text, n)[i]
  <2>1. x = b[i] /\ b[i] \in Byte
    BY <1>1, <1>7
  <2> HIDE DEF x
  <2>2. x \in 0 .. 255
    BY <2>1 DEF Byte
  <2>3. x >= 0
    BY <2>2
  <2> QED
    BY <2>3 DEF x
<1>9. Len(text) \in Nat /\ n <= MaxBytes
  BY <1>1, <1>4
<1>10. hex_to_bytes(text) = {Pairs(text, n)}
  BY <1>6, <1>8, <1>9, HexIsRead
<1> QED
  BY <1>3, <1>4, <1>7, <1>10 DEF n

(* Given any text, of any length, the chip keeps what it held or has the   *)
(* text's bytes, both digits of each, with a right checksum in each block, *)
(* read back as such; one or two blocks of digits are never refused.       *)
THEOREM TextReadsBack ==
  ASSUME NEW text \in Seq(0 .. 19), NEW chip \in Chips
  PROVE  ReadsBack(text, chip)
<1> DEFINE m == Len(text)
           n == m \div 2
           pairs == Pairs(text, n)
           new == jetkvm_video_set_edid(chip, text, TRUE)
           Sizes == {2 * BlockSize, 4 * BlockSize}
           Good == m % 2 = 0 /\ n \in {BlockSize, 2 * BlockSize} /\ \A i \in 1 .. n : pairs[i] >= 0
<1>1. m \in Nat /\ n \in Nat /\ \A i \in 1 .. m : text[i] \in 0 .. 19
  OBVIOUS
<1>2. pairs = [i \in 1 .. n |-> Strtol(text[2 * i - 1], text[2 * i])]
  BY DEF Pairs
<1>3. hex_to_bytes(text) =
         IF m % 2 = 0 /\ n <= MaxBytes /\ \A i \in 1 .. n : pairs[i] >= 0 THEN {pairs} ELSE {}
  BY <1>1, HexIsRead
<1>4. BlockSize = 128 /\ MaxBytes = 256
  BY DEF BlockSize, MaxBytes
<1> HIDE DEF pairs
<1>5. Good => new = fix_edid_checksum(pairs)
  <2> SUFFICES ASSUME Good PROVE new = fix_edid_checksum(pairs)
    OBVIOUS
  <2>1. hex_to_bytes(text) = {pairs}
    BY <1>3, <1>4
  <2>2. (CHOOSE b \in {pairs} : TRUE) = pairs
    OBVIOUS
  <2>3. Len(pairs) = n
    BY <1>1, <1>2
  <2> HIDE DEF m, n
  <2> QED
    BY <2>1, <2>2, <2>3 DEF jetkvm_video_set_edid, set_edid
<1>6. ~Good => new = chip
  <2> SUFFICES ASSUME ~Good, hex_to_bytes(text) # {} PROVE new = chip
    BY DEF jetkvm_video_set_edid
  <2>1. hex_to_bytes(text) = {pairs} /\ m % 2 = 0 /\ \A i \in 1 .. n : pairs[i] >= 0
    BY <1>3
  <2>2. (CHOOSE b \in {pairs} : TRUE) = pairs
    OBVIOUS
  <2>3. Len(pairs) = n /\ n \notin {BlockSize, 2 * BlockSize}
    BY <1>1, <1>2, <2>1
  <2> HIDE DEF m, n
  <2> QED
    BY <2>1, <2>2, <2>3 DEF jetkvm_video_set_edid, set_edid
<1>7. \A i \in 1 .. n : m % 2 = 0 =>
         /\ pairs[i] \in Int
         /\ pairs[i] >= 0 => pairs[i] \in Byte /\ pairs[i] = 16 * High(text[2 * i - 1]) + text[2 * i]
  <2> SUFFICES ASSUME NEW i \in 1 .. n, m % 2 = 0
               PROVE  /\ pairs[i] \in Int
                      /\ pairs[i] >= 0 => pairs[i] \in Byte /\ pairs[i] = 16 * High(text[2 * i - 1]) + text[2 * i]
    OBVIOUS
  <2>1. 2 * i - 1 \in 1 .. m /\ 2 * i \in 1 .. m
    BY <1>1
  <2>2. pairs[i] = Strtol(text[2 * i - 1], text[2 * i])
    BY <1>2
  <2> QED
    BY <1>1, <2>1, <2>2, PairIsRead
<1>8. Good => m \in Sizes /\ m = 2 * n
  <2>1. m % 2 = 0 => m = 2 * n
    BY <1>1
  <2> HIDE DEF m, n
  <2> QED
    BY <1>1, <2>1
<1>9. Good => pairs \in Seq(Byte) /\ Len(pairs) = n
  <2> SUFFICES ASSUME Good PROVE pairs \in [1 .. n -> Byte]
    BY <1>1
  <2> QED
    BY <1>2, <1>7
<1>10. text \in Seq(Digit) /\ m \in Sizes => Good
  <2>0. m \in {256, 512} => m % 2 = 0 /\ n \in {128, 256}
    <3>1. 256 % 2 = 0 /\ 512 % 2 = 0 /\ 256 \div 2 = 128 /\ 512 \div 2 = 256
      OBVIOUS
    <3> HIDE DEF m
    <3> QED
      BY <3>1
  <2> SUFFICES ASSUME text \in Seq(Digit), m \in Sizes PROVE \A i \in 1 .. n : pairs[i] >= 0
    <3> HIDE DEF m, n
    <3> QED
      BY <1>4, <2>0
  <2> TAKE i \in 1 .. n
  <2>1. 2 * i - 1 \in 1 .. m /\ 2 * i \in 1 .. m
    BY <1>1
  <2>2. pairs[i] = Strtol(text[2 * i - 1], text[2 * i])
    BY <1>2
  <2> DEFINE a == text[2 * i - 1]
             b == text[2 * i]
  <2>3. a \in Digit /\ b \in Digit
    BY <2>1
  <2> HIDE DEF a, b
  <2>4. Strtol(a, b) = 16 * a + b
    BY <2>3, DigitsAreRead
  <2>5. 16 * a + b >= 0
    BY <2>3 DEF Digit
  <2> QED
    BY <2>2, <2>4, <2>5 DEF a, b
<1> DEFINE x == fix_edid_checksum(pairs)
<1>11. Good => /\ x \in Seq(Byte) /\ Len(x) = n /\ RightSums(x)
               /\ \A i \in DOMAIN x : i % BlockSize # 0 => x[i] = pairs[i]
               /\ \A i \in DOMAIN x : i % BlockSize = 0 =>
                     (SumOf(x, i - BlockSize, i - 1) + x[i]) % 256 = 0
  BY <1>9, FixGivesRightSums
<1>12. Good => new \in Chips
  BY <1>5, <1>11 DEF Chips
<1>13. new \in Chips
  BY <1>6, <1>12
<1> HIDE DEF x, new, m, n, Good, Sizes
<1>14. Len(text) \notin {2 * BlockSize, 4 * BlockSize} => new = chip
  BY <1>6, <1>8 DEF m, Sizes
<1>15. Good => IsEdidOf(new, text)
  <2> SUFFICES ASSUME Good, NEW i \in DOMAIN new
               PROVE  IF i % BlockSize = 0
                      THEN (SumOf(new, i - BlockSize, i - 1) + new[i]) % 256 = 0
                      ELSE new[i] = 16 * High(text[2 * i - 1]) + text[2 * i]
    BY DEF IsEdidOf
  <2>1. new = x
    BY <1>5 DEF x
  <2>2. x \in Seq(Byte) /\ Len(x) = n
    BY <1>11
  <2>3. i \in 1 .. n
    BY <2>1, <2>2
  <2>4. pairs[i] = 16 * High(text[2 * i - 1]) + text[2 * i]
    BY <1>7, <2>3 DEF Good
  <2> QED
    BY <1>11, <2>1, <2>4
<1>18. new # chip => IsEdidOf(new, text)
  BY <1>6, <1>15
<1>19. text \in Seq(Digit) /\ Len(text) \in {2 * BlockSize, 4 * BlockSize}
         => Len(text) = 2 * Len(new) /\ IsEdidOf(new, text)
  <2>1. text \in Seq(Digit) /\ m \in Sizes => Good
    BY <1>10
  <2>2. Good => Len(new) = n /\ m = 2 * n
    BY <1>5, <1>8, <1>11 DEF x
  <2> QED
    BY <1>15, <2>1, <2>2 DEF m, Sizes
<1>16. ASSUME NEW read \in jetkvm_video_get_edid_hex(new, TRUE)
       PROVE  /\ jetkvm_video_set_edid(new, read, TRUE) = new
              /\ text \in Seq(Digit) /\ Len(text) \in {2 * BlockSize, 4 * BlockSize}
                    => Len(read) = Len(text)
  <2>1. read \in bytes_to_hex(new)
    BY DEF jetkvm_video_get_edid_hex, get_edid
  <2>2. new # <<>>
    BY <2>1 DEF bytes_to_hex
  <2>3. new \in Seq(Byte) /\ Len(new) \in {BlockSize, 2 * BlockSize} /\ RightSums(new)
    BY <1>13, <2>2 DEF Chips
  <2>4. Len(new) \in 1 .. MaxBytes
    BY <1>4, <2>3
  <2>5. hex_to_bytes(read) = {new} /\ Len(read) = 2 * Len(new)
    BY <2>1, <2>3, <2>4, HexReadsBack
  <2>6. jetkvm_video_set_edid(new, read, TRUE) = fix_edid_checksum(new)
    <3>1. (CHOOSE b \in {new} : TRUE) = new
      OBVIOUS
    <3> QED
      BY <2>3, <2>5, <3>1 DEF jetkvm_video_set_edid, set_edid
  <2>7. fix_edid_checksum(new) = new
    BY <2>3, RightSumsStay
  <2>8. text \in Seq(Digit) /\ m \in Sizes => Len(read) = m
    <3> SUFFICES ASSUME text \in Seq(Digit), m \in Sizes PROVE Len(read) = m
      OBVIOUS
    <3>1. Good
      BY <1>10
    <3>2. Len(new) = n
      BY <1>5, <1>11, <3>1 DEF x
    <3> QED
      BY <1>8, <2>5, <3>1, <3>2
  <2> QED
    BY <2>6, <2>7, <2>8 DEF m, Sizes
<1>17. new = jetkvm_video_set_edid(chip, text, TRUE)
  BY DEF new
<1> QED
  BY <1>14, <1>16, <1>17, <1>18, <1>19 DEF ReadsBack

LEMMA AllTextsReadBack == EveryTextReadsBack
<1>1. ASSUME NEW n \in Nat, NEW k \in Nat, NEW c \in Nat PROVE Text(n, k, c) \in [1 .. n -> 0 .. 15]
  <2> SUFFICES ASSUME NEW i \in 1 .. n PROVE (k * i + c) % 16 \in 0 .. 15
    BY DEF Text
  <2>1. k * i \in Nat
    OBVIOUS
  <2> QED
    BY <2>1
<1>2. ASSUME NEW text \in Texts PROVE text \in Seq(0 .. 19)
  <2>1. CASE \E n \in {0, 2, 255, 256, 512, 514}, k \in {0, 1, 7}, c \in {0, 15} : text = Text(n, k, c)
    <3>1. PICK n \in Nat, k \in Nat, c \in Nat : text = Text(n, k, c)
      BY <2>1
    <3>2. Text(n, k, c) \in [1 .. n -> 0 .. 15]
      BY <1>1
    <3>3. text \in [1 .. n -> 0 .. 15]
      BY <3>1, <3>2
    <3>4. text \in [1 .. n -> 0 .. 19]
      BY <3>3
    <3> QED
      BY <3>4
  <2>2. CASE \E k \in {0, 1}, p \in {3, 4}, x \in 16 .. 19 : text = [Text(256, k, 0) EXCEPT ![p] = x]
    <3>1. PICK k \in {0, 1}, p \in {3, 4}, x \in 16 .. 19 : text = [Text(256, k, 0) EXCEPT ![p] = x]
      BY <2>2
    <3> DEFINE n == 256
    <3>0. n \in Nat /\ k \in Nat /\ 0 \in Nat
      OBVIOUS
    <3>2. Text(n, k, 0) \in [1 .. n -> 0 .. 15]
      <4> HIDE DEF n
      <4> QED
        BY <1>1, <3>0
    <3>3. text \in [1 .. n -> 0 .. 19] /\ n \in Nat
      BY <3>1, <3>2
    <3> HIDE DEF n
    <3> QED
      BY <3>3
  <2> QED
    BY <2>1, <2>2 DEF Texts
<1>3. <<>> \in Chips
  BY DEF Chips
<1>4. [i \in 1 .. BlockSize |-> 0] \in Chips
  <2> DEFINE n == BlockSize
             e == [i \in 1 .. n |-> 0]
  <2>1. n \in Nat /\ n = 128
    BY DEF BlockSize
  <2>2. DOMAIN e = 1 .. n /\ \A i \in 1 .. n : e[i] = 0
    OBVIOUS
  <2>3. e \in [1 .. n -> Byte]
    BY DEF Byte
  <2> HIDE DEF n, e
  <2>4. e \in Seq(Byte) /\ Len(e) = n
    <3>0. n \in Nat
      BY <2>1
    <3>1. e \in Seq(Byte)
      BY <2>3, <3>0
    <3> QED
      BY <2>1, <2>2, <3>1
  <2>5. RightSums(e)
    <3> SUFFICES ASSUME NEW i \in 1 .. n, i % BlockSize = 0
        PROVE  e[i] = (256 - SumOf(e, i - BlockSize, i - 1)) % 256
      BY <2>2 DEF RightSums
    <3> DEFINE from == i - BlockSize
    <3>1. from \in Nat /\ i - 1 = from + 127 /\ \A j \in from + 1 .. from + 127 : j \in 1 .. n
      BY <2>1, BlockEnds
    <3> HIDE DEF from
    <3>2. SumOf(e, from, from + 127) = 0
      <4> DEFINE k == 127
      <4>1. from \in Int /\ k \in Nat /\ \A j \in from + 1 .. from + k : e[j] = 0
        BY <2>2, <3>1
      <4> HIDE DEF k
      <4>2. SumOf(e, from, from + k) = 0
        BY <4>1, SumOfNothing
      <4> QED
        BY <4>2 DEF k
    <3>3. (256 - 0) % 256 = 0
      OBVIOUS
    <3> QED
      BY <2>2, <3>1, <3>2, <3>3 DEF from
  <2> QED
    BY <2>4, <2>5 DEF Chips, n, e
<1> QED
  BY <1>2, <1>3, <1>4, TextReadsBack DEF EveryTextReadsBack

-----------------------------------------------------------------------------
(* The status.                                                             *)

(* Of some places up to n there is a last.                                 *)
LEMMA LastExists ==
  ASSUME NEW n \in Nat, NEW T \in SUBSET (1 .. n), T # {}
  PROVE  \E i \in T : \A j \in T : j <= i
<1> DEFINE D == {n - i : i \in T}
<1>1. D \subseteq Nat /\ D # {}
  <2>1. \A i \in T : n - i \in Nat
    OBVIOUS
  <2> QED
    BY <2>1
<1>2. PICK d \in D : \A e \in D : d <= e
  BY <1>1, LeastExists
<1>3. PICK i \in T : d = n - i
  BY <1>2
<1>4. \A j \in T : n - j \in D
  OBVIOUS
<1>5. \A j \in T : d <= n - j /\ j \in Int
  BY <1>2, <1>4
<1>6. \A j \in T : j <= i
  BY <1>3, <1>5
<1> QED
  BY <1>6

(* Of a log of any length what is told starts at the last report in it.    *)
THEOREM LogIsTold ==
  ASSUME NEW log \in Seq(Pieces), Broken(log)
  PROVE  ToldFromItsLastReport(log)
<1> DEFINE n == Len(log)
           reports == Reports(log)
           last == LastReport(reports)
           begins == {i \in 1 .. last : log[i] \in {"<6>", "<4>"}}
           from == IF begins = {} THEN 1 ELSE CHOOSE i \in begins : \A j \in begins : j <= i
           told == [i \in 1 .. n - from + 1 |->
                       IF log[from + i - 1] = "<6>" THEN "   " ELSE log[from + i - 1]]
<1>1. n \in Nat /\ DOMAIN log = 1 .. n
  OBVIOUS
<1>2. reports = {i \in 1 .. n : log[i] = "START"}
  BY <1>1 DEF Reports
<1>3. videoc_log_status(log) = IF reports = {} THEN log ELSE told
  BY <1>2 DEF videoc_log_status
<1>4. CASE reports = {}
  BY <1>3, <1>4 DEF ToldFromItsLastReport
<1>5. CASE reports # {}
  <2>1. last \in reports /\ \A j \in reports : j <= last
    <3>1. \E i \in reports : \A j \in reports : j <= i
      <4> HIDE DEF reports, n
      <4>1. reports \in SUBSET (1 .. n)
        BY <1>2
      <4> QED
        BY <1>1, <1>5, <4>1, LastExists
    <3> HIDE DEF reports
    <3> QED
      BY <3>1 DEF LastReport
  <2>2. last \in 1 .. n /\ log[last] = "START"
    BY <1>2, <2>1
  <2> HIDE DEF last
  <2>3. /\ from \in 1 .. last
        /\ \A j \in 1 .. last : log[j] \in {"<6>", "<4>"} => j <= from
    <3>1. CASE begins = {}
      BY <2>2, <3>1
    <3>2. CASE begins # {}
      <4>1. last \in Nat /\ begins \in SUBSET (1 .. last)
        BY <1>1, <2>2
      <4>2. \E i \in begins : \A j \in begins : j <= i
        <5> HIDE DEF begins
        <5> QED
          BY <3>2, <4>1, LastExists
      <4>3. from \in begins /\ \A j \in begins : j <= from
        <5> HIDE DEF begins
        <5> QED
          BY <3>2, <4>2
      <4> HIDE DEF from
      <4> QED
        BY <4>3
    <3> QED
      BY <3>1, <3>2
  <2> HIDE DEF from, begins
  <2> DEFINE m == n - from + 1
             place == last - from + 1
  <2>4. m \in Nat /\ place \in 1 .. m /\ \A i \in 1 .. m : from + i - 1 \in from .. n /\ from + i - 1 \in 1 .. n
    BY <1>1, <2>2, <2>3
  <2>5. DOMAIN told = 1 .. m /\ \A i \in 1 .. m :
          told[i] = IF log[from + i - 1] = "<6>" THEN "   " ELSE log[from + i - 1]
    OBVIOUS
  <2>6. from + place - 1 = last
    BY <1>1, <2>2, <2>3
  <2> HIDE DEF told, n, m, place
  <2>7. told[place] = "START"
    BY <2>2, <2>4, <2>5, <2>6
  <2>8. ASSUME NEW i \in 1 .. m, told[i] = "START" PROVE i = place
    <3> DEFINE k == from + i - 1
    <3>1. k \in from .. n
      BY <2>4
    <3>2. k \in 1 .. n /\ told[i] = IF log[k] = "<6>" THEN "   " ELSE log[k]
      BY <2>4, <2>5
    <3> HIDE DEF k
    <3>3. /\ n \in Int /\ last \in Int /\ from \in Int /\ k \in Int
          /\ 1 <= from /\ from <= last /\ last <= n /\ from <= k /\ k <= n
      <4>1. n \in Int /\ last \in Int /\ last <= n
        BY <1>1, <2>2
      <4>2. from \in Int /\ 1 <= from /\ from <= last
        BY <2>3, <4>1
      <4>3. k \in Int /\ from <= k /\ k <= n
        BY <3>1, <4>1, <4>2
      <4> QED
        BY <4>1, <4>2, <4>3
    <3>4. log[k] = "START"
      BY <2>8, <3>2
    <3>5. k \in reports
      BY <1>2, <3>2, <3>4
    <3>6. k <= last
      BY <2>1, <3>5
    <3>7. ASSUME k < last PROVE FALSE
      <4>1. PICK j \in k .. last : log[j] \in {"<6>", "<4>"}
        BY <1>1, <2>2, <3>2, <3>4, <3>7 DEF Broken
      <4>2. j \in 1 .. last /\ from <= j
        BY <3>3
      <4>3. j <= from
        BY <2>3, <4>1, <4>2
      <4>4. j = from /\ k = from
        BY <3>3, <4>2, <4>3
      <4> QED
        BY <3>4, <4>1, <4>4
    <3>8. k = last
      BY <3>3, <3>6, <3>7
    <3> QED
      BY <2>6, <3>3, <3>8 DEF k, place
  <2>9. Reports(told) = {place}
    BY <2>4, <2>5, <2>7, <2>8 DEF Reports
  <2>10. Cardinality({place}) = 1
    BY FS_Singleton
  <2>11. \A i \in DOMAIN told : told[i] # "<6>"
    BY <2>5
  <2>12. videoc_log_status(log) = told
    BY <1>3, <1>5
  <2> QED
    BY <1>5, <2>9, <2>10, <2>11, <2>12 DEF ToldFromItsLastReport
<1> QED
  BY <1>4, <1>5

LEMMA AllLogsAreTold == EveryLogIsToldFromItsLastReport
<1> SUFFICES ASSUME NEW n \in 0 .. 5, NEW log \in [1 .. n -> Pieces], Broken(log)
             PROVE  ToldFromItsLastReport(log)
  BY DEF EveryLogIsToldFromItsLastReport
<1>1. n \in Nat
  OBVIOUS
<1>2. log \in Seq(Pieces)
  BY <1>1
<1> QED
  BY <1>2, LogIsTold

-----------------------------------------------------------------------------
(* Filters.                                                                *)

(* What f, the function that Filtered defines, is.                         *)
Keeps(f, seq, kept, n) ==
    f = [i \in 0 .. n |-> IF i = 0 THEN <<>>
                          ELSE IF i \in kept THEN Append(f[i - 1], seq[i]) ELSE f[i - 1]]

LEMMA FilteredIsChosen ==
  ASSUME NEW seq, NEW kept
  PROVE  Filtered(seq, kept) = (CHOOSE f : Keeps(f, seq, kept, Len(seq)))[Len(seq)]
BY DEF Filtered, Keeps

LEMMA KeepsExists == ASSUME NEW seq, NEW kept, NEW n \in Nat PROVE \E f : Keeps(f, seq, kept, n)
<1> DEFINE K == {k \in Nat : \E f : Keeps(f, seq, kept, k)}
           next(i, s) == IF i \in kept THEN Append(s, seq[i]) ELSE s
<1>0. ASSUME NEW k, NEW f PROVE Keeps(f, seq, kept, k) <=>
        f = [i \in 0 .. k |-> IF i = 0 THEN <<>> ELSE next(i, f[i - 1])]
  BY DEF Keeps
<1> HIDE DEF next
<1>1. 0 \in K
  <2> DEFINE f == [i \in 0 .. 0 |-> <<>>]
  <2>1. \A i \in 0 .. 0 : i = 0
    OBVIOUS
  <2>2. f = [i \in 0 .. 0 |-> IF i = 0 THEN <<>> ELSE next(i, f[i - 1])]
    BY <2>1
  <2> HIDE DEF f
  <2> QED
    BY <1>0, <2>2
<1>2. ASSUME NEW k \in Nat, k \in K PROVE k + 1 \in K
  <2>1. PICK f : f = [i \in 0 .. k |-> IF i = 0 THEN <<>> ELSE next(i, f[i - 1])]
    BY <1>0, <1>2
  <2> DEFINE g == [i \in 0 .. k + 1 |-> IF i = 0 THEN <<>> ELSE next(i, f[i - 1])]
  <2>2. \A i \in 0 .. k : i \in 0 .. k + 1 /\ f[i] = IF i = 0 THEN <<>> ELSE next(i, f[i - 1])
    BY <2>1
  <2>3. \A i \in 0 .. k : g[i] = f[i]
    BY <2>2
  <2>4. g = [i \in 0 .. k + 1 |-> g[i]]
    OBVIOUS
  <2>5. \A i \in 0 .. k + 1 : g[i] = IF i = 0 THEN <<>> ELSE next(i, f[i - 1])
    OBVIOUS
  <2> HIDE DEF g
  <2>6. \A i \in 0 .. k + 1 : i # 0 => g[i - 1] = f[i - 1]
    BY <2>3
  <2>7. g = [i \in 0 .. k + 1 |-> IF i = 0 THEN <<>> ELSE next(i, g[i - 1])]
    BY <2>4, <2>5, <2>6
  <2>8. Keeps(g, seq, kept, k + 1)
    BY <1>0, <2>7
  <2>9. \E h : Keeps(h, seq, kept, k + 1)
    BY <2>8
  <2> QED
    BY <2>9
<1> HIDE DEF K
<1>3. Nat \subseteq K
  BY <1>1, <1>2, NatsByInduction
<1> QED
  BY <1>3 DEF K

(* Filtered keeps what it is to keep.                                      *)
LEMMA FilteredKeeps ==
  ASSUME NEW S, NEW seq \in Seq(S), NEW kept \in SUBSET DOMAIN seq
  PROVE  Filtered(seq, kept) \in Seq(S) /\ IsFiltered(Filtered(seq, kept), seq, kept)
<1> DEFINE n == Len(seq)
           f == CHOOSE g : Keeps(g, seq, kept, n)
           Holds(k) == /\ f[k] \in Seq(S)
                       /\ IsFiltered(f[k], seq, kept \cap (1 .. k))
           K == {k \in Nat : k <= n => Holds(k)}
<1>1. n \in Nat /\ DOMAIN seq = 1 .. n
  OBVIOUS
<1>2. Keeps(f, seq, kept, n)
  BY <1>1, KeepsExists
<1> HIDE DEF f
<1>3. \A i \in 0 .. n : f[i] = IF i = 0 THEN <<>>
                               ELSE IF i \in kept THEN Append(f[i - 1], seq[i]) ELSE f[i - 1]
  BY <1>2 DEF Keeps
<1>4. 0 \in K
  <2>1. f[0] = <<>> /\ kept \cap (1 .. 0) = {}
    BY <1>1, <1>3
  <2>2. IsFiltered(<<>>, seq, {})
    <3> DEFINE place == [i \in {} |-> 0]
    <3>1. place \in [DOMAIN <<>> -> {}]
      OBVIOUS
    <3> QED
      BY <3>1 DEF IsFiltered
  <2>3. <<>> \in Seq(S)
    OBVIOUS
  <2>4. Holds(0)
    BY <2>1, <2>2, <2>3
  <2> HIDE DEF Holds
  <2> QED
    BY <2>4
<1>5. ASSUME NEW k \in Nat, k \in K PROVE k + 1 \in K
  <2> SUFFICES ASSUME k + 1 <= n PROVE Holds(k + 1)
    OBVIOUS
  <2>1. Holds(k)
    BY <1>1, <1>5
  <2>2. f[k + 1] = IF k + 1 \in kept THEN Append(f[k], seq[k + 1]) ELSE f[k]
    <3>1. k + 1 \in 0 .. n /\ k + 1 # 0 /\ (k + 1) - 1 = k
      BY <1>1
    <3> QED
      BY <1>3, <3>1
  <2>3. CASE k + 1 \notin kept
    <3>1. kept \cap (1 .. k + 1) = kept \cap (1 .. k)
      BY <2>3
    <3> QED
      BY <2>1, <2>2, <2>3, <3>1
  <2>4. CASE k + 1 \in kept
    <3> DEFINE s == f[k]
               m == Len(s)
               old == kept \cap (1 .. k)
               new == kept \cap (1 .. k + 1)
    <3>1. s \in Seq(S) /\ m \in Nat /\ DOMAIN s = 1 .. m
      BY <2>1
    <3>2. PICK place \in [1 .. m -> old] :
            /\ {place[i] : i \in 1 .. m} = old
            /\ \A i, j \in 1 .. m : i < j => place[i] < place[j]
            /\ \A i \in 1 .. m : s[i] = seq[place[i]]
      BY <2>1, <3>1 DEF IsFiltered
    <3>3. f[k + 1] = Append(s, seq[k + 1]) /\ seq[k + 1] \in S
      BY <1>1, <2>2, <2>4
    <3> DEFINE to == [i \in 1 .. m + 1 |-> IF i = m + 1 THEN k + 1 ELSE place[i]]
    <3>4. new = old \cup {k + 1}
      BY <2>4
    <3> HIDE DEF s, m, old, new
    <3>5. /\ f[k + 1] \in Seq(S) /\ DOMAIN f[k + 1] = 1 .. m + 1
          /\ f[k + 1][m + 1] = seq[k + 1] /\ \A i \in 1 .. m : f[k + 1][i] = s[i]
      <4>1. m = Len(s)
        BY DEF m
      <4> QED
        BY <3>1, <3>3, <4>1, AppendProperties
    <3>6. to \in [1 .. m + 1 -> new]
      <4>1. \A i \in 1 .. m + 1 : i = m + 1 \/ i \in 1 .. m
        BY <3>1
      <4> QED
        BY <3>2, <3>4, <4>1
    <3>7. \A i \in 1 .. m : to[i] = place[i] /\ to[i] \in old
      BY <3>1, <3>2
    <3>8. to[m + 1] = k + 1
      BY <3>1
    <3>9. \A i \in 1 .. m + 1 : i = m + 1 \/ i \in 1 .. m
      BY <3>1
    <3> HIDE DEF to
    <3>10. {to[i] : i \in 1 .. m + 1} = new
      <4>1. ASSUME NEW x \in old PROVE \E i \in 1 .. m + 1 : to[i] = x
        <5>1. PICK i \in 1 .. m : place[i] = x
          BY <3>2
        <5>2. i \in 1 .. m + 1
          BY <3>1
        <5> QED
          BY <3>7, <5>1, <5>2
      <4>2. m + 1 \in 1 .. m + 1
        BY <3>1
      <4> QED
        BY <3>4, <3>6, <3>8, <4>1, <4>2
    <3>11. \A i, j \in 1 .. m + 1 : i < j => to[i] < to[j]
      <4> SUFFICES ASSUME NEW i \in 1 .. m + 1, NEW j \in 1 .. m + 1, i < j PROVE to[i] < to[j]
        OBVIOUS
      <4>1. i \in 1 .. m
        BY <3>1, <3>9
      <4>2. CASE j \in 1 .. m
        BY <3>2, <3>7, <4>1, <4>2
      <4>3. CASE j = m + 1
        <5>1. to[i] \in 1 .. k
          BY <3>7, <4>1 DEF old
        <5> QED
          BY <3>8, <4>3, <5>1
      <4> QED
        BY <3>9, <4>2, <4>3
    <3>12. \A i \in 1 .. m + 1 : f[k + 1][i] = seq[to[i]]
      BY <3>2, <3>5, <3>7, <3>8, <3>9
    <3>13. IsFiltered(f[k + 1], seq, new)
      BY <3>5, <3>6, <3>10, <3>11, <3>12 DEF IsFiltered
    <3> QED
      BY <3>5, <3>13 DEF new
  <2> QED
    BY <2>3, <2>4
<1>6. Holds(n)
  <2> HIDE DEF K, Holds
  <2>1. Nat \subseteq K
    BY <1>4, <1>5, NatsByInduction
  <2> QED
    BY <1>1, <2>1 DEF K
<1>7. kept \cap (1 .. n) = kept
  BY <1>1
<1> QED
  BY <1>6, <1>7, FilteredIsChosen DEF f

-----------------------------------------------------------------------------
(* Styles.                                                                 *)

LEMMA StylesOfText ==
  /\ label_font16 = [font |-> "book16", text |-> "white"]
  /\ \A p \in {"font", "text"} : p \in DOMAIN label_font_bold30 /\ p \in DOMAIN header_link
  /\ label_font_bold30.text = "white" /\ header_link.text = "blue"
<1>1. label_font16 = [font |-> "book16", text |-> "white"]
  BY DEF label_font16
<1>2. DOMAIN label_font16 = {"font", "text"} /\ label_font16.text = "white"
  BY <1>1
<1> HIDE DEF label_font16
<1>3. DOMAIN [font |-> "bold30"] = {"font"}
  OBVIOUS
<1>4. DOMAIN label_font_bold30 = {"font", "text"} /\ label_font_bold30.text = "white"
  BY <1>2, <1>3 DEF label_font_bold30, Over
<1>5. DOMAIN header_link = {"font", "text"} /\ header_link.text = "blue"
  BY <1>2 DEF header_link, Over
<1> QED
  BY <1>1, <1>4, <1>5


LEMMA ColoursBehind ==
  /\ "bg" \in DOMAIN flex_screen /\ flex_screen.bg = "black"
  /\ "bg" \in DOMAIN flex_screen_menu /\ flex_screen_menu.bg = "black"
<1>1. "bg" \in DOMAIN flex_screen /\ flex_screen.bg = "black"
  BY DEF flex_screen
<1>2. DOMAIN <<>> = {}
  OBVIOUS
<1> HIDE DEF flex_screen
<1>3. flex_screen_menu = [p \in DOMAIN flex_screen |-> flex_screen[p]]
  BY <1>2 DEF flex_screen_menu, Over
<1> QED
  BY <1>1, <1>3

LEMMA TextIsReadable ==
  \A p \in TextOver : /\ {"font", "text"} \subseteq DOMAIN p[1] /\ "bg" \in DOMAIN p[2]
                      /\ p[1].text # p[2].bg
<1> DEFINE Ok(t, b) == {"font", "text"} \subseteq DOMAIN t /\ "bg" \in DOMAIN b /\ t.text # b.bg
<1>1. Ok(label_font16, flex_screen) /\ Ok(label_font_bold30, flex_screen)
  BY StylesOfText, ColoursBehind
<1>2. Ok(header_link, flex_screen_menu)
  BY StylesOfText, ColoursBehind
<1>3. Ok(info_headline_label, flex_screen_menu) /\ Ok(info_content_label, flex_screen_menu)
  BY ColoursBehind DEF info_headline_label, info_content_label
<1>4. Ok(menu_button_label, menu_button)
  BY DEF menu_button_label, menu_button
<1>5. Ok(label_font16, [bg |-> "black"])
  BY StylesOfText
<1> HIDE DEF Ok
<1>6. \A p \in TextOver : Ok(p[1], p[2])
  BY <1>1, <1>2, <1>3, <1>4, <1>5 DEF TextOver
<1> QED
  BY <1>6 DEF Ok

LEMMA FlexStyles ==
  /\ \A s \in {flex_center, flex_start, flex_column_start} : "layout" \in DOMAIN s /\ s.flow = "column"
  /\ \A s \in {flow_row_space_between, flow_row_start_center} : "layout" \in DOMAIN s /\ s.flow = "row"
<1> DEFINE row == [layout |-> "flex", flow |-> "row"]
           column == [layout |-> "flex", flow |-> "column"]
<1>1. /\ DOMAIN row = {"layout", "flow"} /\ row.flow = "row"
      /\ DOMAIN column = {"layout", "flow"} /\ column.flow = "column"
  OBVIOUS
<1>2. /\ flex_center = column /\ flex_start = Over(flex_center, column)
      /\ flow_row_space_between = Over(flex_center, row)
      /\ flow_row_start_center = Over(flow_row_space_between, row)
      /\ flex_column_start = Over(flow_row_space_between, column)
  BY DEF flex_center, flex_start, flow_row_space_between, flow_row_start_center, flex_column_start
<1> HIDE DEF row, column
<1>3. \A base, own : {"layout", "flow"} \subseteq DOMAIN own =>
         {"layout", "flow"} \subseteq DOMAIN Over(base, own) /\ Over(base, own).flow = own.flow
  BY DEF Over
<1> QED
  BY <1>1, <1>2, <1>3

LEMMA ChildrenAreLaidOut ==
  \A c \in DOMAIN ContainerStyle :
     /\ "layout" \in DOMAIN ContainerStyle[c]
     /\ ContainerStyle[c].flow = IF c \in SideBySide THEN "row" ELSE "column"
<1> DEFINE Column == {"logo_and_version", "reboot_in_progress", "screen_content", "addresses",
                      "menu_items", "info_row", "info_items", "hold_items"}
<1>1. DOMAIN ContainerStyle = SideBySide \cup Column
  BY DEF ContainerStyle, SideBySide
<1>2. \A c \in SideBySide : ContainerStyle[c] \in {flow_row_space_between, flow_row_start_center}
  BY DEF ContainerStyle, SideBySide
<1>3. \A c \in Column : ContainerStyle[c] \in {flex_center, flex_start, flex_column_start} /\ c \notin SideBySide
  BY DEF ContainerStyle, SideBySide
<1> HIDE DEF Column
<1> QED
  BY <1>1, <1>2, <1>3, FlexStyles

(* A sequence with one element before it that is not kept is filtered as   *)
(* the sequence is.                                                        *)
LEMMA FirstIsLeftOut ==
  ASSUME NEW S, NEW seq \in Seq(S), NEW first \in S,
         NEW kept \in SUBSET DOMAIN seq, NEW more,
         1 \notin more, \A i \in 1 .. Len(seq) : i + 1 \in more <=> i \in kept
  PROVE  Filtered(<<first>> \o seq, more) = Filtered(seq, kept)
<1> DEFINE n == Len(seq)
           all == <<first>> \o seq
           f == CHOOSE h : Keeps(h, seq, kept, n)
           g == CHOOSE h : Keeps(h, all, more, n + 1)
           K == {k \in Nat : k <= n => g[k + 1] = f[k]}
<1>1. n \in Nat /\ DOMAIN seq = 1 .. n
  OBVIOUS
<1>2. Len(all) = n + 1 /\ \A i \in 1 .. n : all[i + 1] = seq[i]
  <2>1. <<first>> \in Seq(S) /\ Len(<<first>>) = 1
    OBVIOUS
  <2>2. Len(all) = 1 + n /\ \A i \in 1 .. 1 + n : all[i] = IF i <= 1 THEN <<first>>[i] ELSE seq[i - 1]
    BY <2>1, ConcatProperties
  <2>3. \A i \in 1 .. n : i + 1 \in 1 .. 1 + n /\ ~(i + 1 <= 1) /\ (i + 1) - 1 = i
    OBVIOUS
  <2> QED
    BY <2>2, <2>3
<1>3. Keeps(f, seq, kept, n) /\ Keeps(g, all, more, n + 1)
  <2>1. n + 1 \in Nat
    BY <1>1
  <2> HIDE DEF n
  <2> QED
    BY <1>1, <2>1, KeepsExists
<1>4. Filtered(seq, kept) = f[n] /\ Filtered(all, more) = g[n + 1]
  BY <1>2, FilteredIsChosen
<1> HIDE DEF f, g, all
<1>5. \A i \in 0 .. n : f[i] = IF i = 0 THEN <<>>
                               ELSE IF i \in kept THEN Append(f[i - 1], seq[i]) ELSE f[i - 1]
  BY <1>3 DEF Keeps
<1>6. \A i \in 0 .. n + 1 : g[i] = IF i = 0 THEN <<>>
                                   ELSE IF i \in more THEN Append(g[i - 1], all[i]) ELSE g[i - 1]
  BY <1>3 DEF Keeps
<1>7. 1 \notin more /\ \A k \in 1 .. n : k + 1 \in more <=> k \in kept
  OBVIOUS
<1>8. 0 \in K
  <2>1. 0 \in 0 .. n + 1 /\ 1 \in 0 .. n + 1 /\ 0 \in 0 .. n /\ 1 # 0 /\ 1 - 1 = 0 /\ 0 + 1 = 1
    BY <1>1
  <2>2. g[0] = <<>> /\ f[0] = <<>>
    BY <1>5, <1>6, <2>1
  <2>3. g[1] = g[0]
    BY <1>6, <1>7, <2>1
  <2> QED
    BY <2>1, <2>2, <2>3
<1>9. ASSUME NEW k \in Nat, k \in K PROVE k + 1 \in K
  <2> SUFFICES ASSUME k + 1 <= n PROVE g[(k + 1) + 1] = f[k + 1]
    OBVIOUS
  <2> DEFINE i == k + 1
  <2>1. i \in 1 .. n /\ i \in 0 .. n /\ i # 0 /\ i - 1 = k /\ i + 1 \in 0 .. n + 1 /\ i + 1 # 0 /\ (i + 1) - 1 = i
    BY <1>1
  <2>2. g[i] = f[k]
    BY <1>1, <1>9
  <2> HIDE DEF i
  <2>3. f[i] = IF i \in kept THEN Append(f[k], seq[i]) ELSE f[k]
    BY <1>5, <2>1
  <2>4. g[i + 1] = IF i + 1 \in more THEN Append(g[i], all[i + 1]) ELSE g[i]
    BY <1>6, <2>1
  <2>5. all[i + 1] = seq[i] /\ (i + 1 \in more <=> i \in kept)
    BY <1>2, <1>7, <2>1
  <2>6. g[i + 1] = f[i]
    BY <2>2, <2>3, <2>4, <2>5
  <2> QED
    BY <2>6 DEF i
<1> HIDE DEF K
<1>10. n \in K
  <2>1. Nat \subseteq K
    BY <1>8, <1>9, NatsByInduction
  <2> QED
    BY <1>1, <2>1
<1> QED
  BY <1>4, <1>10 DEF K, all

(* A style comes off any object by the number it was put on with, and      *)
(* nothing else does (styles.c).                                           *)
THEOREM StyleComesOff ==
  ASSUME NEW S, NEW obj \in Seq(S), NEW style \in 0 .. 15, add_style_funcs[style + 1] \in S
  PROVE  ComesOff(obj, style)
<1> DEFINE s == add_style_funcs[style + 1]
           kept == {i \in DOMAIN obj : obj[i] # s}
           all == <<s>> \o obj
           more == {i \in DOMAIN all : all[i] # s}
           n == Len(obj)
<1>1. remove_style_funcs[style + 1] = s
  BY DEF remove_style_funcs, add_style_funcs
<1>2. remove_style(obj, style) = Filtered(obj, kept)
  BY <1>1 DEF remove_style
<1>3. remove_style(add_style(obj, style), style) = Filtered(all, more)
  BY <1>1 DEF remove_style, add_style
<1>4. n \in Nat /\ DOMAIN obj = 1 .. n /\ s \in S
  OBVIOUS
<1> HIDE DEF s
<1>5. IsFiltered(Filtered(obj, kept), obj, kept)
  <2>1. kept \in SUBSET DOMAIN obj
    OBVIOUS
  <2> HIDE DEF kept
  <2> QED
    BY <2>1, FilteredKeeps
<1>6. DOMAIN all = 1 .. n + 1 /\ all[1] = s /\ \A i \in 1 .. n : all[i + 1] = obj[i]
  <2>1. <<s>> \in Seq(S) /\ Len(<<s>>) = 1
    BY <1>4
  <2>2. /\ all \in Seq(S) /\ Len(all) = 1 + n
        /\ \A i \in 1 .. 1 + n : all[i] = IF i <= 1 THEN <<s>>[i] ELSE obj[i - 1]
    BY <2>1, ConcatProperties
  <2>3. \A i \in 1 .. n : i + 1 \in 1 .. 1 + n /\ ~(i + 1 <= 1) /\ (i + 1) - 1 = i
    BY <1>4
  <2>4. 1 \in 1 .. 1 + n /\ 1 <= 1 /\ 1 + n = n + 1
    BY <1>4
  <2> HIDE DEF all, n
  <2> QED
    BY <2>2, <2>3, <2>4
<1> HIDE DEF all, n
<1>7. 1 \notin more /\ \A i \in 1 .. n : i + 1 \in more <=> i \in kept
  <2>1. \A i \in 1 .. n : i + 1 \in 1 .. n + 1
    BY <1>4
  <2> QED
    BY <1>4, <1>6, <2>1
<1>8. Filtered(all, more) = Filtered(obj, kept)
  <2>1. kept \in SUBSET DOMAIN obj
    OBVIOUS
  <2> HIDE DEF kept, more
  <2>2. Filtered(<<s>> \o obj, more) = Filtered(obj, kept)
    BY <1>4, <1>7, <2>1, FirstIsLeftOut DEF n
  <2> QED
    BY <2>2 DEF all
<1> QED
  BY <1>2, <1>3, <1>5, <1>8 DEF ComesOff, s

LEMMA AllStylesComeOff == EveryStyleComesOff
<1> DEFINE S == {add_style_funcs[k + 1] : k \in 0 .. 15}
           obj(a, b) == add_style(add_style(<<>>, a), b)
<1>1. \A k \in 0 .. 15 : add_style_funcs[k + 1] \in S
  OBVIOUS
<1> HIDE DEF S
<1>2. ASSUME NEW a \in 0 .. 15, NEW b \in 0 .. 15 PROVE obj(a, b) \in Seq(S)
  <2>1. <<add_style_funcs[a + 1]>> \in Seq(S) /\ <<add_style_funcs[b + 1]>> \in Seq(S) /\ <<>> \in Seq(S)
    BY <1>1
  <2> QED
    BY <2>1 DEF add_style
<1> HIDE DEF obj
<1>3. \A a, b, style \in 0 .. 15 : ComesOff(obj(a, b), style)
  BY <1>1, <1>2, StyleComesOff
<1> QED
  BY <1>3 DEF EveryStyleComesOff, obj

-----------------------------------------------------------------------------
(* Whatever a running process computes from tables and texts is right:     *)
(* layouts, contrast, the styles that come off, the EDID and the status.   *)
THEOREM ConversionsAlwaysHold == Spec => []ConversionsHold
<1>1. ConversionsHold
  BY ChildrenAreLaidOut, TextIsReadable, AllStylesComeOff, AllTextsReadBack, AllLogsAreTold, Zenon
     DEF ConversionsHold, ChildrenLaidOut, TextReadable, StylesComeOff, EdidReadsBack, StatusIsLast
<1> QED
  BY <1>1, PTL
=============================================================================
