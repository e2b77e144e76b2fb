------------------------------ MODULE Settings ------------------------------
(***************************************************************************)
(* Where a setting of the built-in display and of the encoder lives: in    *)
(* the configuration of the application (config.go) and on its disk, in    *)
(* the options the native process is started with, and in that process.    *)
(* JSON-RPC handlers, each a goroutine of its own, change them in several  *)
(* steps; the native process may end at any time and is started again with *)
(* the options of the application's start; the application may end at any  *)
(* time too, in the middle of a save.  A configuration file that cannot be *)
(* decoded is one with Truncated in it.                                    *)
(***************************************************************************)
EXTENDS Styles, Edid, FiniteSets

CONSTANTS Handler,     \* goroutines that handle JSON-RPC calls
          Rotation,    \* rotations a client may ask for, not only those LVGL knows
          Quality,     \* quality factors a client may ask for, in percent
          Truncated,   \* the file between os.Create and the end of the encoding
          MaxEvents    \* bound: calls, ends of the native process and of the application, together

ASSUME RotationAssumption == Rotation \subseteq Nat
ASSUME QualityAssumption == Quality \subseteq Nat
ASSUME BoundAssumption == MaxEvents \in Nat

Default == [rotation |-> 270, quality |-> 100]
Setting == [rotation : Rotation \cup {270}, quality : Quality \cup {100}]
ASSUME TruncatedAssumption == Truncated \notin Setting

NoCall == [pc |-> "idle", what |-> "none", value |-> 0]

VARIABLES
    config,     \* the configuration in memory
    disk,       \* the configuration file
    option,     \* DisplayRotation and DefaultQualityFactor of the native process's options
    running,    \* the native process has finished its start
    display,    \* how it has turned the display, and the margins of its styles
    quality,    \* its quality_factor
    handler,    \* per handler: its step, what it sets and the value
    left,       \* what is left of the bound
    failed,     \* history: a step of a call failed since the application's start
    cut,        \* history: a save was cut short or failed after it had emptied the file
    parted      \* history: why memory and process may differ since the application's start

native == <<running, display, quality>>
vars == <<config, disk, option, native, handler, left, failed, cut, parted>>

Reason == {"failed", "overlap", "value", "restart", "reset"}
Step == {"idle", "read", "turn", "set", "factor", "save", "write"}

TypeOK ==
    /\ config \in Setting /\ disk \in Setting \cup {Truncated} /\ option \in Setting
    /\ running \in BOOLEAN
    /\ display \in [turned : {0, 90, 180, 270}, side : [left : Nat, right : Nat],
                    menu : [left : Nat, right : Nat]]
    /\ quality \in Nat
    /\ handler \in [Handler -> [pc : Step, what : {"none", "rotation", "quality", "reset"},
                                value : Rotation \cup Quality \cup {0, 100, 270}]]
    /\ left \in Nat
    /\ failed \in BOOLEAN /\ cut \in BOOLEAN
    /\ parted \subseteq Reason

\* LoadConfig: the defaults stand for what cannot be decoded.
LoadConfig(file) == IF file = Truncated THEN Default ELSE file

\* The quality factor a process takes: jetkvm_video_set_quality_factor refuses all others.
Allowed(factor) == factor \in 1 .. 100
\* Mutant: the factor of the configuration is trusted.
StartQuality_Trusting(factor) == factor

\* NewNative and video_init start with the highest instead.
StartQuality(factor) == IF Allowed(factor) THEN factor ELSE 100

AtRest == \A h \in Handler : handler[h].pc = "idle"

Init ==
    /\ disk \in Setting \cup {Truncated}
    /\ config = LoadConfig(disk) /\ option = config
    /\ running = TRUE
    /\ display = lvgl_init(option.rotation) /\ quality = StartQuality(option.quality)
    /\ handler = [h \in Handler |-> NoCall]
    /\ left = MaxEvents
    /\ failed = FALSE /\ cut = (disk = Truncated) /\ parted = {}

Event == left > 0 /\ left' = left - 1

Goto(h, pc) == handler' = [handler EXCEPT ![h].pc = pc]
Return(h) == handler' = [handler EXCEPT ![h] = NoCall]
Fail(h) == Return(h) /\ failed' = TRUE /\ parted' = parted \cup {"failed"}

\* A handler that begins while another one is under way may overtake it anywhere.
Begin(h, pc, what, value) ==
    /\ handler[h].pc = "idle"
    /\ Event
    /\ handler' = [handler EXCEPT ![h] = [pc |-> pc, what |-> what, value |-> value]]
    /\ parted' = parted \cup (IF AtRest THEN {} ELSE {"overlap"})
                        \cup (IF what = "reset" THEN {"reset"} ELSE {})

-----------------------------------------------------------------------------
(* The handlers.                                                           *)

\* rpcSetDisplayRotation does nothing about the rotation the configuration has.
AskRotation(h, r) ==
    /\ r # config.rotation
    /\ Begin(h, "read", "rotation", r)
    /\ config' = [config EXCEPT !.rotation = r]
    /\ UNCHANGED <<disk, option, native, failed, cut>>

\* It then reads the configuration again.
ReadRotation(h) ==
    /\ handler[h].pc = "read"
    /\ handler' = [handler EXCEPT ![h].pc = "turn", ![h].value = config.rotation]
    /\ UNCHANGED <<config, disk, option, native, left, failed, cut, parted>>

SetRotation(h) ==
    /\ handler[h].pc = "turn"
    /\ running
    /\ display' = lvgl_set_rotation(display, handler[h].value)
    /\ Goto(h, "save")
    /\ parted' = parted \cup (IF handler[h].value \in {0, 90, 180, 270} THEN {} ELSE {"value"})
    /\ UNCHANGED <<config, disk, option, running, quality, left, failed, cut>>

\* rpcSetStreamQualityFactor asks the process first.
AskQuality(h, f) ==
    /\ Begin(h, "factor", "quality", f)
    /\ UNCHANGED <<config, disk, option, native, failed, cut>>

\* The wrapper drops the C function's refusal, so that the handler goes on.
SetQualityFactor(h) ==
    /\ handler[h].pc = "factor"
    /\ running
    /\ quality' = IF Allowed(handler[h].value) THEN handler[h].value ELSE quality
    /\ Goto(h, "set")
    /\ parted' = parted \cup (IF Allowed(handler[h].value) THEN {} ELSE {"value"})
    /\ UNCHANGED <<config, disk, option, running, display, left, failed, cut>>

\* Mutant: the configuration is changed and not saved.
RememberQuality_Unsaved(h) ==
    /\ handler[h].pc = "set"
    /\ config' = [config EXCEPT !.quality = handler[h].value]
    /\ Return(h)
    /\ UNCHANGED <<disk, option, native, left, failed, cut, parted>>

RememberQuality(h) ==
    /\ handler[h].pc = "set"
    /\ config' = [config EXCEPT !.quality = handler[h].value]
    /\ Goto(h, "save")
    /\ UNCHANGED <<disk, option, native, left, failed, cut, parted>>

\* A call to a process that is not there, or ends before it answers, is an error, and the handler's
\* return; what it has set in memory stays.
CallFails(h) ==
    /\ handler[h].pc \in {"turn", "factor"}
    /\ ~running
    /\ Fail(h)
    /\ UNCHANGED <<config, disk, option, native, left, cut>>

\* rpcResetConfig replaces the whole configuration and tells nobody.
AskReset(h) ==
    /\ Begin(h, "save", "reset", 0)
    /\ config' = Default
    /\ UNCHANGED <<disk, option, native, failed, cut>>

\* saveConfig, under configLock: os.Create empties the file, the encoder fills it.
Create(h) ==
    /\ handler[h].pc = "save"
    /\ \A g \in Handler : handler[g].pc # "write"
    /\ disk' = Truncated
    /\ Goto(h, "write")
    /\ UNCHANGED <<config, option, native, left, failed, cut, parted>>

Encode(h) ==
    /\ handler[h].pc = "write"
    /\ disk' = config
    /\ Return(h)
    /\ UNCHANGED <<config, option, native, left, failed, cut, parted>>

\* Mutant: the file has been emptied when it is found that it cannot be written.
CreateFails_Emptied(h) ==
    /\ handler[h].pc = "save"
    /\ \A g \in Handler : handler[g].pc # "write"
    /\ disk' = Truncated
    /\ Fail(h)
    /\ UNCHANGED <<config, option, native, left, cut>>

CreateFails(h) ==
    /\ handler[h].pc = "save"
    /\ \A g \in Handler : handler[g].pc # "write"
    /\ Fail(h)
    /\ UNCHANGED <<config, disk, option, native, left, cut>>

EncodeFails(h) ==
    /\ handler[h].pc = "write"
    /\ Fail(h) /\ cut' = TRUE
    /\ UNCHANGED <<config, disk, option, native, left>>

-----------------------------------------------------------------------------
(* Ends and starts.                                                        *)

NativeEnds ==
    /\ running /\ running' = FALSE
    /\ Event
    /\ parted' = parted \cup {"restart"}
    /\ UNCHANGED <<config, disk, option, display, quality, handler, failed, cut>>

\* The proxy starts the next process with the options it was made with.
NativeStarts ==
    /\ ~running /\ running' = TRUE
    /\ display' = lvgl_init(option.rotation) /\ quality' = StartQuality(option.quality)
    /\ UNCHANGED <<config, disk, option, handler, left, failed, cut, parted>>

\* Mutant: the process is started before the configuration is read.
AppRestarts_Early ==
    /\ Event
    /\ config' = LoadConfig(disk) /\ option' = Default
    /\ running' = TRUE
    /\ display' = lvgl_init(option'.rotation) /\ quality' = StartQuality(option'.quality)
    /\ handler' = [h \in Handler |-> NoCall]
    /\ cut' = (cut \/ \E h \in Handler : handler[h].pc = "write")
    /\ failed' = FALSE /\ parted' = {}
    /\ UNCHANGED disk

\* The application ends, whatever its handlers are doing, and starts.
AppRestarts ==
    /\ Event
    /\ config' = LoadConfig(disk) /\ option' = config'
    /\ running' = TRUE
    /\ display' = lvgl_init(option'.rotation) /\ quality' = StartQuality(option'.quality)
    /\ handler' = [h \in Handler |-> NoCall]
    /\ cut' = (cut \/ \E h \in Handler : handler[h].pc = "write")
    /\ failed' = FALSE /\ parted' = {}
    /\ UNCHANGED disk

Next ==
    \/ \E h \in Handler :
        \/ \E r \in Rotation : AskRotation(h, r)
        \/ \E f \in Quality : AskQuality(h, f)
        \/ AskReset(h)
        \/ ReadRotation(h) \/ SetRotation(h)
        \/ SetQualityFactor(h) \/ RememberQuality(h)
        \/ CallFails(h)
        \/ Create(h) \/ Encode(h) \/ CreateFails(h) \/ EncodeFails(h)
    \/ NativeEnds \/ NativeStarts \/ AppRestarts

Spec == Init /\ [][Next]_vars

-----------------------------------------------------------------------------
(* Properties.                                                             *)

(* The margins of flex_screen fit a display that stands on its side,       *)
(* through any sequence of rotations and restarts; upright they are those  *)
(* of the last time it stood (screen.c:111).                               *)
MarginsFit ==
    /\ display.turned = 90 => display.side = [left |-> 24, right |-> 44]
    /\ display.turned = 270 => display.side = [left |-> 44, right |-> 24]

(* When no handler is under way and none has failed since the start, a     *)
(* restart would bring what the memory holds, however the handlers were    *)
(* interleaved: each saves the whole configuration after its own change    *)
(* (config.go:181).                                                        *)
QuietMeansSaved == AtRest /\ ~failed => LoadConfig(disk) = config

(* The native process works with the configured rotation and quality while *)
(* calls neither fail nor overlap, ask for what it knows, and it has not   *)
(* been restarted nor the configuration reset: each of these parts the two *)
(* (jsonrpc.go:222).                                                       *)
SettingsAgree ==
    AtRest /\ parted = {} /\ config.rotation \in {0, 90, 180, 270} /\ Allowed(config.quality)
        => display.turned = config.rotation /\ quality = config.quality

(* The configuration is lost only to a save that was cut short: no other   *)
(* end of the application, at any step of any handler, leaves a file that  *)
(* cannot be decoded (config.go:187).                                      *)
LossNeedsCutSave ==
    disk = Truncated => cut \/ \E h \in Handler : handler[h].pc = "write"

(* A quality factor the process works with is one it allows, whatever      *)
(* clients ask for and the configuration remembers (ctrl.c:383).           *)
QualityAllowed == Allowed(quality)

(* On the running display the children of a container never lie on top of  *)
(* each other, whichever of them are hidden: each container has a flex     *)
(* layout, in the direction its children need, though a style that begins  *)
(* with another one first inherits the other's direction (styles.c:174).   *)
ChildrenLaidOut ==
    running => \A c \in DOMAIN ContainerStyle :
                  /\ "layout" \in DOMAIN ContainerStyle[c]
                  /\ ContainerStyle[c].flow = IF c \in SideBySide THEN "row" ELSE "column"

(* No text is without a font, or has the colour of what is behind it       *)
(* (styles.c:339).                                                         *)
TextReadable ==
    running => \A p \in TextOver :
                  /\ {"font", "text"} \subseteq DOMAIN p[1] /\ "bg" \in DOMAIN p[2]
                  /\ p[1].text # p[2].bg

\* Texts of several lengths and contents, some with a pair that is not two digits.
Text(n, k, c) == [i \in 1 .. n |-> (k * i + c) % 16]
Texts == {Text(n, k, c) : n \in {0, 2, 255, 256, 512, 514}, k \in {0, 1, 7}, c \in {0, 15}}
         \cup {[Text(256, k, 0) EXCEPT ![p] = x] : k \in {0, 1}, p \in {3, 4}, x \in 16 .. 19}

\* A character before a digit counts for nothing unless it is a digit too.
High(a) == IF a \in Digit THEN a ELSE 0

\* Two characters of the text make a byte of the EDID, but for the last of a block, its checksum.
IsEdidOf(edid, text) ==
    \A i \in DOMAIN edid :
        IF i % BlockSize = 0
        THEN (SumOf(edid, i - BlockSize, i - 1) + edid[i]) % 256 = 0
        ELSE edid[i] = 16 * High(text[2 * i - 1]) + text[2 * i]

\* A text that is given to a process whose chip holds chip, and what is read of it then.
ReadsBack(text, chip) ==
    LET new == jetkvm_video_set_edid(chip, text, TRUE)
    IN  /\ Len(text) \notin {2 * BlockSize, 4 * BlockSize} => new = chip
        /\ new # chip => IsEdidOf(new, text)
        /\ text \in Seq(Digit) /\ Len(text) \in {2 * BlockSize, 4 * BlockSize}
              => Len(text) = 2 * Len(new) /\ IsEdidOf(new, text)
        /\ \A read \in jetkvm_video_get_edid_hex(new, TRUE) :
              /\ jetkvm_video_set_edid(new, read, TRUE) = new
              /\ text \in Seq(Digit) /\ Len(text) \in {2 * BlockSize, 4 * BlockSize}
                    => Len(read) = Len(text)

EveryTextReadsBack ==
    \A text \in Texts, chip \in {<<>>, [i \in 1 .. BlockSize |-> 0]} : ReadsBack(text, chip)

(* An EDID that is given to a running process is refused and the chip      *)
(* keeps its own, or the chip holds its bytes, both digits of each, with a *)
(* right checksum in every block; one or two blocks of digits are never    *)
(* refused, and what is read back can be given again without changing      *)
(* anything (edid.c:60).                                                   *)
EdidReadsBack == running => EveryTextReadsBack

\* A line break is between any two reports of a log.
Broken(log) ==
    \A i, j \in DOMAIN log :
        i < j /\ log[i] = "START" /\ log[j] = "START"
            => \E k \in i .. j : log[k] \in {"<6>", "<4>"}

Reports(log) == {i \in DOMAIN log : log[i] = "START"}

ToldFromItsLastReport(log) ==
    LET told == videoc_log_status(log)
    IN  IF Reports(log) = {} THEN told = log
        ELSE Cardinality(Reports(told)) = 1 /\ \A i \in DOMAIN told : told[i] # "<6>"

Pieces == {"<6>", "<4>", "START", "text"}

EveryLogIsToldFromItsLastReport ==
    \A n \in 0 .. 5 : \A log \in {l \in [1 .. n -> Pieces] : Broken(l)} : ToldFromItsLastReport(log)

(* The status a running process tells is that of the last report alone,    *)
(* whatever the log holds before it, without the marks of the kernel; a    *)
(* log without a report is told whole (edid.c:160).                        *)
StatusIsLast == running => EveryLogIsToldFromItsLastReport

(* The settings are kept: types; at rest the disk holds what the memory    *)
(* does; they are lost only to a cut save.                                 *)
SettingsKept == TypeOK /\ QuietMeansSaved /\ LossNeedsCutSave

(* Whatever it is asked for and started with, the native process has the   *)
(* margins of its rotation and a quality it allows.                        *)
NativeSound == MarginsFit /\ QualityAllowed

\* A style comes off obj whenever it was put on, and nothing else.
ComesOff(obj, style) ==
    LET others == {i \in DOMAIN obj : obj[i] # add_style_funcs[style + 1]}
    IN  /\ IsFiltered(remove_style(obj, style), obj, others)
        /\ remove_style(add_style(obj, style), style) = remove_style(obj, style)

\* Of objects with two styles, in the order they were added, by their numbers.
EveryStyleComesOff ==
    \A a, b, style \in 0 .. 15 : ComesOff(add_style(add_style(<<>>, a), b), style)

(* A style that is taken off an object by its number is the one that was   *)
(* put on by it, wherever it is among the others, and they keep their      *)
(* order (styles.c:522).                                                   *)
StylesComeOff == running => EveryStyleComesOff

(* What a running process computes from tables and texts is right: its     *)
(* display has layout, fonts and contrast, the two tables of styles agree, *)
(* its EDID reads back as it was given, its status is that of the last     *)
(* report.                                                                 *)
ConversionsHold ==
    ChildrenLaidOut /\ TextReadable /\ StylesComeOff /\ EdidReadsBack /\ StatusIsLast
=============================================================================
