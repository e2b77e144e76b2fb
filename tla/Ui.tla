---------------------------------- MODULE Ui ----------------------------------
(***************************************************************************)
(* The built-in display at work.  The native process runs LVGL in ticks:   *)
(* each handles what the touch screen reports, with the handlers of        *)
(* actions.c, and then refreshes the labels of the screen that ui.c last   *)
(* loaded.  The application changes the same screens from outside through  *)
(* ctrl.c: goroutines that update the display (display.go) and the         *)
(* reboot (hw.go), each a series of separate calls between the ticks.      *)
(* LVGL itself is external: a press keeps its object until the finger is   *)
(* lifted, whatever screen is loaded meanwhile (LV_OBJ_FLAG_PRESS_LOCK).   *)
(***************************************************************************)
EXTENDS Screens, Sequences, FiniteSets

CONSTANTS Job,         \* goroutines that work on the display
          MaxEvents    \* bound: presses, changes of the network and reboots asked for elsewhere,
                       \* together

ASSUME JobAssumption == IsFiniteSet(Job)
ASSUME BoundAssumption == MaxEvents \in Nat

Version == {"", "whole", "cut"}   \* a version text: unset, as set, cut at 31 characters
HoldTime == [resetConfig |-> 3, reboot |-> 2, toggleDHCPClient |-> 2]
NoFinger == [on |-> "none", time |-> 0, wait |-> FALSE, drag |-> FALSE, swiped |-> FALSE,
             calls |-> 0]
Idle == [kind |-> "none", pc |-> "idle", up |-> FALSE, v6 |-> FALSE, ready |-> FALSE]

Update == [Idle EXCEPT !.kind = "update", !.pc = "born"]
NoHandler == {"menu_btn_network", "menu_btn_access"}

VARIABLES
    active,      \* the screen LVGL shows
    current,     \* currentScreen
    finger,      \* the press under way: its object, for how long (0 at once, 1 a long press, 2 five
                 \* seconds, 3 ten), lv_indev_wait_release, scrolling, gesture_sent, the calls it
                 \* made
    lock, completed,   \* b_*_lock and b_* of each hold action
    counting,    \* its label shows a countdown
    lost,        \* history: a press on its button ended without RELEASED
    hidden,      \* objects with LV_OBJ_FLAG_HIDDEN
    version,     \* app_version
    lvgl,        \* lvgl_version has been made
    shown,       \* the text of the labels that ticks refresh
    address,     \* home_info_ipv6_addr has a text
    hdmi,        \* hdmi_status_label says "Connected"
    states,      \* ... and its states: LV_STATE_CHECKED colours it
    mainScreen,  \* main_screen
    asked,       \* calls made, per method, up to 2
    events,      \* calls on their way to the application
    job,         \* the goroutines
    up, v6,      \* the network is up, it has an IPv6 address
    ready,       \* lastVideoState.Ready
    left,        \* what is left of the bound
    raced,       \* history: two goroutines worked on the display at once, and no update has begun
                 \* alone since
    disturbed,   \* history: the application changed the screen under a finger
    over         \* the device has rebooted

network == <<up, v6, ready>>
touchVars == <<finger, lock, completed, counting, lost>>
screenVars == <<active, current>>
labelVars == <<version, lvgl, shown>>
goVars == <<address, hdmi, states, mainScreen, events, job, network, raced, disturbed, over>>
vars == <<touchVars, screenVars, labelVars, hidden, asked, left, goVars>>

\* What a call can name: objects, flags and states.  Any other object or flag is refused, any other
\* state is the default one, which is no state at all.
Flag == {"LV_OBJ_FLAG_HIDDEN", "LV_OBJ_FLAG_CLICKABLE", "LV_OBJ_FLAG_SCROLLABLE",
         "LV_OBJ_FLAG_CLICK_FOCUSABLE", "LV_OBJ_FLAG_SCROLL_ON_FOCUS", "LV_OBJ_FLAG_SCROLL_CHAIN",
         "LV_OBJ_FLAG_PRESS_LOCK", "LV_OBJ_FLAG_OVERFLOW_VISIBLE"}
State == {"LV_STATE_USER_1", "LV_STATE_USER_2", "LV_STATE_USER_3", "LV_STATE_USER_4",
          "LV_STATE_DISABLED", "LV_STATE_CHECKED", "LV_STATE_FOCUSED"}
ui_get_obj(names) == names \cap Object
str_to_lv_obj_flag(name) == {name} \cap Flag
str_to_lv_state(name) == {name} \cap State

\* The objects hidden after a call that sets or clears a flag of objects.
Hides(flag) == "LV_OBJ_FLAG_HIDDEN" \in str_to_lv_obj_flag(flag)
add_flag(names, flag, h) == h \cup {o \in ui_get_obj(names) : Hides(flag)}
clear_flag(names, flag, h) == h \ {o \in ui_get_obj(names) : Hides(flag)}
UIObjHide(names, h) == add_flag(names, "LV_OBJ_FLAG_HIDDEN", h)
UIObjShow(names, h) == clear_flag(names, "LV_OBJ_FLAG_HIDDEN", h)

Main(isUp) == IF isUp THEN "home_screen" ELSE "no_network_screen"
Labels == {"boot_screen_version", "system_version", "app_version", "lvgl_version"}

TypeOK ==
    /\ active \in Screen /\ current \in Screen
    /\ finger \in [on : Touchable \cup {"none"}, time : 0 .. 3, wait : BOOLEAN, drag : BOOLEAN,
                   swiped : BOOLEAN, calls : 0 .. 2]
    /\ lock \in [Hold -> BOOLEAN] /\ completed \in [Hold -> BOOLEAN]
    /\ counting \in [Hold -> BOOLEAN] /\ lost \in [Hold -> BOOLEAN]
    /\ hidden \subseteq Object
    /\ version \in Version /\ lvgl \in BOOLEAN /\ shown \in [Labels -> Version]
    /\ address \in BOOLEAN /\ hdmi \in BOOLEAN /\ states \subseteq State /\ mainScreen \in Screen
    /\ asked \in [Hold -> 0 .. 2] /\ events \in Seq(Hold)
    /\ job \in [Job -> [kind : {"none", "update", "event", "reboot"},
                        pc : {"idle", "born", "visible", "hdmi", "checked", "read", "var", "look", "switch",
                              "notified", "rebooting", "exec"},
                        up : BOOLEAN, v6 : BOOLEAN, ready : BOOLEAN]]
    /\ up \in BOOLEAN /\ v6 \in BOOLEAN /\ ready \in BOOLEAN
    /\ left \in 0 .. MaxEvents
    /\ raced \in BOOLEAN /\ disturbed \in BOOLEAN /\ over \in BOOLEAN

\* The interface has been made, which ticks each screen once, and the versions are set.  The display
\* shows the boot screen and the first update of it is under way, or is over and the user is somewhere.
Init ==
    /\ active \in Screen \ {"menu_network_screen", "rebooting_screen"} /\ current = active
    /\ finger = NoFinger
    /\ lock = [m \in Hold |-> FALSE] /\ completed = [m \in Hold |-> FALSE]
    /\ counting = [m \in Hold |-> FALSE] /\ lost = [m \in Hold |-> FALSE]
    /\ version = "whole" /\ lvgl = TRUE
    /\ shown = [l \in Labels |->
                   IF l = "lvgl_version" \/ (l # "boot_screen_version" /\ active = "about_screen")
                   THEN "whole" ELSE ""]
    /\ up \in BOOLEAN /\ v6 = FALSE /\ address = FALSE /\ ready = FALSE /\ hdmi = FALSE
    /\ states = {}
    /\ IF active = "boot_screen"
       THEN /\ mainScreen = "home_screen" /\ hidden = HiddenAtFirst
            /\ \E j \in Job : job = [i \in Job |-> IF i = j THEN Update ELSE Idle]
       ELSE /\ mainScreen = Main(up) /\ hidden = UIObjHide(NoHandler, HiddenAtFirst)
            /\ job = [j \in Job |-> Idle]
            /\ active \in {"home_screen", "no_network_screen"} => active = Main(up)
    /\ asked = [m \in Hold |-> 0] /\ events = <<>>
    /\ left = MaxEvents
    /\ raced = FALSE /\ disturbed = FALSE /\ over = FALSE

-----------------------------------------------------------------------------
(* A tick: the touch screen's event, then tick_screen(currentScreen).      *)

\* get_var_lvgl_version makes its text once, and then ends app_version at 31 characters.
TickAbout ==
    /\ shown' = [shown EXCEPT !["system_version"] = "whole", !["app_version"] = version,
                              !["lvgl_version"] = "whole"]
    /\ lvgl' = TRUE /\ version' = IF lvgl THEN version ELSE "cut"
TickBoot == shown' = [shown EXCEPT !["boot_screen_version"] = version] /\ UNCHANGED <<lvgl, version>>
TickScreen(s) ==
    CASE s = "about_screen" -> TickAbout
      [] s = "boot_screen" -> TickBoot
      [] OTHER -> UNCHANGED labelVars

\* Mutant: the screen is loaded and currentScreen is not set.
loadScreenOnly(s) == active' = s /\ UNCHANGED current

loadScreen(s) == active' = s /\ current' = s

\* The screen that object o's handler for the event loads, if it has one.
Handles(o, e) == \E h \in Load : h[1] = o /\ h[2] = e
\* Mutant: the name in main_screen is not looked up.
LoadsOnName(o, e) == loadScreen((CHOOSE h \in Load : h[1] = o /\ h[2] = e)[3])

LoadsOn(o, e) ==
    LET s == (CHOOSE h \in Load : h[1] = o /\ h[2] = e)[3]
    IN  loadScreen(IF s = "main" THEN mainScreen ELSE s)
Handle(o, e) == IF Handles(o, e) THEN LoadsOn(o, e) ELSE UNCHANGED screenVars

HeldOn(o) == {m \in Hold : HoldButton[m] = o}
Spend == left > 0 /\ left' = left - 1
TouchRest == UNCHANGED <<address, hdmi, states, mainScreen, job, network, raced, disturbed, over>>
Counts == UNCHANGED <<asked, events, hidden>>

\* LV_EVENT_PRESSING, before the hold time is over.
Counting(o) ==
    /\ completed' = [m \in Hold |-> completed[m] /\ m \notin HeldOn(o)]
    /\ counting' = [m \in Hold |-> counting[m] \/ m \in HeldOn(o)]

Visible(o) == Ancestors(o) \cap hidden = {}

\* LV_EVENT_PRESSED and the first LV_EVENT_PRESSING.
Press(o) ==
    /\ ~over /\ finger.on = "none" /\ Spend
    /\ Root(o) = active /\ Visible(o)
    /\ finger' = [NoFinger EXCEPT !.on = o]
    /\ Handle(o, "PRESSED") /\ Counting(o)
    /\ TickScreen(current')
    /\ UNCHANGED <<lock, lost>> /\ Counts /\ TouchRest

\* Mutants: the lock is not looked at; the button is not hidden.
LockedNever(m) == FALSE
HideNot(called) == UNCHANGED hidden

Locked(m) == lock[m]

\* Only the reset has a spinner to put in its button's place.
Hide(called) ==
    hidden' = IF "resetConfig" \in called
              THEN (hidden \ {"reset_config_spinner"}) \cup {"reset_config_button"}
              ELSE hidden

\* ui_call_rpc_handler, for the buttons whose time is over.
CallRpc(called) ==
    /\ \A m \in called : events' = Append(events, m)
    /\ called = {} => UNCHANGED events
    /\ asked' = [m \in Hold |-> IF m \in called /\ asked[m] < 2 THEN asked[m] + 1 ELSE asked[m]]
    /\ lock' = [m \in Hold |-> lock[m] \/ m \in called]
    /\ completed' = [m \in Hold |-> completed[m] \/ m \in called]

\* The finger stays: a long press, five seconds, ten.
Stay ==
    LET t == finger.time + 1
        Due == {m \in HeldOn(finger.on) : t >= HoldTime[m]}
        Free == {m \in Due : ~Locked(m)}
    IN
    /\ ~over /\ finger.on # "none" /\ ~finger.wait /\ finger.time < 3
    /\ IF t = 1 /\ ~finger.drag THEN Handle(finger.on, "LONG_PRESSED") ELSE UNCHANGED screenVars
    /\ finger' = [finger EXCEPT !.time = t, !.calls = @ + Cardinality(Free)]
    /\ IF Due = {}
       THEN Counting(finger.on) /\ UNCHANGED lock /\ Counts
       ELSE CallRpc(Free) /\ Hide(Free) /\ UNCHANGED counting
    /\ TickScreen(current')
    /\ UNCHANGED <<lost, left>> /\ TouchRest

\* The finger moves far enough for a gesture; the screen of the object gets it.
SwipeTo(s, d) == {h \in Swipe : h[1] = s /\ h[2] = d}
\* Mutant: the handler does not wait for the release.
WaitNot == [finger EXCEPT !.swiped = TRUE]

WaitRelease == [finger EXCEPT !.swiped = TRUE, !.wait = TRUE]

Gesture(d) ==
    LET s == Root(finger.on)
        To == SwipeTo(s, d)
    IN
    /\ ~over /\ finger.on # "none" /\ ~finger.wait /\ ~finger.drag /\ ~finger.swiped
    /\ IF s = "menu_screen" THEN loadScreen(mainScreen)
       ELSE IF To # {} THEN loadScreen("menu_screen") ELSE UNCHANGED screenVars
    /\ finger' = IF To # {} THEN WaitRelease ELSE [finger EXCEPT !.swiped = TRUE]
    /\ TickScreen(current')
    /\ UNCHANGED <<lock, completed, counting, lost, left>> /\ Counts /\ TouchRest

\* The finger scrolls a list: no gesture, no long press and no click any more.
Drag ==
    /\ ~over /\ finger.on # "none" /\ ~finger.wait /\ ~finger.drag
    /\ finger' = [finger EXCEPT !.drag = TRUE]
    /\ TickScreen(current)
    /\ UNCHANGED <<screenVars, lock, completed, counting, lost, left>> /\ Counts /\ TouchRest

\* Mutants: the lock stays; the label stays.
UnlockNot(on) == UNCHANGED lock
ResetLabelNot(on) == UNCHANGED counting

Unlock(on) == lock' = [m \in Hold |-> lock[m] /\ m \notin on]
ResetLabel(on) == counting' = [m \in Hold |-> counting[m] /\ (m \in on => completed[m])]

\* LV_EVENT_RELEASED and LV_EVENT_CLICKED; after lv_indev_wait_release only LV_EVENT_PRESS_LOST,
\* which nobody handles.
Lift ==
    LET on == HeldOn(finger.on)
    IN
    /\ ~over /\ finger.on # "none" /\ finger' = NoFinger
    /\ IF finger.wait
       THEN /\ lost' = [m \in Hold |-> lost[m] \/ m \in on]
            /\ UNCHANGED <<lock, counting, screenVars>>
       ELSE /\ Unlock(on) /\ ResetLabel(on)
            /\ IF finger.drag THEN UNCHANGED screenVars ELSE Handle(finger.on, "CLICKED")
            /\ UNCHANGED lost
    /\ TickScreen(current')
    /\ UNCHANGED <<completed, left>> /\ Counts /\ TouchRest

\* A tick without news.
Tick ==
    /\ ~over /\ TickScreen(current)
    /\ UNCHANGED <<touchVars, screenVars, hidden, asked, events, left>> /\ TouchRest

-----------------------------------------------------------------------------
(* The application.                                                        *)

GoRest == UNCHANGED <<touchVars, current, labelVars, asked>>
JobRest == GoRest /\ UNCHANGED left
At(j, p) == ~over /\ job[j].pc = p
Step(j, p) == job' = [job EXCEPT ![j].pc = p]
Done(j) == job' = [job EXCEPT ![j] = Idle]
Working == {j \in Job : job[j].pc \notin {"idle", "born", "notified", "exec"}}
Race(j) == raced' = (raced \/ Working \ {j} # {})
Alone(j) == \A i \in Job \ {j} : job[i].pc \in {"idle", "born", "notified"}

Spawn(k, p) ==
    \E j \in Job : job[j].pc = "idle" /\ job' = [job EXCEPT ![j] = [Idle EXCEPT !.kind = k, !.pc = p]]

\* The network or the video changes, and an update of the display is asked for.
Change ==
    /\ ~over /\ Spend
    /\ \/ up' = ~up /\ UNCHANGED <<v6, ready>>
       \/ v6' = ~v6 /\ UNCHANGED <<up, ready>>
       \/ ready' = ~ready /\ UNCHANGED <<up, v6>>
    /\ Spawn("update", "born")
    /\ UNCHANGED <<active, hidden, address, hdmi, states, mainScreen, events, raced, disturbed, over>> /\ GoRest

\* Some other part of the application reboots the device.
AskReboot ==
    /\ ~over /\ Spend
    /\ Spawn("reboot", "notified")
    /\ UNCHANGED <<active, hidden, address, hdmi, states, mainScreen, events, network, raced, disturbed, over>>
    /\ GoRest

\* OnRpcEvent: each of the three calls ends in a reboot, one at a time; the change of the DHCP client
\* only if it could be saved.
RpcEvent ==
    /\ ~over /\ events # <<>> /\ \A j \in Job : job[j].kind # "event"
    /\ events' = Tail(events)
    /\ \/ Spawn("event", "notified")
       \/ Head(events) = "toggleDHCPClient" /\ UNCHANGED job
    /\ UNCHANGED <<active, hidden, address, hdmi, states, mainScreen, network, raced, disturbed, over>>
    /\ JobRest

\* updateDisplay: the IPv6 address's text,
UpdateLabel(j) ==
    /\ At(j, "born")
    /\ IF Alone(j) THEN raced' = FALSE ELSE Race(j)
    /\ address' = v6 /\ job' = [job EXCEPT ![j].pc = "visible", ![j].v6 = v6]
    /\ UNCHANGED <<active, hidden, hdmi, states, mainScreen, events, network, disturbed, over>> /\ JobRest

\* Mutant: the label is shown and never hidden.
ShownAlways(names, show) == UIObjShow(names, hidden)

Shown(names, show) == IF show THEN UIObjShow(names, hidden) ELSE UIObjHide(names, hidden)

\* its visibility, and two buttons that have no screens,
UpdateVisible(j) ==
    /\ At(j, "visible")
    /\ hidden' = UIObjHide(NoHandler,
                           Shown({"home_info_ipv6_addr", "home_info_ipv6_addr_container"}, job[j].v6))
    /\ Step(j, "hdmi")
    /\ UNCHANGED <<active, address, hdmi, states, mainScreen, events, network, raced, disturbed,
                   over>>
    /\ JobRest

\* the HDMI status, its text and its colour,
UpdateHdmi(j) ==
    /\ At(j, "hdmi")
    /\ hdmi' = ready /\ job' = [job EXCEPT ![j].pc = "checked", ![j].ready = ready]
    /\ UNCHANGED <<active, hidden, address, states, mainScreen, events, network, raced,
                   disturbed, over>>
    /\ JobRest

UpdateChecked(j) ==
    /\ At(j, "checked")
    /\ LET checked == str_to_lv_state("LV_STATE_CHECKED")
       IN  states' = IF job[j].ready THEN states \cup checked ELSE states \ checked
    /\ Step(j, "read")
    /\ UNCHANGED <<active, hidden, address, hdmi, mainScreen, events, network, raced,
                   disturbed, over>>
    /\ JobRest

\* the state of the network; switchToMainScreen begins here too.
ReadNetwork(j) ==
    /\ At(j, "read") /\ Race(j)
    /\ job' = [job EXCEPT ![j].up = up, ![j].pc = IF job[j].kind = "update" THEN "var" ELSE "look"]
    /\ UNCHANGED <<active, hidden, address, hdmi, states, mainScreen, events, network, disturbed, over>>
    /\ JobRest

SetMainScreen(j) ==
    /\ At(j, "var")
    /\ mainScreen' = Main(job[j].up) /\ Step(j, "look")
    /\ UNCHANGED <<active, hidden, address, hdmi, states, events, network, raced, disturbed, over>> /\ JobRest

\* Mutants: an update leaves the boot screen only; it leaves any screen.
LeavesBoot(j) == job[j].kind = "update" => active = "boot_screen"
LeavesAny(j) == TRUE

\* An update does not take the display from a user; the end of a failed reboot does.
Leaves(j) ==
    job[j].kind = "update" => active \in {"home_screen", "no_network_screen", "boot_screen"}

\* SwitchToScreenIf reads the screen,
Look(j) ==
    /\ At(j, "look")
    /\ IF active # Main(job[j].up) /\ Leaves(j) THEN Step(j, "switch") ELSE Done(j)
    /\ UNCHANGED <<active, hidden, address, hdmi, states, mainScreen, events, network, raced,
                   disturbed, over>>
    /\ JobRest

\* and then loads another; the screen that ticks refresh stays the same.
load_screen(s) == active' = s /\ disturbed' = (disturbed \/ finger.on # "none")
SwitchMain(j) ==
    /\ At(j, "switch")
    /\ load_screen(Main(job[j].up)) /\ Done(j)
    /\ UNCHANGED <<hidden, address, hdmi, states, mainScreen, events, network, raced, over>> /\ JobRest

\* hwReboot: a second later the screen is read and changed,
LookReboot(j) ==
    /\ At(j, "notified") /\ Race(j)
    /\ Step(j, IF active # "rebooting_screen" THEN "rebooting" ELSE "exec")
    /\ UNCHANGED <<active, hidden, address, hdmi, states, mainScreen, events, network, disturbed, over>>
    /\ JobRest

SwitchReboot(j) ==
    /\ At(j, "rebooting") /\ Race(j)
    /\ load_screen("rebooting_screen") /\ Step(j, "exec")
    /\ UNCHANGED <<hidden, address, hdmi, states, mainScreen, events, network, over>> /\ JobRest

\* and the command run; when it fails the main screen comes back.
Exec(j) ==
    /\ At(j, "exec")
    /\ \/ over' = TRUE /\ UNCHANGED <<job, raced>>
       \/ /\ Step(j, "read") /\ UNCHANGED over
          /\ raced' = (raced \/ \E i \in Job \ {j} : job[i].pc = "exec")
    /\ UNCHANGED <<active, hidden, address, hdmi, states, mainScreen, events, network, disturbed>>
    /\ JobRest

-----------------------------------------------------------------------------
Touch ==
    \/ \E o \in Touchable : Press(o)
    \/ Stay
    \/ \E d \in Direction : Gesture(d)
    \/ Drag
    \/ Lift
    \/ Tick

Work(j) ==
    \/ UpdateLabel(j) \/ UpdateVisible(j) \/ UpdateHdmi(j) \/ UpdateChecked(j) \/ ReadNetwork(j) \/ SetMainScreen(j)
    \/ Look(j) \/ SwitchMain(j) \/ LookReboot(j) \/ SwitchReboot(j) \/ Exec(j)

Next == Touch \/ Change \/ AskReboot \/ RpcEvent \/ \E j \in Job : Work(j)

Spec == Init /\ [][Next]_vars

-----------------------------------------------------------------------------
(* Properties.                                                             *)

Settled == \A j \in Job : job[j].kind # "update"
MainScreens == {"home_screen", "no_network_screen"}

\* However long a finger stays, a press makes at most one call.
OneCallPerPress == finger.calls <= 1

\* The configuration is reset at most once in the life of the process: the button is hidden with
\* the call, and nothing shows it again.
ResetOnce == asked["resetConfig"] <= 1

\* A call is made only while its screen is displayed, though a press keeps its object: not after a
\* swipe to another screen, nor by a finger that came from the menu with the screen.  The
\* application may put another screen under the finger.
CallsAreSeen ==
    [][\A m \in Hold : asked'[m] # asked[m] => active = Root(HoldButton[m]) \/ disturbed]_vars

\* Whoever holds a button for its time gets the call, unless an earlier press on it was lost to a
\* swipe: RELEASED does not come then, and the lock stays.
HoldIsHonoured ==
    \A m \in HeldOn(finger.on) : finger.time >= HoldTime[m] => finger.calls = 1 \/ lost[m]

\* A button nobody touches tells how long to hold it, not how much longer: its label counts only
\* after its call, or after a press that was lost to a swipe.
LabelAtRest == \A m \in Hold : counting[m] /\ m \notin HeldOn(finger.on) => completed[m] \/ lost[m]

\* The About screen tells the versions that were set.  It is refreshed only because the screen that
\* ticks refresh is the one displayed, though the application changes screens past ui.c.
VersionsShown ==
    active = "about_screen" => shown["app_version"] = "whole" /\ shown["system_version"] = "whole"

\* When no update is under way, the main screen that is displayed, and the one the menu leads back
\* to, is the network's, unless two goroutines worked on the display at once; the next update that
\* begins alone puts right what they left.
MainScreenFollows ==
    Settled /\ ~raced => (mainScreen = Main(up) /\ (active \in MainScreens => active = Main(up)))

\* ... and the IPv6 address is displayed exactly when there is one, and the HDMI status is the video's
\* in text and colour, each set by two calls.
LabelsFollow ==
    Settled /\ ~raced => /\ address = v6 /\ Visible("home_info_ipv6_addr") = v6
                         /\ hdmi = ready /\ ("LV_STATE_CHECKED" \in states) = ready

\* "A display update lock prevents concurrent updates from racing" (NATIVE_MEDIA_PIPELINE.md:49): the
\* last of several updates leaves what is so when it ends.
UpdatesDoNotRace == Settled => address = v6 /\ hdmi = ready /\ mainScreen = Main(up)

\* From the reboot's announcement to the reboot the display says so, unless a finger was on another
\* screen at the time or another goroutine worked on the display.
RebootingStays ==
    \A j \in Job : job[j].pc = "exec" => active = "rebooting_screen" \/ disturbed \/ raced

\* A hold does what it says once, when it has lasted, for whoever holds, and the label goes back;
\* types.
HoldsAct == TypeOK /\ OneCallPerPress /\ ResetOnce /\ HoldIsHonoured /\ LabelAtRest

\* What the display shows is so: the versions, the main screen, the labels, the reboot.
DisplayTells == VersionsShown /\ MainScreenFollows /\ LabelsFollow /\ RebootingStays
=============================================================================
