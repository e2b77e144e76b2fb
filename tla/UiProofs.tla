------------------------------- MODULE UiProofs -------------------------------
(***************************************************************************)
(* Theorems about the built-in display, for every set of goroutines that   *)
(* redraw it and every number of events: what the hold buttons do, what    *)
(* the screens tell, and that no call is made from a screen not shown.     *)
(* Part one is the invariant; then what the tree of objects is, what a     *)
(* finger does, what the application's goroutines do, and the theorems.    *)
(***************************************************************************)
EXTENDS Ui, FiniteSetTheorems, SequenceTheorems, TLAPS
-----------------------------------------------------------------------------
(* A job is an update, which goes through its calls, or a reboot, which    *)
(* ends as an update does when its command fails.                          *)
Fresh == {"born", "visible", "hdmi", "checked", "read"}
UpdatePcs == Fresh \cup {"var", "look", "switch"}
RebootPcs == {"notified", "rebooting", "exec", "read", "look", "switch"}
Updates == {j \in Job : job[j].kind = "update"}

JobsTyped ==
    \A j \in Job : /\ job[j].kind = "none" <=> job[j].pc = "idle"
                   /\ job[j].kind = "update" => job[j].pc \in UpdatePcs
                   /\ job[j].kind \in {"event", "reboot"} => job[j].pc \in RebootPcs

(* The button of a call that a finger holds has its lock from the call on, *)
(* and a lock that nobody's finger explains was lost.                      *)
HoldInv ==
    /\ finger.calls <= 1
    /\ \A m \in HeldOn(finger.on) : /\ finger.calls = 1 => lock[m]
                                    /\ finger.time >= HoldTime[m] => finger.calls = 1 \/ lost[m]
    /\ \A m \in Hold : lock[m] => lost[m] \/ (m \in HeldOn(finger.on) /\ finger.calls = 1)
    /\ LabelAtRest

(* Once the configuration has been reset its button is hidden, and under a *)
(* finger it is locked.                                                    *)
ResetInv ==
    /\ asked["resetConfig"] <= 1
    /\ asked["resetConfig"] = 1 =>
         /\ "reset_config_button" \in hidden
         /\ "resetConfig" \in HeldOn(finger.on) => lock["resetConfig"]

(* A finger that the application has not overtaken is where it was put: on *)
(* the screen of the button it holds, or on the reboot's.                  *)
FingerInv ==
    ~disturbed =>
      /\ \A m \in HeldOn(finger.on) : finger.wait \/ active = Root(HoldButton[m])
      /\ active = "rebooting_screen" => finger.on \in {"none", "rebooting_screen"}

(* The screen that ticks refresh is the one displayed, but for those that  *)
(* only the application loads.                                             *)
VersionInv ==
    /\ version = "whole" /\ lvgl
    /\ active = current \/ active \in {"home_screen", "no_network_screen", "rebooting_screen"}
    /\ current = "about_screen" => shown["app_version"] = "whole" /\ shown["system_version"] = "whole"

(* Of two goroutines at work one has only failed to reboot.                *)
Failed(j) == job[j].kind # "update" /\ job[j].pc = "read"
ApartInv == ~raced => \A i, j \in Working : i = j \/ Failed(i) \/ Failed(j)

(* Without races the last update of the display reads what is so.          *)
NoneAt(pcs) == \A j \in Updates : job[j].pc \notin pcs
LabelInv ==
    ~raced =>
      /\ NoneAt({"born"}) => address = v6 /\ \A j \in Updates : job[j].pc = "visible" => job[j].v6 = v6
      /\ NoneAt({"born", "visible"}) => ("home_info_ipv6_addr" \notin hidden) = v6
      /\ NoneAt({"born", "visible", "hdmi"}) =>
           hdmi = ready /\ \A j \in Updates : job[j].pc = "checked" => job[j].ready = ready
      /\ NoneAt({"born", "visible", "hdmi", "checked"}) => ("LV_STATE_CHECKED" \in states) = ready
HomeInv == hidden \cap {"home_info_container", "home_screen"} = {}

MainInv ==
    /\ mainScreen \in MainScreens
    /\ ~raced =>
         /\ NoneAt(Fresh) => \A j \in Job : job[j].pc \in {"var", "look", "switch"} => job[j].up = up
         /\ NoneAt(Fresh \cup {"var"}) => mainScreen = Main(up)
         /\ NoneAt(UpdatePcs) => (active \in MainScreens => active = Main(up))

(* A goroutine about to run the reboot command has the display to itself.  *)
RebootInv ==
    ~raced /\ ~disturbed => \A k \in Job : job[k].pc = "exec" =>
      /\ active = "rebooting_screen"
      /\ \A j \in Job : job[j].pc # "switch" /\ (job[j].pc = "look" => job[j].kind = "update") /\ ~Failed(j)

IInv ==
    /\ TypeOK /\ JobsTyped
    /\ HoldInv /\ ResetInv /\ FingerInv /\ VersionInv
    /\ ApartInv /\ LabelInv /\ HomeInv /\ MainInv /\ RebootInv
-----------------------------------------------------------------------------
(* The screens.                                                            *)

(* What is above the objects that the proof speaks of.                     *)
Over == [obj0 |-> "reset_config_button", reset_config_button |-> "reset_config_container",
         reset_config_container |-> "reset_config_screen",
         obj1 |-> "reboot_config_button", reboot_config_button |-> "reboot_container",
         reboot_container |-> "reboot_screen",
         obj2 |-> "dhcp_client_button", dhcp_client_button |-> "dhcp_client_container",
         dhcp_client_container |-> "switch_dhcp_client_screen",
         home_info_ipv6_addr |-> "home_info_container", home_info_container |-> "home_screen",
         menu_back |-> "menu_header_container", menu_header_container |-> "menu_screen",
         menu_btn_status |-> "menu_items_container", menu_btn_advanced |-> "menu_items_container",
         menu_btn_about |-> "menu_items_container", menu_items_container |-> "menu_screen",
         menu_advanced_back |-> "menu_header_container_1", menu_header_container_1 |-> "menu_advanced_screen",
         menu_btn_advanced_reboot |-> "menu_items_container_1", menu_btn_dhcp_client |-> "menu_items_container_1",
         menu_btn_advanced_reset_config |-> "menu_items_container_1",
         menu_items_container_1 |-> "menu_advanced_screen",
         menu_network_back |-> "menu_header_container_2", menu_header_container_2 |-> "menu_network_screen",
         about_back |-> "about_header_container", about_header_container |-> "about_screen",
         status_back |-> "status_header_container", status_header_container |-> "status_screen",
         reset_config_back |-> "reset_config_header", reset_config_header |-> "reset_config_screen",
         reboot_back |-> "reboot_header", reboot_header |-> "reboot_screen",
         dhcp_client_back |-> "dhcp_client_header", dhcp_client_header |-> "switch_dhcp_client_screen"]

LEMMA TreeOver ==
  \A e \in Tree : e[1] \notin Screen /\ (e[1] \in DOMAIN Over => e[2] = Over[e[1]])
BY DEF Tree, Over, Screen, BootScreen, NoNetworkScreen, HomeHeader, HomeInfo, HomeStatus, MenuHeader, MenuItems,
  AdvancedHeader, AdvancedItems, NetworkHeader, NetworkItems, AboutHeader, AboutVersions, AboutBuild, AboutPlatform,
  StatusHeader, StatusRows, ResetConfigHeader, ResetConfigHold, RebootHeader, RebootHold, RebootingScreen,
  DhcpHeader, DhcpHold, Under, Row

LEMMA OverTree == \A x \in DOMAIN Over : <<x, Over[x]>> \in Tree
<1>1. \A x \in {"obj0", "reset_config_button", "reset_config_container", "reset_config_back",
                "reset_config_header"} :
         <<x, Over[x]>> \in Tree
  BY DEF Over, Tree, Under, ResetConfigHeader, ResetConfigHold
<1>2. \A x \in {"obj1", "reboot_config_button", "reboot_container", "reboot_back",
                "reboot_header"} :
         <<x, Over[x]>> \in Tree
  BY DEF Over, Tree, Under, RebootHeader, RebootHold
<1>3. \A x \in {"obj2", "dhcp_client_button", "dhcp_client_container", "dhcp_client_back",
                "dhcp_client_header"} :
         <<x, Over[x]>> \in Tree
  BY DEF Over, Tree, Under, DhcpHeader, DhcpHold
<1>4. \A x \in {"home_info_ipv6_addr", "home_info_container"} :
         <<x, Over[x]>> \in Tree
  BY DEF Over, Tree, Under, HomeInfo
<1>5. \A x \in {"menu_back", "menu_header_container", "menu_btn_status", "menu_btn_advanced",
                "menu_btn_about", "menu_items_container"} :
         <<x, Over[x]>> \in Tree
  BY DEF Over, Tree, Under, MenuHeader, MenuItems
<1>6. \A x \in {"menu_advanced_back", "menu_header_container_1", "menu_btn_advanced_reboot",
                "menu_btn_dhcp_client", "menu_btn_advanced_reset_config",
                "menu_items_container_1"} :
         <<x, Over[x]>> \in Tree
  BY DEF Over, Tree, Under, AdvancedHeader, AdvancedItems
<1>7. \A x \in {"menu_network_back", "menu_header_container_2", "about_back",
                "about_header_container", "status_back", "status_header_container"} :
         <<x, Over[x]>> \in Tree
  BY DEF Over, Tree, Under, NetworkHeader, AboutHeader, StatusHeader
<1>8. DOMAIN Over = {"obj0", "reset_config_button", "reset_config_container", "reset_config_back",
                         "reset_config_header"}
                   \cup {"obj1", "reboot_config_button", "reboot_container", "reboot_back",
                         "reboot_header"}
                   \cup {"obj2", "dhcp_client_button", "dhcp_client_container", "dhcp_client_back",
                         "dhcp_client_header"}
                   \cup {"home_info_ipv6_addr", "home_info_container"}
                   \cup {"menu_back", "menu_header_container", "menu_btn_status", "menu_btn_advanced",
                         "menu_btn_about", "menu_items_container"}
                   \cup {"menu_advanced_back", "menu_header_container_1", "menu_btn_advanced_reboot",
                         "menu_btn_dhcp_client", "menu_btn_advanced_reset_config", "menu_items_container_1"}
                   \cup {"menu_network_back", "menu_header_container_2", "about_back",
                         "about_header_container", "status_back", "status_header_container"}
  BY DEF Over
<1> QED
  BY <1>1, <1>2, <1>3, <1>4, <1>5, <1>6, <1>7, <1>8

LEMMA AboveOf ==
  /\ \A x \in DOMAIN Over : Above({x}) = {x, Over[x]}
  /\ \A x \in Screen : Above({x}) = {x}
  /\ \A s, t : Above(s \cup t) = Above(s) \cup Above(t)
<1>1. \A x \in DOMAIN Over : Above({x}) = {x, Over[x]}
  BY TreeOver, OverTree DEF Above
<1>2. \A x \in Screen : Above({x}) = {x}
  BY TreeOver DEF Above
<1>3. \A s, t : Above(s \cup t) = Above(s) \cup Above(t)
  BY DEF Above
<1> QED
  BY <1>1, <1>2, <1>3

(* An object three or two levels below its screen.                         *)
LEMMA AncestorsOf ==
  /\ Ancestors("obj0") = {"obj0", "reset_config_button", "reset_config_container", "reset_config_screen"}
  /\ Ancestors("obj1") = {"obj1", "reboot_config_button", "reboot_container", "reboot_screen"}
  /\ Ancestors("obj2") = {"obj2", "dhcp_client_button", "dhcp_client_container", "switch_dhcp_client_screen"}
  /\ Ancestors("home_info_ipv6_addr") = {"home_info_ipv6_addr", "home_info_container", "home_screen"}
<1>1. ASSUME NEW a \in DOMAIN Over, NEW b \in DOMAIN Over, NEW c \in DOMAIN Over,
             Over[a] = b, Over[b] = c, Over[c] \in Screen
      PROVE  Ancestors(a) = {a, b, c, Over[c]}
  <2>1. Above({a}) = {a} \cup {b}
    BY <1>1, AboveOf
  <2>2. Above({a} \cup {b}) = ({a} \cup {b}) \cup {c}
    <3>1. Above({a} \cup {b}) = Above({a}) \cup Above({b})
      BY AboveOf
    <3> QED
      BY <1>1, <3>1, AboveOf
  <2>3. Above(({a} \cup {b}) \cup {c}) = (({a} \cup {b}) \cup {c}) \cup {Over[c]}
    <3>1. Above(({a} \cup {b}) \cup {c}) = Above({a} \cup {b}) \cup Above({c})
      BY AboveOf
    <3> QED
      BY <1>1, <2>2, <3>1, AboveOf
  <2>4. Above((({a} \cup {b}) \cup {c}) \cup {Over[c]}) = (({a} \cup {b}) \cup {c}) \cup {Over[c]}
    <3>1. Above((({a} \cup {b}) \cup {c}) \cup {Over[c]}) = Above(({a} \cup {b}) \cup {c}) \cup Above({Over[c]})
      BY AboveOf
    <3> QED
      BY <1>1, <2>3, <3>1, AboveOf
  <2>5. Ancestors(a) = (({a} \cup {b}) \cup {c}) \cup {Over[c]}
    BY <2>1, <2>2, <2>3, <2>4 DEF Ancestors
  <2> QED
    BY <2>5
<1>2. ASSUME NEW a \in DOMAIN Over, NEW b \in DOMAIN Over, Over[a] = b, Over[b] \in Screen
      PROVE  Ancestors(a) = {a, b, Over[b]}
  <2>1. Above({a}) = {a} \cup {b}
    BY <1>2, AboveOf
  <2>2. Above({a} \cup {b}) = ({a} \cup {b}) \cup {Over[b]}
    <3>1. Above({a} \cup {b}) = Above({a}) \cup Above({b})
      BY AboveOf
    <3> QED
      BY <1>2, <3>1, AboveOf
  <2>3. Above(({a} \cup {b}) \cup {Over[b]}) = ({a} \cup {b}) \cup {Over[b]}
    <3>1. Above(({a} \cup {b}) \cup {Over[b]}) = Above({a} \cup {b}) \cup Above({Over[b]})
      BY AboveOf
    <3> QED
      BY <1>2, <2>2, <3>1, AboveOf
  <2>4. Ancestors(a) = ({a} \cup {b}) \cup {Over[b]}
    BY <2>1, <2>2, <2>3 DEF Ancestors
  <2> QED
    BY <2>4
<1>3. Ancestors("obj0") = {"obj0", "reset_config_button", "reset_config_container", "reset_config_screen"}
  BY <1>1 DEF Over, Screen
<1>4. Ancestors("obj1") = {"obj1", "reboot_config_button", "reboot_container", "reboot_screen"}
  BY <1>1 DEF Over, Screen
<1>5. Ancestors("obj2") = {"obj2", "dhcp_client_button", "dhcp_client_container", "switch_dhcp_client_screen"}
  BY <1>1 DEF Over, Screen
<1>6. Ancestors("home_info_ipv6_addr") = {"home_info_ipv6_addr", "home_info_container", "home_screen"}
  BY <1>2 DEF Over, Screen
<1> QED
  BY <1>3, <1>4, <1>5, <1>6

(* Each button one has to hold is the only one, and on a screen of its own.*)
LEMMA HoldScreens ==
  /\ Hold = {"resetConfig", "reboot", "toggleDHCPClient"}
  /\ HoldButton.resetConfig = "obj0" /\ HoldButton.reboot = "obj1" /\ HoldButton.toggleDHCPClient = "obj2"
  /\ Root("obj0") = "reset_config_screen" /\ Root("obj1") = "reboot_screen"
  /\ Root("obj2") = "switch_dhcp_client_screen"
<1>1. Root("obj0") = "reset_config_screen"
  BY AncestorsOf DEF Root, Screen
<1>2. Root("obj1") = "reboot_screen"
  BY AncestorsOf DEF Root, Screen
<1>3. Root("obj2") = "switch_dhcp_client_screen"
  BY AncestorsOf DEF Root, Screen
<1> QED
  BY <1>1, <1>2, <1>3 DEF Hold, HoldButton

LEMMA OneHold ==
  /\ HeldOn("none") = {} /\ HeldOn("rebooting_screen") = {}
  /\ \A o, m, k : m \in HeldOn(o) /\ k \in HeldOn(o) => m = k
  /\ \A o, m : m \in HeldOn(o) <=> m \in Hold /\ o = HoldButton[m]
BY HoldScreens DEF HeldOn

(* What a touch reaches: nothing on the screen that announces the reboot   *)
(* does anything, and no button leads there.                               *)
LEMMA TouchableRoots ==
  \A o \in Touchable : Root(o) = "rebooting_screen" => o = "rebooting_screen"
<1>1. ASSUME NEW a \in DOMAIN Over, Over[a] \in DOMAIN Over, Over[Over[a]] \in Screen
      PROVE  Root(a) = Over[Over[a]]
  <2> DEFINE b == Over[a]
             c == Over[Over[a]]
  <2>1. Above({a}) = {a} \cup {b}
    BY AboveOf
  <2>2. Above({a} \cup {b}) = ({a} \cup {b}) \cup {c}
    <3>1. Above({a} \cup {b}) = Above({a}) \cup Above({b})
      BY AboveOf
    <3> QED
      BY <1>1, <2>1, <3>1, AboveOf
  <2>3. Above(({a} \cup {b}) \cup {c}) = ({a} \cup {b}) \cup {c}
    <3>1. Above(({a} \cup {b}) \cup {c}) = Above({a} \cup {b}) \cup Above({c})
      BY AboveOf
    <3> QED
      BY <1>1, <2>2, <3>1, AboveOf
  <2>4. Ancestors(a) = {a, b, c}
    BY <2>1, <2>2, <2>3 DEF Ancestors
  <2>5. a \notin Screen /\ b \notin Screen /\ c \in Screen
    BY <1>1, TreeOver, OverTree
  <2> QED
    BY <2>4, <2>5 DEF Root
<1>2. \A o \in Screen : Root(o) = o
  <2>1. \A o \in Screen : Ancestors(o) = {o}
    BY AboveOf DEF Ancestors
  <2> QED
    BY <2>1 DEF Root
<1>3. \A o \in {"menu_back", "menu_btn_status", "menu_btn_advanced", "menu_btn_about", "menu_advanced_back",
                "menu_btn_advanced_reboot", "menu_btn_dhcp_client", "menu_btn_advanced_reset_config"} :
        /\ o \in DOMAIN Over /\ Over[o] \in DOMAIN Over
        /\ Over[Over[o]] \in {"menu_screen", "menu_advanced_screen"}
  BY DEF Over
<1>4. \A o \in {"menu_network_back", "about_back", "status_back", "reset_config_back", "reboot_back",
                "dhcp_client_back"} :
        /\ o \in DOMAIN Over /\ Over[o] \in DOMAIN Over
        /\ Over[Over[o]] \in {"menu_network_screen", "about_screen", "status_screen", "reset_config_screen",
                              "reboot_screen", "switch_dhcp_client_screen"}
  BY DEF Over
<1>5. \A o \in Touchable :
        \/ o \in Screen
        \/ o \in {"menu_back", "menu_btn_status", "menu_btn_advanced", "menu_btn_about", "menu_advanced_back",
                  "menu_btn_advanced_reboot", "menu_btn_dhcp_client", "menu_btn_advanced_reset_config"}
        \/ o \in {"menu_network_back", "about_back", "status_back", "reset_config_back", "reboot_back",
                  "dhcp_client_back"}
        \/ o \in {"obj0", "obj1", "obj2"}
  BY HoldScreens DEF Touchable, Load, Screen
<1>6. {"menu_screen", "menu_advanced_screen", "menu_network_screen", "about_screen", "status_screen",
       "reset_config_screen", "reboot_screen", "switch_dhcp_client_screen"} \subseteq Screen \ {"rebooting_screen"}
  BY DEF Screen
<1> QED
  BY <1>1, <1>2, <1>3, <1>4, <1>5, <1>6, HoldScreens

LEMMA Handlers ==
  /\ \A o, e : o \in {"obj0", "obj1", "obj2", "rebooting_screen"} => ~Handles(o, e)
  /\ \A h \in Load : h[3] = "main" \/ h[3] \in Screen \ ({"rebooting_screen"} \cup MainScreens)
  /\ \A d : SwipeTo("rebooting_screen", d) = {}
<1>1. \A h \in Load : h[1] \notin {"obj0", "obj1", "obj2", "rebooting_screen"}
  BY DEF Load
<1>2. \A h \in Load : h[3] = "main" \/ h[3] \in Screen \ ({"rebooting_screen"} \cup MainScreens)
  BY DEF Load, Screen, MainScreens
<1>3. \A d : SwipeTo("rebooting_screen", d) = {}
  BY DEF Swipe, SwipeTo
<1> QED
  BY <1>1, <1>2, <1>3 DEF Handles

(* What a handler, and the tick after it, do to the screen and its labels. *)
LEMMA HandleLoads ==
  ASSUME NEW o, NEW e, Handle(o, e), mainScreen \in MainScreens, active \in Screen, current \in Screen
  PROVE  /\ active' \in Screen /\ current' \in Screen
         /\ \/ UNCHANGED screenVars
            \/ /\ Handles(o, e) /\ active' = current' /\ active' # "rebooting_screen"
               /\ active' \in MainScreens => active' = mainScreen
<1>1. CASE ~Handles(o, e)
  BY <1>1 DEF Handle, screenVars
<1>2. CASE Handles(o, e)
  <2> DEFINE s == (CHOOSE h \in Load : h[1] = o /\ h[2] = e)[3]
  <2>1. s = "main" \/ s \in Screen \ ({"rebooting_screen"} \cup MainScreens)
    BY <1>2, Handlers DEF Handles
  <2>2. active' = (IF s = "main" THEN mainScreen ELSE s) /\ current' = active'
    BY <1>2 DEF Handle, LoadsOn, loadScreen
  <2> HIDE DEF s
  <2> QED
    BY <1>2, <2>1, <2>2 DEF MainScreens, Screen
<1> QED
  BY <1>1, <1>2

LEMMA TickLabels ==
  ASSUME NEW s, TickScreen(s), version = "whole", lvgl, shown \in [Labels -> Version]
  PROVE  /\ version' = "whole" /\ lvgl' = TRUE /\ shown' \in [Labels -> Version]
         /\ s = "about_screen" => shown'["app_version"] = "whole" /\ shown'["system_version"] = "whole"
         /\ \A l \in {"app_version", "system_version"} : shown[l] = "whole" => shown'[l] = "whole"
<1>1. CASE s = "about_screen"
  <2>1. TickAbout
    BY <1>1 DEF TickScreen
  <2> QED
    BY <1>1, <2>1 DEF TickAbout, Labels, Version
<1>2. CASE s = "boot_screen"
  <2>1. TickBoot
    BY <1>2 DEF TickScreen
  <2> QED
    BY <1>2, <2>1 DEF TickBoot, Labels, Version
<1>3. CASE s \notin {"about_screen", "boot_screen"}
  BY <1>3 DEF TickScreen, labelVars
<1> QED
  BY <1>1, <1>2, <1>3
-----------------------------------------------------------------------------
(* The finger.                                                             *)

(* What the application's invariants see of a touch.                       *)
Touched ==
    /\ UNCHANGED <<address, hdmi, states, mainScreen, job, network, raced, disturbed>>
    /\ active' \in MainScreens => active' \in {active, mainScreen}
    /\ active = "rebooting_screen" /\ ~disturbed => active' = active
    /\ \A o \in {"home_info_ipv6_addr", "home_info_container", "home_screen"} : o \in hidden' <=> o \in hidden

LEMMA PressInv ==
  ASSUME IInv, NEW o \in Touchable, Press(o)
  PROVE  TypeOK' /\ HoldInv' /\ ResetInv' /\ FingerInv' /\ VersionInv' /\ Touched
<1> USE DEF IInv
<1>1. /\ finger.on = "none" /\ left > 0 /\ left' = left - 1 /\ Root(o) = active /\ Visible(o)
      /\ finger' = [on |-> o, time |-> 0, wait |-> FALSE, drag |-> FALSE, swiped |-> FALSE, calls |-> 0]
      /\ Handle(o, "PRESSED") /\ Counting(o) /\ TickScreen(current')
      /\ UNCHANGED <<lock, lost, asked, events, hidden, address, hdmi, states, mainScreen, job, up, v6, ready, raced,
                     disturbed, over>>
  BY DEF Press, Spend, NoFinger, Counts, TouchRest, network
<1>2. /\ active' \in Screen /\ current' \in Screen
      /\ \/ UNCHANGED screenVars
         \/ /\ Handles(o, "PRESSED") /\ active' = current' /\ active' # "rebooting_screen"
            /\ active' \in MainScreens => active' = mainScreen
  BY <1>1, HandleLoads DEF TypeOK, MainInv
<1>3. HeldOn(finger.on) = {}
  BY <1>1, OneHold
<1>4. completed' \in [Hold -> BOOLEAN] /\ counting' \in [Hold -> BOOLEAN]
  BY <1>1 DEF Counting, TypeOK
<1>5. TypeOK'
  <2>1. finger' \in [on : Touchable \cup {"none"}, time : 0 .. 3, wait : BOOLEAN, drag : BOOLEAN,
                    swiped : BOOLEAN, calls : 0 .. 2]
    BY <1>1
  <2>2. version' \in Version /\ lvgl' \in BOOLEAN /\ shown' \in [Labels -> Version]
    BY <1>1, TickLabels DEF TypeOK, VersionInv, Version
  <2>3. left' \in 0 .. MaxEvents
    BY <1>1, BoundAssumption DEF TypeOK
  <2> QED
    BY <1>1, <1>2, <1>4, <2>1, <2>2, <2>3 DEF TypeOK
<1>6. HoldInv'
  <2>1. \A m \in Hold : lock[m] => lost[m]
    BY <1>3 DEF HoldInv
  <2>2. \A m \in Hold : HoldTime[m] \in {2, 3}
    BY HoldScreens DEF HoldTime
  <2>3. finger'.calls = 0 /\ finger'.time = 0 /\ finger'.on = o
    BY <1>1
  <2>4. LabelAtRest'
    BY <1>1, <1>3, <2>3 DEF LabelAtRest, HoldInv, Counting, TypeOK, HeldOn
  <2> QED
    BY <1>1, <2>1, <2>2, <2>3, <2>4, OneHold DEF HoldInv, HeldOn
<1>7. ResetInv'
  <2>1. "resetConfig" \in HeldOn(o) => o = "obj0"
    BY HoldScreens, OneHold
  <2>2. o = "obj0" => "reset_config_button" \notin hidden
    BY <1>1, AncestorsOf DEF Visible
  <2> QED
    BY <1>1, <2>1, <2>2 DEF ResetInv, HeldOn
<1>8. FingerInv'
  <2>1. o \in {"obj0", "obj1", "obj2", "rebooting_screen"} => UNCHANGED <<active, current>>
    BY <1>2, Handlers DEF screenVars
  <2>2. \A m \in HeldOn(o) : o = HoldButton[m] /\ o \in {"obj0", "obj1", "obj2"}
    BY HoldScreens, OneHold
  <2>3. \A m \in HeldOn(o) : active' = Root(HoldButton[m])
    BY <1>1, <2>1, <2>2
  <2>4. active' = "rebooting_screen" => o = "rebooting_screen"
    <3>1. active' = "rebooting_screen" => active = "rebooting_screen"
      BY <1>2 DEF screenVars
    <3> QED
      BY <1>1, <3>1, TouchableRoots
  <2> QED
    BY <1>1, <2>3, <2>4 DEF FingerInv, HeldOn
<1>9. VersionInv'
  <2>1. active' = current' \/ active' \in {"home_screen", "no_network_screen", "rebooting_screen"}
    BY <1>2 DEF screenVars, VersionInv
  <2> QED
    BY <1>1, <2>1, TickLabels DEF TypeOK, VersionInv
<1>10. Touched
  <2>1. active' \in MainScreens => active' \in {active, mainScreen}
    BY <1>2 DEF screenVars
  <2>2. active = "rebooting_screen" => active' = active
    BY <1>1, <1>2, TouchableRoots, Handlers DEF screenVars
  <2> QED
    BY <1>1, <2>1, <2>2 DEF Touched, network
<1> QED
  BY <1>5, <1>6, <1>7, <1>8, <1>9, <1>10

(* A call is made for one button at most: whoever holds it has not called  *)
(* before, and its lock is free.                                           *)
LEMMA StayInv ==
  ASSUME IInv, Stay
  PROVE  /\ TypeOK' /\ HoldInv' /\ ResetInv' /\ FingerInv' /\ VersionInv' /\ Touched
         /\ \A m \in Hold : asked'[m] # asked[m] => active = Root(HoldButton[m]) \/ disturbed
<1> USE DEF IInv
<1> DEFINE t == finger.time + 1
           Due == {m \in HeldOn(finger.on) : t >= HoldTime[m]}
           Free == {m \in Due : ~Locked(m)}
<1>1. /\ finger.on # "none" /\ ~finger.wait /\ finger.time < 3
      /\ IF t = 1 /\ ~finger.drag THEN Handle(finger.on, "LONG_PRESSED") ELSE UNCHANGED screenVars
      /\ finger' = [finger EXCEPT !.time = t, !.calls = @ + Cardinality(Free)]
      /\ IF Due = {} THEN Counting(finger.on) /\ UNCHANGED lock /\ Counts
                     ELSE CallRpc(Free) /\ Hide(Free) /\ UNCHANGED counting
      /\ TickScreen(current')
      /\ UNCHANGED <<lost, left, address, hdmi, states, mainScreen, job, up, v6, ready, raced, disturbed, over>>
  BY DEF Stay, TouchRest, network
<1>2. /\ finger.on \in Touchable /\ t \in 1 .. 3 /\ finger.calls \in {0, 1} /\ finger.time \in 0 .. 3
      /\ finger.drag \in BOOLEAN /\ finger.swiped \in BOOLEAN /\ finger.wait \in BOOLEAN
  BY <1>1 DEF TypeOK, HoldInv
<1>3. /\ active' \in Screen /\ current' \in Screen
      /\ \/ UNCHANGED screenVars
         \/ /\ Handles(finger.on, "LONG_PRESSED") /\ active' = current' /\ active' # "rebooting_screen"
            /\ active' \in MainScreens => active' = mainScreen
  <2>1. CASE t = 1 /\ ~finger.drag
    BY <1>1, <2>1, HandleLoads DEF TypeOK, MainInv
  <2>2. CASE ~(t = 1 /\ ~finger.drag)
    BY <1>1, <2>2 DEF TypeOK, screenVars
  <2> QED
    BY <2>1, <2>2
<1>4. Free \subseteq Due /\ Due \subseteq HeldOn(finger.on) /\ HeldOn(finger.on) \subseteq Hold
  BY OneHold
<1>5. Free = {} \/ \E m \in Hold : Free = {m} /\ HeldOn(finger.on) = {m} /\ ~lock[m] /\ t >= HoldTime[m]
  BY <1>4, OneHold DEF Locked
<1>6. \A m \in Free : finger.calls = 0
  BY <1>2, <1>4, <1>5 DEF HoldInv
<1>7. /\ finger'.on = finger.on /\ finger'.wait = finger.wait /\ finger'.time = t
      /\ finger'.calls = IF Free = {} THEN finger.calls ELSE 1
      /\ finger' \in [on : Touchable \cup {"none"}, time : 0 .. 3, wait : BOOLEAN, drag : BOOLEAN,
                      swiped : BOOLEAN, calls : 0 .. 2]
  <2>1. Cardinality(Free) = IF Free = {} THEN 0 ELSE 1
    BY <1>5, FS_EmptySet, FS_Singleton
  <2>2. finger.calls + Cardinality(Free) = IF Free = {} THEN finger.calls ELSE 1
    BY <1>2, <1>6, <2>1
  <2> HIDE DEF t, Free
  <2>3. finger' = [finger EXCEPT !.time = t, !.calls = IF Free = {} THEN finger.calls ELSE 1]
    BY <1>1, <1>2, <2>2 DEF TypeOK
  <2> DEFINE c == IF Free = {} THEN finger.calls ELSE 1
  <2>4. c \in 0 .. 2 /\ t \in 0 .. 3
    BY <1>2
  <2> HIDE DEF c
  <2>5. finger' = [finger EXCEPT !.time = t, !.calls = c]
    BY <2>3 DEF c
  <2>6. /\ finger \in [on : Touchable \cup {"none"}, time : 0 .. 3, wait : BOOLEAN, drag : BOOLEAN,
                       swiped : BOOLEAN, calls : 0 .. 2]
    BY DEF TypeOK
  <2>7. /\ finger'.on = finger.on /\ finger'.wait = finger.wait /\ finger'.time = t /\ finger'.calls = c
        /\ finger' \in [on : Touchable \cup {"none"}, time : 0 .. 3, wait : BOOLEAN, drag : BOOLEAN,
                        swiped : BOOLEAN, calls : 0 .. 2]
    BY <2>4, <2>5, <2>6
  <2> QED
    BY <2>7 DEF c
<1>8. /\ lock' = [m \in Hold |-> lock[m] \/ m \in Free]
      /\ asked' = [m \in Hold |-> IF m \in Free /\ asked[m] < 2 THEN asked[m] + 1 ELSE asked[m]]
      /\ hidden' = IF "resetConfig" \in Free
                   THEN (hidden \ {"reset_config_spinner"}) \cup {"reset_config_button"} ELSE hidden
      /\ events' \in Seq(Hold)
  <2>1. CASE Due = {}
    <3>1. Free = {}
      BY <1>4, <2>1
    <3> HIDE DEF Free, Due
    <3>2. UNCHANGED <<lock, asked, events, hidden>>
      BY <1>1, <2>1 DEF Counts
    <3> QED
      BY <3>1, <3>2 DEF TypeOK
  <2>2. CASE Due # {}
    <3> HIDE DEF Free, Due
    <3>1. CallRpc(Free) /\ Hide(Free)
      BY <1>1, <2>2
    <3>2. events' \in Seq(Hold)
      <4>1. events \in Seq(Hold)
        BY DEF TypeOK
      <4>2. CASE Free = {}
        BY <3>1, <4>1, <4>2 DEF CallRpc
      <4>3. CASE Free # {}
        <5>1. PICK m \in Hold : m \in Free
          BY <1>5, <4>3
        <5>2. events' = Append(events, m)
          BY <3>1, <5>1 DEF CallRpc
        <5> QED
          BY <4>1, <5>1, <5>2
      <4> QED
        BY <4>2, <4>3
    <3> QED
      BY <3>1, <3>2 DEF CallRpc, Hide
  <2> QED
    BY <2>1, <2>2
<1>9. /\ completed' \in [Hold -> BOOLEAN] /\ counting' \in [Hold -> BOOLEAN]
      /\ \A m \in Hold \ HeldOn(finger.on) : counting'[m] = counting[m] /\ (completed[m] => completed'[m])
  <2>1. CASE Due = {}
    <3> HIDE DEF Due
    <3> QED
      BY <1>1, <2>1 DEF Counting, TypeOK
  <2>2. CASE Due # {}
    <3> HIDE DEF Due, Free
    <3>1. CallRpc(Free) /\ UNCHANGED counting
      BY <1>1, <2>2
    <3> QED
      BY <3>1 DEF CallRpc, TypeOK
  <2> QED
    BY <2>1, <2>2
<1>10. \A m \in HeldOn(finger.on) : t >= HoldTime[m] /\ Free = {} => lock[m]
  BY DEF Locked
<1> HIDE DEF t, Due, Free
<1>11. TypeOK'
  <2>1. version' \in Version /\ lvgl' \in BOOLEAN /\ shown' \in [Labels -> Version]
    BY <1>1, TickLabels DEF TypeOK, VersionInv, Version
  <2>2. lock' \in [Hold -> BOOLEAN]
    BY <1>8 DEF TypeOK
  <2>3. asked' \in [Hold -> 0 .. 2]
    BY <1>8 DEF TypeOK
  <2>4. hidden' \subseteq Object
    <3>1. "reset_config_button" \in Object
      <4>1. <<"reset_config_button", "reset_config_container">> \in Tree
        BY DEF Tree, ResetConfigHold, Under
      <4> QED
        BY <4>1 DEF Object
    <3> QED
      BY <1>8, <3>1 DEF TypeOK
  <2> QED
    BY <1>1, <1>3, <1>7, <1>8, <1>9, <2>1, <2>2, <2>3, <2>4 DEF TypeOK
<1>12. HoldInv'
  <2>1. finger'.calls <= 1
    BY <1>2, <1>7
  <2>2. HeldOn(finger.on)' = HeldOn(finger.on)
    BY <1>7 DEF HeldOn
  <2>3. ASSUME NEW m \in HeldOn(finger.on) PROVE finger'.calls = 1 => lock'[m]
    <3>1. m \in Hold
      BY <1>4
    <3>2. CASE Free = {}
      BY <1>7, <1>8, <2>3, <3>1, <3>2 DEF HoldInv
    <3>3. CASE Free # {}
      BY <1>5, <1>8, <2>3, <3>1, <3>3
    <3> QED
      BY <3>2, <3>3
  <2>4. ASSUME NEW m \in HeldOn(finger.on), t >= HoldTime[m] PROVE finger'.calls = 1 \/ lost'[m]
    <3>1. CASE Free = {}
      BY <1>1, <1>4, <1>7, <1>10, <2>4, <3>1 DEF HoldInv
    <3>2. CASE Free # {}
      BY <1>7, <3>2
    <3> QED
      BY <3>1, <3>2
  <2>5. ASSUME NEW m \in Hold, lock'[m] PROVE lost'[m] \/ (m \in HeldOn(finger.on) /\ finger'.calls = 1)
    <3>1. CASE m \in Free
      BY <1>4, <1>7, <3>1
    <3>2. CASE m \notin Free
      <4>1. lock[m]
        BY <1>8, <2>5, <3>2
      <4> QED
        BY <1>1, <1>7, <4>1 DEF HoldInv
    <3> QED
      BY <3>1, <3>2
  <2>6. LabelAtRest'
    BY <1>1, <1>9, <2>2 DEF LabelAtRest, HoldInv
  <2> QED
    BY <1>7, <2>1, <2>2, <2>3, <2>4, <2>5, <2>6 DEF HoldInv
<1>13. ResetInv'
  <2>1. HeldOn(finger.on)' = HeldOn(finger.on)
    BY <1>7 DEF HeldOn
  <2>2. "resetConfig" \in Hold
    BY HoldScreens
  <2>3. CASE "resetConfig" \in Free
    <3>1. asked["resetConfig"] = 0
      BY <1>4, <1>5, <2>2, <2>3 DEF ResetInv, TypeOK
    <3>2. asked'["resetConfig"] = asked["resetConfig"] + 1
      BY <1>8, <2>2, <2>3, <3>1
    <3>3. lock'["resetConfig"]
      BY <1>8, <2>2, <2>3, Zenon
    <3>4. "reset_config_button" \in hidden'
      BY <1>8, <2>3
    <3> QED
      BY <3>1, <3>2, <3>3, <3>4 DEF ResetInv
  <2>4. CASE "resetConfig" \notin Free
    BY <1>8, <2>1, <2>2, <2>4 DEF ResetInv
  <2> QED
    BY <2>3, <2>4
<1>14. FingerInv'
  <2>1. HeldOn(finger.on)' = HeldOn(finger.on)
    BY <1>7 DEF HeldOn
  <2>2. \A m \in HeldOn(finger.on) : active' = active
    <3>1. \A m \in HeldOn(finger.on) : finger.on \in {"obj0", "obj1", "obj2"}
      BY HoldScreens, OneHold
    <3> QED
      BY <1>3, <3>1, Handlers DEF screenVars
  <2>3. active' = "rebooting_screen" => active = "rebooting_screen"
    BY <1>3 DEF screenVars
  <2> QED
    BY <1>1, <1>7, <2>1, <2>2, <2>3 DEF FingerInv
<1>15. VersionInv'
  <2>1. active' = current' \/ active' \in {"home_screen", "no_network_screen", "rebooting_screen"}
    BY <1>3 DEF screenVars, VersionInv
  <2> QED
    BY <1>1, <2>1, TickLabels DEF TypeOK, VersionInv
<1>16. Touched
  <2>1. active' \in MainScreens => active' \in {active, mainScreen}
    BY <1>3 DEF screenVars
  <2>2. active = "rebooting_screen" /\ ~disturbed => active' = active
    BY <1>1, <1>3, Handlers DEF screenVars, FingerInv
  <2>3. \A o \in {"home_info_ipv6_addr", "home_info_container", "home_screen"} : o \in hidden' <=> o \in hidden
    BY <1>8
  <2> QED
    BY <1>1, <2>1, <2>2, <2>3 DEF Touched, network
<1>17. \A m \in Hold : asked'[m] # asked[m] => active = Root(HoldButton[m]) \/ disturbed
  BY <1>1, <1>4, <1>8 DEF FingerInv
<1> QED
  BY <1>11, <1>12, <1>13, <1>14, <1>15, <1>16, <1>17

LEMMA RootIsSelf == \A s \in Screen : Root(s) = s
<1>1. \A s \in Screen : Ancestors(s) = {s}
  BY AboveOf DEF Ancestors
<1> QED
  BY <1>1 DEF Root

LEMMA GestureInv ==
  ASSUME IInv, NEW d, Gesture(d)
  PROVE  TypeOK' /\ HoldInv' /\ ResetInv' /\ FingerInv' /\ VersionInv' /\ Touched
<1> USE DEF IInv
<1> DEFINE s == Root(finger.on)
           To == SwipeTo(s, d)
<1>1. /\ finger.on # "none" /\ ~finger.wait
      /\ IF s = "menu_screen" THEN loadScreen(mainScreen)
         ELSE IF To # {} THEN loadScreen("menu_screen") ELSE UNCHANGED screenVars
      /\ finger' = IF To # {} THEN WaitRelease ELSE [finger EXCEPT !.swiped = TRUE]
      /\ TickScreen(current')
      /\ UNCHANGED <<lock, completed, counting, lost, left, asked, events, hidden, address, hdmi, states, mainScreen,
                     job, up, v6, ready, raced, disturbed, over>>
  BY DEF Gesture, Counts, TouchRest, network
<1>2. /\ finger'.on = finger.on /\ finger'.calls = finger.calls /\ finger'.time = finger.time
      /\ To # {} => finger'.wait
      /\ finger' \in [on : Touchable \cup {"none"}, time : 0 .. 3, wait : BOOLEAN, drag : BOOLEAN,
                      swiped : BOOLEAN, calls : 0 .. 2]
  BY <1>1 DEF TypeOK, WaitRelease
<1>3. /\ active' \in Screen /\ current' \in Screen
      /\ \/ UNCHANGED <<active, current>>
         \/ active' = current' /\ active' # "rebooting_screen" /\ (s = "menu_screen" \/ To # {})
      /\ active' \in MainScreens => active' \in {active, mainScreen}
  BY <1>1 DEF loadScreen, screenVars, TypeOK, MainInv, MainScreens, Screen
<1>4. HeldOn(finger.on)' = HeldOn(finger.on)
  BY <1>2 DEF HeldOn
<1> HIDE DEF s, To
<1>5. TypeOK'
  <2>1. version' \in Version /\ lvgl' \in BOOLEAN /\ shown' \in [Labels -> Version]
    BY <1>1, TickLabels DEF TypeOK, VersionInv, Version
  <2> QED
    BY <1>1, <1>2, <1>3, <2>1 DEF TypeOK
<1>6. HoldInv'
  <2>1. LabelAtRest'
    BY <1>1, <1>4 DEF LabelAtRest, HoldInv
  <2> QED
    BY <1>1, <1>2, <1>4, <2>1 DEF HoldInv
<1>7. ResetInv'
  BY <1>1, <1>4 DEF ResetInv
<1>8. active = "rebooting_screen" /\ ~disturbed => active' = active
  <2> SUFFICES ASSUME active = "rebooting_screen", ~disturbed PROVE active' = active
    OBVIOUS
  <2>1. finger.on = "rebooting_screen"
    BY <1>1 DEF FingerInv
  <2>2. s = "rebooting_screen" /\ To = {}
    BY <2>1, RootIsSelf, Handlers DEF s, To, Screen
  <2> QED
    BY <1>3, <2>2
<1>9. FingerInv'
  <2>1. ASSUME NEW m \in HeldOn(finger.on), ~disturbed PROVE finger'.wait \/ active' = Root(HoldButton[m])
    <3>1. active = Root(HoldButton[m])
      BY <1>1, <2>1 DEF FingerInv
    <3>2. s # "menu_screen"
      BY HoldScreens, OneHold DEF s
    <3> QED
      BY <1>2, <1>3, <3>1, <3>2
  <2>2. active' = "rebooting_screen" => active = "rebooting_screen"
    BY <1>3
  <2> QED
    BY <1>1, <1>2, <1>4, <2>1, <2>2 DEF FingerInv
<1>10. VersionInv'
  <2>1. active' = current' \/ active' \in {"home_screen", "no_network_screen", "rebooting_screen"}
    BY <1>3 DEF VersionInv
  <2> QED
    BY <1>1, <2>1, TickLabels DEF TypeOK, VersionInv
<1>11. Touched
  BY <1>1, <1>3, <1>8 DEF Touched, network
<1> QED
  BY <1>5, <1>6, <1>7, <1>9, <1>10, <1>11

LEMMA DragInv ==
  ASSUME IInv, Drag
  PROVE  TypeOK' /\ HoldInv' /\ ResetInv' /\ FingerInv' /\ VersionInv' /\ Touched
<1> USE DEF IInv
<1>1. /\ finger' = [finger EXCEPT !.drag = TRUE] /\ TickScreen(current)
      /\ UNCHANGED <<active, current, lock, completed, counting, lost, left, asked, events, hidden, address, hdmi,
                     states, mainScreen, job, up, v6, ready, raced, disturbed, over>>
  BY DEF Drag, Counts, TouchRest, network, screenVars
<1>2. /\ finger'.on = finger.on /\ finger'.calls = finger.calls /\ finger'.time = finger.time
      /\ finger'.wait = finger.wait
      /\ finger' \in [on : Touchable \cup {"none"}, time : 0 .. 3, wait : BOOLEAN, drag : BOOLEAN,
                      swiped : BOOLEAN, calls : 0 .. 2]
  BY <1>1 DEF TypeOK
<1>3. HeldOn(finger.on)' = HeldOn(finger.on)
  BY <1>2 DEF HeldOn
<1>4. TypeOK'
  <2>1. version' \in Version /\ lvgl' \in BOOLEAN /\ shown' \in [Labels -> Version]
    BY <1>1, TickLabels DEF TypeOK, VersionInv, Version
  <2> QED
    BY <1>1, <1>2, <2>1 DEF TypeOK
<1>5. HoldInv'
  <2>1. LabelAtRest'
    BY <1>1, <1>3 DEF LabelAtRest, HoldInv
  <2> QED
    BY <1>1, <1>2, <1>3, <2>1 DEF HoldInv
<1>6. ResetInv' /\ FingerInv'
  BY <1>1, <1>2, <1>3 DEF ResetInv, FingerInv
<1>7. VersionInv'
  BY <1>1, TickLabels DEF TypeOK, VersionInv
<1>8. Touched
  BY <1>1 DEF Touched, network
<1> QED
  BY <1>4, <1>5, <1>6, <1>7, <1>8

LEMMA TickInv ==
  ASSUME IInv, Tick
  PROVE  TypeOK' /\ HoldInv' /\ ResetInv' /\ FingerInv' /\ VersionInv' /\ Touched
<1> USE DEF IInv
<1>1. /\ TickScreen(current)
      /\ UNCHANGED <<finger, active, current, lock, completed, counting, lost, left, asked, events, hidden, address,
                     hdmi, states, mainScreen, job, up, v6, ready, raced, disturbed, over>>
  BY DEF Tick, TouchRest, network, screenVars, touchVars
<1>2. TypeOK'
  <2>1. version' \in Version /\ lvgl' \in BOOLEAN /\ shown' \in [Labels -> Version]
    BY <1>1, TickLabels DEF TypeOK, VersionInv, Version
  <2> QED
    BY <1>1, <2>1 DEF TypeOK
<1>3. HoldInv' /\ ResetInv' /\ FingerInv'
  BY <1>1 DEF HoldInv, ResetInv, FingerInv, LabelAtRest, HeldOn
<1>4. VersionInv'
  BY <1>1, TickLabels DEF TypeOK, VersionInv
<1>5. Touched
  BY <1>1 DEF Touched, network
<1> QED
  BY <1>2, <1>3, <1>4, <1>5

LEMMA LiftInv ==
  ASSUME IInv, Lift
  PROVE  TypeOK' /\ HoldInv' /\ ResetInv' /\ FingerInv' /\ VersionInv' /\ Touched
<1> USE DEF IInv
<1> DEFINE on == HeldOn(finger.on)
<1>1. /\ finger.on # "none" /\ finger' = NoFinger
      /\ IF finger.wait
         THEN /\ lost' = [m \in Hold |-> lost[m] \/ m \in on]
              /\ UNCHANGED <<lock, counting, screenVars>>
         ELSE /\ Unlock(on) /\ ResetLabel(on)
              /\ IF finger.drag THEN UNCHANGED screenVars ELSE Handle(finger.on, "CLICKED")
              /\ UNCHANGED lost
      /\ TickScreen(current')
      /\ UNCHANGED <<completed, left, asked, events, hidden, address, hdmi, states, mainScreen, job, up, v6, ready,
                     raced, disturbed, over>>
  BY DEF Lift, Counts, TouchRest, network
<1>2. finger'.on = "none" /\ finger'.calls = 0 /\ HeldOn(finger.on)' = {}
  BY <1>1, OneHold DEF NoFinger, HeldOn
<1>3. /\ active' \in Screen /\ current' \in Screen
      /\ \/ UNCHANGED <<active, current>>
         \/ /\ Handles(finger.on, "CLICKED") /\ active' = current' /\ active' # "rebooting_screen"
            /\ active' \in MainScreens => active' = mainScreen
  <2>1. CASE finger.wait \/ finger.drag
    BY <1>1, <2>1 DEF screenVars, TypeOK
  <2>2. CASE ~(finger.wait \/ finger.drag)
    BY <1>1, <2>2, HandleLoads DEF TypeOK, MainInv, screenVars
  <2> QED
    BY <2>1, <2>2
<1>4. /\ lock' \in [Hold -> BOOLEAN] /\ counting' \in [Hold -> BOOLEAN] /\ lost' \in [Hold -> BOOLEAN]
      /\ \A m \in Hold : lock'[m] => lost'[m]
      /\ \A m \in Hold : counting'[m] => completed[m] \/ lost'[m]
  <2>1. CASE finger.wait
    <3>1. /\ \A m \in Hold : lost'[m] <=> lost[m] \/ m \in on
          /\ lost' \in [Hold -> BOOLEAN] /\ lock' = lock /\ counting' = counting
      BY <1>1, <2>1 DEF TypeOK
    <3> QED
      BY <3>1 DEF HoldInv, LabelAtRest, TypeOK
  <2>2. CASE ~finger.wait
    <3>1. /\ \A m \in Hold : lock'[m] <=> lock[m] /\ m \notin on
          /\ \A m \in Hold : counting'[m] <=> counting[m] /\ (m \in on => completed[m])
          /\ lock' \in [Hold -> BOOLEAN] /\ counting' \in [Hold -> BOOLEAN] /\ lost' = lost
      BY <1>1, <2>2 DEF Unlock, ResetLabel, TypeOK
    <3> QED
      BY <3>1 DEF HoldInv, LabelAtRest, TypeOK
  <2> QED
    BY <2>1, <2>2
<1> HIDE DEF on
<1>5. TypeOK'
  <2>1. version' \in Version /\ lvgl' \in BOOLEAN /\ shown' \in [Labels -> Version]
    BY <1>1, TickLabels DEF TypeOK, VersionInv, Version
  <2>2. finger' \in [on : Touchable \cup {"none"}, time : 0 .. 3, wait : BOOLEAN, drag : BOOLEAN,
                    swiped : BOOLEAN, calls : 0 .. 2]
    BY <1>1 DEF NoFinger
  <2> QED
    BY <1>1, <1>3, <1>4, <2>1, <2>2 DEF TypeOK
<1>6. HoldInv'
  BY <1>1, <1>2, <1>4 DEF HoldInv, LabelAtRest
<1>7. ResetInv'
  BY <1>1, <1>2 DEF ResetInv
<1>8. FingerInv'
  BY <1>2 DEF FingerInv
<1>9. VersionInv'
  <2>1. active' = current' \/ active' \in {"home_screen", "no_network_screen", "rebooting_screen"}
    BY <1>3 DEF VersionInv
  <2> QED
    BY <1>1, <2>1, TickLabels DEF TypeOK, VersionInv
<1>10. Touched
  <2>1. active = "rebooting_screen" /\ ~disturbed => active' = active
    BY <1>1, <1>3, Handlers DEF FingerInv
  <2> QED
    BY <1>1, <1>3, <2>1 DEF Touched, network
<1> QED
  BY <1>5, <1>6, <1>7, <1>8, <1>9, <1>10

LEMMA TouchedInv ==
  ASSUME IInv, Touched
  PROVE  JobsTyped' /\ ApartInv' /\ LabelInv' /\ HomeInv' /\ MainInv' /\ RebootInv'
<1> USE DEF IInv
<1>1. UNCHANGED <<address, hdmi, states, mainScreen, job, up, v6, ready, raced, disturbed>>
  BY DEF Touched, network
<1>2. JobsTyped' /\ ApartInv'
  BY <1>1 DEF JobsTyped, ApartInv, Working, Failed
<1>3. LabelInv' /\ HomeInv'
  BY <1>1 DEF Touched, LabelInv, HomeInv, NoneAt, Updates
<1>4. MainInv'
  <2>1. NoneAt(UpdatePcs) => NoneAt(Fresh \cup {"var"})
    BY DEF NoneAt, UpdatePcs
  <2>2. NoneAt(UpdatePcs) /\ ~raced /\ active' \in MainScreens => active' = Main(up)
    BY <2>1 DEF Touched, MainInv
  <2> QED
    BY <1>1, <2>2 DEF MainInv, NoneAt, Updates
<1>5. RebootInv'
  BY <1>1 DEF Touched, RebootInv, Failed
<1> QED
  BY <1>2, <1>3, <1>4, <1>5

-----------------------------------------------------------------------------
(* The application.                                                        *)

JobPc == {"idle", "born", "visible", "hdmi", "checked", "read", "var", "look", "switch", "notified", "rebooting",
          "exec"}
JobState == [kind : {"none", "update", "event", "reboot"}, pc : JobPc, up : BOOLEAN, v6 : BOOLEAN, ready : BOOLEAN]

(* Goroutines leave the finger and the labels alone, but may load a screen *)
(* of their own under it.                                                  *)
LEMMA FingerStays ==
  ASSUME IInv, GoRest,
         \/ UNCHANGED <<active, disturbed>>
         \/ \E s \in MainScreens \cup {"rebooting_screen"} : load_screen(s),
         "reset_config_button" \in hidden => "reset_config_button" \in hidden'
  PROVE  HoldInv' /\ ResetInv' /\ FingerInv' /\ VersionInv'
<1> USE DEF IInv
<1>1. UNCHANGED <<finger, lock, completed, counting, lost, current, version, lvgl, shown, asked>>
  BY DEF GoRest, touchVars, labelVars
<1>2. HoldInv' /\ ResetInv'
  BY <1>1 DEF HoldInv, ResetInv, LabelAtRest, HeldOn
<1>3. FingerInv'
  <2>1. CASE UNCHANGED <<active, disturbed>>
    BY <1>1, <2>1 DEF FingerInv, HeldOn
  <2>2. CASE \E s \in MainScreens \cup {"rebooting_screen"} : load_screen(s)
    <3>1. ~disturbed' => finger'.on = "none"
      BY <1>1, <2>2 DEF load_screen
    <3>2. HeldOn("none")' = {}
      BY OneHold DEF HeldOn
    <3> QED
      BY <3>1, <3>2 DEF FingerInv
  <2> QED
    BY <2>1, <2>2
<1>4. VersionInv'
  BY <1>1 DEF VersionInv, load_screen, MainScreens
<1> QED
  BY <1>2, <1>3, <1>4

(* A step of one goroutine.                                                *)
OnlyJob(j) == j \in Job /\ job' \in [Job -> JobState] /\ \A i \in Job \ {j} : job'[i] = job[i]

LEMMA JobStep ==
  ASSUME TypeOK, NEW j \in Job, NEW r \in JobState, job' = [job EXCEPT ![j] = r]
  PROVE  OnlyJob(j) /\ job'[j] = r
BY DEF TypeOK, JobState, JobPc, OnlyJob

LEMMA StepIsJobStep ==
  ASSUME TypeOK, NEW j \in Job, NEW p \in JobPc, Step(j, p)
  PROVE  /\ OnlyJob(j)
         /\ job'[j].pc = p /\ job'[j].kind = job[j].kind /\ job'[j].up = job[j].up /\ job'[j].v6 = job[j].v6
         /\ job'[j].ready = job[j].ready
<1>1. job \in [Job -> JobState]
  BY DEF TypeOK, JobState, JobPc
<1>2. job' = [job EXCEPT ![j] = [job[j] EXCEPT !.pc = p]]
  BY DEF Step
<1>3. [job[j] EXCEPT !.pc = p] \in JobState
  BY <1>1 DEF JobState
<1> QED
  BY <1>1, <1>2, <1>3, JobStep DEF JobState

LEMMA DoneIsJobStep ==
  ASSUME TypeOK, NEW j \in Job, Done(j)
  PROVE  OnlyJob(j) /\ job'[j].pc = "idle" /\ job'[j].kind = "none"
<1>1. Idle \in JobState /\ job' = [job EXCEPT ![j] = Idle]
  BY DEF Done, Idle, JobState, JobPc
<1>2. OnlyJob(j) /\ job'[j] = Idle
  BY <1>1, JobStep
<1> QED
  BY <1>2 DEF Idle

LEMMA SpawnIsJobStep ==
  ASSUME TypeOK, NEW k \in {"update", "event", "reboot"}, NEW p \in {"born", "notified"}, Spawn(k, p)
  PROVE  \E j \in Job : OnlyJob(j) /\ job[j].pc = "idle" /\ job'[j].pc = p /\ job'[j].kind = k
<1>1. PICK j \in Job : job[j].pc = "idle" /\ job' = [job EXCEPT ![j] = [Idle EXCEPT !.kind = k, !.pc = p]]
  BY DEF Spawn
<1>2. [Idle EXCEPT !.kind = k, !.pc = p] \in JobState
  BY DEF Idle, JobState, JobPc
<1>3. OnlyJob(j) /\ job'[j] = [Idle EXCEPT !.kind = k, !.pc = p]
  BY <1>1, <1>2, JobStep
<1> QED
  BY <1>1, <1>3 DEF Idle

(* Who begins to work while another does is recorded; who goes on does not *)
(* become one of two.                                                      *)
LEMMA ApartRace ==
  ASSUME ApartInv, NEW j, OnlyJob(j), Race(j)
  PROVE  ApartInv'
BY DEF ApartInv, OnlyJob, Race, Working, Failed

LEMMA ApartQuiet ==
  ASSUME ApartInv, NEW j, OnlyJob(j), raced => raced',
         \/ job'[j].pc \in {"idle", "born", "notified", "exec"}
         \/ Failed(j)'
         \/ j \in Working /\ ~Failed(j)
  PROVE  ApartInv'
BY DEF ApartInv, OnlyJob, Working, Failed

(* While a goroutine is about to run the reboot command, the others do not *)
(* get where they would load a screen.                                     *)
Harmless(j) == job[j].pc # "switch" /\ (job[j].pc = "look" => job[j].kind = "update") /\ ~Failed(j)

LEMMA RebootQuiet ==
  ASSUME RebootInv, NEW j, OnlyJob(j), UNCHANGED <<active, disturbed>>, raced => raced',
         job'[j].pc # "exec", Harmless(j)' \/ ~Harmless(j)
  PROVE  RebootInv'
BY DEF RebootInv, OnlyJob, Failed, Harmless

LEMMA RebootRace ==
  ASSUME RebootInv, NEW j, OnlyJob(j), Race(j), active' = "rebooting_screen", job'[j].pc = "exec"
  PROVE  RebootInv'
BY DEF RebootInv, OnlyJob, Failed, Race, Working

LEMMA AppTypes ==
  ASSUME TypeOK, GoRest, left' \in 0 .. MaxEvents, active' \in Screen, hidden' \subseteq Object,
         address' \in BOOLEAN /\ hdmi' \in BOOLEAN /\ states' \subseteq State /\ mainScreen' \in Screen,
         events' \in Seq(Hold), job' \in [Job -> JobState],
         up' \in BOOLEAN /\ v6' \in BOOLEAN /\ ready' \in BOOLEAN,
         raced' \in BOOLEAN /\ disturbed' \in BOOLEAN /\ over' \in BOOLEAN
  PROVE  TypeOK'
<1>1. UNCHANGED <<finger, lock, completed, counting, lost, current, version, lvgl, shown, asked>>
  BY DEF GoRest, touchVars, labelVars
<1> QED
  BY <1>1 DEF TypeOK, JobState, JobPc

(* An update begins: from here to its end no other goroutine works, or it  *)
(* is recorded; what an update that begins alone finds does not matter.    *)
LEMMA UpdateLabelInv == ASSUME IInv, NEW j \in Job, UpdateLabel(j) PROVE IInv'
<1> USE DEF IInv
<1>1. /\ job[j].pc = "born" /\ address' = v6 /\ GoRest
      /\ job' = [job EXCEPT ![j].pc = "visible", ![j].v6 = v6]
      /\ UNCHANGED <<active, hidden, hdmi, states, mainScreen, events, up, v6, ready, disturbed, over, left>>
  BY DEF UpdateLabel, At, JobRest, network
<1>2. OnlyJob(j) /\ job'[j].pc = "visible" /\ job'[j].v6 = v6 /\ job'[j].kind = "update" /\ job[j].kind = "update"
  <2>1. job \in [Job -> JobState]
    BY DEF TypeOK, JobState, JobPc
  <2>2. job[j].kind = "update"
    BY <1>1, <2>1 DEF JobsTyped, RebootPcs, JobState
  <2>3. job' = [job EXCEPT ![j] = [job[j] EXCEPT !.pc = "visible", !.v6 = v6]]
    BY <1>1, <2>1
  <2>4. [job[j] EXCEPT !.pc = "visible", !.v6 = v6] \in JobState
    <3>1. job[j] \in JobState
      BY <2>1
    <3>2. v6 \in BOOLEAN
      BY DEF TypeOK, JobPc
    <3> QED
      BY <3>1, <3>2 DEF JobState, JobPc
  <2>5. OnlyJob(j) /\ job'[j] = [job[j] EXCEPT !.pc = "visible", !.v6 = v6]
    BY <2>3, <2>4, JobStep
  <2> QED
    BY <2>1, <2>2, <2>5 DEF JobState
<1>10. \/ Alone(j) /\ raced' = FALSE
       \/ Race(j)
  BY DEF UpdateLabel
<1>3. TypeOK'
  <2>1. raced' \in BOOLEAN
    <3>1. CASE Alone(j) /\ raced' = FALSE
      BY <3>1
    <3>2. CASE Race(j)
      BY <3>2 DEF Race, TypeOK
    <3> QED
      BY <1>10, <3>1, <3>2
  <2> QED
    BY <1>1, <1>2, <2>1, AppTypes DEF TypeOK, OnlyJob
<1>4. HoldInv' /\ ResetInv' /\ FingerInv' /\ VersionInv'
  BY <1>1, FingerStays
<1>5. JobsTyped'
  BY <1>2 DEF JobsTyped, OnlyJob, UpdatePcs, Fresh
<1>6. ApartInv'
  <2>1. CASE Alone(j)
    BY <1>2, <2>1 DEF Alone, ApartInv, OnlyJob, Working
  <2>2. CASE Race(j)
    BY <1>2, <2>2, ApartRace
  <2> QED
    BY <1>10, <2>1, <2>2
<1>7. LabelInv' /\ HomeInv'
  <2>1. ~raced' => \A i \in Job \ {j} : job[i].pc \in {"idle", "born", "notified", "exec"}
    <3>1. CASE Alone(j)
      BY <3>1 DEF Alone
    <3>2. CASE Race(j)
      BY <3>2 DEF Race, Working
    <3> QED
      BY <1>10, <3>1, <3>2
  <2>2. ~raced' => ~NoneAt({"born", "visible"})' /\ ~NoneAt({"born", "visible", "hdmi"})'
                   /\ ~NoneAt({"born", "visible", "hdmi", "checked"})'
    BY <1>2 DEF NoneAt, Updates
  <2>3. ~raced' => address' = v6' /\ \A i \in Updates' : job'[i].pc = "visible" => job'[i].v6 = v6'
    BY <1>1, <1>2, <2>1 DEF Updates, OnlyJob
  <2> QED
    BY <1>1, <2>2, <2>3 DEF LabelInv, HomeInv
<1>8. MainInv'
  <2>1. ~NoneAt(Fresh)' /\ ~NoneAt(Fresh \cup {"var"})' /\ ~NoneAt(UpdatePcs)'
    BY <1>2 DEF NoneAt, Updates, Fresh, UpdatePcs
  <2> QED
    BY <1>1, <2>1 DEF MainInv
<1>9. RebootInv'
  <2>1. Harmless(j)'
    BY <1>2 DEF Harmless, Failed
  <2>2. CASE Alone(j)
    BY <1>2, <2>2 DEF Alone, RebootInv, OnlyJob
  <2>3. CASE Race(j)
    BY <1>1, <1>2, <2>1, <2>3, RebootQuiet DEF Race
  <2> QED
    BY <1>10, <2>2, <2>3
<1> QED
  BY <1>3, <1>4, <1>5, <1>6, <1>7, <1>8, <1>9

(* What the two calls hide and show.                                       *)
LEMMA HiddenAfter ==
  ASSUME NEW show \in BOOLEAN, NEW h, h \subseteq Object, h = hidden
  PROVE  LET new == UIObjHide(NoHandler, Shown({"home_info_ipv6_addr", "home_info_ipv6_addr_container"}, show))
         IN  /\ new \subseteq Object
             /\ "home_info_ipv6_addr" \notin new <=> show
             /\ \A o \in {"home_info_container", "home_screen", "reset_config_button"} : o \in new <=> o \in h
<1> DEFINE names == {"home_info_ipv6_addr", "home_info_ipv6_addr_container"}
           new == UIObjHide(NoHandler, Shown(names, show))
<1>1. Hides("LV_OBJ_FLAG_HIDDEN") = TRUE
  BY DEF Hides, str_to_lv_obj_flag, Flag
<1>2. "home_info_ipv6_addr" \in Object
  <2>1. <<"home_info_ipv6_addr", "home_info_container">> \in Tree
    BY DEF Tree, HomeInfo, Under
  <2> QED
    BY <2>1 DEF Object
<1>3. new = Shown(names, show) \cup (NoHandler \cap Object)
  BY <1>1 DEF UIObjHide, add_flag, ui_get_obj
<1>4. Shown(names, show) = IF show THEN h \ (names \cap Object) ELSE h \cup (names \cap Object)
  BY <1>1 DEF Shown, UIObjHide, UIObjShow, add_flag, clear_flag, ui_get_obj
<1> QED
  BY <1>2, <1>3, <1>4 DEF NoHandler

LEMMA UpdateVisibleInv == ASSUME IInv, NEW j \in Job, UpdateVisible(j) PROVE IInv'
<1> USE DEF IInv
<1>1. /\ job[j].pc = "visible" /\ Step(j, "hdmi") /\ GoRest
      /\ hidden' = UIObjHide(NoHandler, Shown({"home_info_ipv6_addr", "home_info_ipv6_addr_container"}, job[j].v6))
      /\ UNCHANGED <<active, address, hdmi, states, mainScreen, events, up, v6, ready, raced, disturbed, over, left>>
  BY DEF UpdateVisible, At, JobRest, network
<1>2. /\ OnlyJob(j) /\ job'[j].pc = "hdmi" /\ job'[j].kind = "update" /\ job[j].kind = "update"
      /\ job[j].v6 \in BOOLEAN
  BY <1>1, StepIsJobStep DEF JobsTyped, RebootPcs, JobPc, TypeOK
<1>3. /\ hidden' \subseteq Object /\ ("home_info_ipv6_addr" \notin hidden') = job[j].v6
      /\ \A o \in {"home_info_container", "home_screen", "reset_config_button"} : o \in hidden' <=> o \in hidden
  BY <1>1, <1>2, HiddenAfter DEF TypeOK
<1>4. TypeOK'
  BY <1>1, <1>2, <1>3, AppTypes DEF TypeOK, OnlyJob
<1>5. HoldInv' /\ ResetInv' /\ FingerInv' /\ VersionInv'
  BY <1>1, <1>3, FingerStays
<1>6. JobsTyped'
  BY <1>2 DEF JobsTyped, OnlyJob, UpdatePcs, Fresh
<1>7. ApartInv'
  <2>1. j \in Working /\ ~Failed(j)
    BY <1>1 DEF Working, Failed
  <2> QED
    BY <1>1, <1>2, <2>1, ApartQuiet
<1>8. LabelInv' /\ HomeInv'
  <2>1. NoneAt({"born"})' => NoneAt({"born"})
    BY <1>1, <1>2 DEF NoneAt, Updates, OnlyJob
  <2>2. ~NoneAt({"born", "visible", "hdmi"})' /\ ~NoneAt({"born", "visible", "hdmi", "checked"})'
    BY <1>2 DEF NoneAt, Updates
  <2>3. NoneAt({"born", "visible"})' => NoneAt({"born"})'
    BY DEF NoneAt
  <2>4. \A i \in Updates' : job'[i].pc = "visible" => i \in Updates /\ job'[i] = job[i]
    BY <1>2 DEF Updates, OnlyJob
  <2>5. ~raced /\ NoneAt({"born"}) => job[j].v6 = v6
    BY <1>1, <1>2 DEF LabelInv, Updates
  <2> QED
    BY <1>1, <1>2, <1>3, <2>1, <2>2, <2>3, <2>4, <2>5 DEF LabelInv, HomeInv
<1>9. MainInv'
  <2>1. ~NoneAt(Fresh)' /\ ~NoneAt(Fresh \cup {"var"})' /\ ~NoneAt(UpdatePcs)'
    BY <1>2 DEF NoneAt, Updates, Fresh, UpdatePcs
  <2> QED
    BY <1>1, <2>1 DEF MainInv
<1>10. RebootInv'
  <2>1. Harmless(j)'
    BY <1>2 DEF Harmless, Failed
  <2> QED
    BY <1>1, <1>2, <2>1, RebootQuiet
<1> QED
  BY <1>4, <1>5, <1>6, <1>7, <1>8, <1>9, <1>10

LEMMA UpdateHdmiInv == ASSUME IInv, NEW j \in Job, UpdateHdmi(j) PROVE IInv'
<1> USE DEF IInv
<1>1. /\ job[j].pc = "hdmi" /\ hdmi' = ready /\ GoRest
      /\ job' = [job EXCEPT ![j].pc = "checked", ![j].ready = ready]
      /\ UNCHANGED <<active, hidden, address, states, mainScreen, events, up, v6, ready, raced, disturbed, over, left>>
  BY DEF UpdateHdmi, At, JobRest, network
<1>2. /\ OnlyJob(j) /\ job'[j].pc = "checked" /\ job'[j].ready = ready /\ job'[j].kind = "update"
      /\ job[j].kind = "update"
  <2>1. job \in [Job -> JobState]
    BY DEF TypeOK, JobState, JobPc
  <2>2. job[j].kind = "update"
    BY <1>1, <2>1 DEF JobsTyped, RebootPcs, JobState
  <2>3. job' = [job EXCEPT ![j] = [job[j] EXCEPT !.pc = "checked", !.ready = ready]]
    BY <1>1, <2>1
  <2>4. [job[j] EXCEPT !.pc = "checked", !.ready = ready] \in JobState
    <3>1. job[j] \in JobState
      BY <2>1
    <3>2. ready \in BOOLEAN
      BY DEF TypeOK, JobPc
    <3> QED
      BY <3>1, <3>2 DEF JobState, JobPc
  <2>5. OnlyJob(j) /\ job'[j] = [job[j] EXCEPT !.pc = "checked", !.ready = ready]
    BY <2>3, <2>4, JobStep
  <2> QED
    BY <2>1, <2>2, <2>5 DEF JobState
<1>3. TypeOK'
  BY <1>1, <1>2, AppTypes DEF TypeOK, OnlyJob
<1>4. HoldInv' /\ ResetInv' /\ FingerInv' /\ VersionInv'
  BY <1>1, FingerStays
<1>5. JobsTyped'
  BY <1>2 DEF JobsTyped, OnlyJob, UpdatePcs, Fresh
<1>6. ApartInv'
  <2>1. j \in Working /\ ~Failed(j)
    BY <1>1 DEF Working, Failed
  <2> QED
    BY <1>1, <1>2, <2>1, ApartQuiet
<1>7. LabelInv' /\ HomeInv'
  <2>1. /\ NoneAt({"born"})' => NoneAt({"born"})
        /\ NoneAt({"born", "visible"})' => NoneAt({"born", "visible"})
    BY <1>1, <1>2 DEF NoneAt, Updates, OnlyJob
  <2>2. ~NoneAt({"born", "visible", "hdmi", "checked"})'
    BY <1>2 DEF NoneAt, Updates
  <2>3. /\ \A i \in Updates' : job'[i].pc = "visible" => i \in Updates /\ job'[i] = job[i]
    BY <1>2 DEF Updates, OnlyJob
  <2>4. ~raced => ~raced' /\ \A i \in Job \ {j} : i \in Working => Failed(i)
    BY <1>1 DEF ApartInv, Working, Failed
  <2>5. ~raced => \A i \in Updates' : job'[i].pc = "checked" => job'[i].ready = ready'
    BY <1>1, <1>2, <2>4 DEF Updates, OnlyJob, Working, Failed
  <2> QED
    BY <1>1, <1>2, <2>1, <2>2, <2>3, <2>5 DEF LabelInv, HomeInv
<1>8. MainInv'
  <2>1. ~NoneAt(Fresh)' /\ ~NoneAt(Fresh \cup {"var"})' /\ ~NoneAt(UpdatePcs)'
    BY <1>2 DEF NoneAt, Updates, Fresh, UpdatePcs
  <2> QED
    BY <1>1, <2>1 DEF MainInv
<1>9. RebootInv'
  <2>1. Harmless(j)'
    BY <1>2 DEF Harmless, Failed
  <2> QED
    BY <1>1, <1>2, <2>1, RebootQuiet
<1> QED
  BY <1>3, <1>4, <1>5, <1>6, <1>7, <1>8, <1>9

LEMMA UpdateCheckedInv == ASSUME IInv, NEW j \in Job, UpdateChecked(j) PROVE IInv'
<1> USE DEF IInv
<1>1. /\ job[j].pc = "checked" /\ Step(j, "read") /\ GoRest
      /\ states' \subseteq State /\ ("LV_STATE_CHECKED" \in states') = job[j].ready
      /\ UNCHANGED <<active, hidden, address, hdmi, mainScreen, events, up, v6, ready, raced, disturbed, over, left>>
  BY DEF UpdateChecked, At, JobRest, network, str_to_lv_state, State, TypeOK
<1>2. OnlyJob(j) /\ job'[j].pc = "read" /\ job'[j].kind = "update" /\ job[j].kind = "update"
  BY <1>1, StepIsJobStep DEF JobsTyped, RebootPcs, JobPc, TypeOK
<1>3. TypeOK'
  BY <1>1, <1>2, AppTypes DEF TypeOK, OnlyJob
<1>4. HoldInv' /\ ResetInv' /\ FingerInv' /\ VersionInv'
  BY <1>1, FingerStays
<1>5. JobsTyped'
  BY <1>2 DEF JobsTyped, OnlyJob, UpdatePcs, Fresh
<1>6. ApartInv'
  <2>1. j \in Working /\ ~Failed(j)
    BY <1>1 DEF Working, Failed
  <2> QED
    BY <1>1, <1>2, <2>1, ApartQuiet
<1>7. LabelInv' /\ HomeInv'
  <2>1. /\ NoneAt({"born"})' => NoneAt({"born"})
        /\ NoneAt({"born", "visible"})' => NoneAt({"born", "visible"})
        /\ NoneAt({"born", "visible", "hdmi"})' => NoneAt({"born", "visible", "hdmi"})
    BY <1>1, <1>2 DEF NoneAt, Updates, OnlyJob
  <2>2. NoneAt({"born", "visible", "hdmi", "checked"})' => NoneAt({"born", "visible", "hdmi"})'
    BY DEF NoneAt
  <2>3. \A i \in Updates' : job'[i].pc \in {"visible", "checked"} => i \in Updates /\ job'[i] = job[i]
    BY <1>2 DEF Updates, OnlyJob
  <2>4. ~raced /\ NoneAt({"born", "visible", "hdmi"}) => job[j].ready = ready
    BY <1>1, <1>2 DEF LabelInv, Updates
  <2> QED
    BY <1>1, <1>2, <2>1, <2>2, <2>3, <2>4 DEF LabelInv, HomeInv
<1>8. MainInv'
  <2>1. ~NoneAt(Fresh)' /\ ~NoneAt(Fresh \cup {"var"})' /\ ~NoneAt(UpdatePcs)'
    BY <1>2 DEF NoneAt, Updates, Fresh, UpdatePcs
  <2> QED
    BY <1>1, <2>1 DEF MainInv
<1>9. RebootInv'
  <2>1. Harmless(j)'
    BY <1>2 DEF Harmless, Failed
  <2> QED
    BY <1>1, <1>2, <2>1, RebootQuiet
<1> QED
  BY <1>3, <1>4, <1>5, <1>6, <1>7, <1>8, <1>9

(* A step that no label waits for.                                         *)
LEMMA LabelQuiet ==
  ASSUME LabelInv, HomeInv, NEW j, OnlyJob(j), UNCHANGED <<hidden, address, hdmi, states, v6, ready>>, raced => raced',
         job[j].kind = "update" => job[j].pc \notin {"born", "visible", "hdmi", "checked"},
         job'[j].kind = "update" => job'[j].pc \notin {"born", "visible", "hdmi", "checked"}
  PROVE  LabelInv' /\ HomeInv'
<1>1. \A pcs \in SUBSET {"born", "visible", "hdmi", "checked"} : NoneAt(pcs)' <=> NoneAt(pcs)
  BY DEF NoneAt, Updates, OnlyJob
<1>2. \A i \in Updates' : job'[i].pc \in {"visible", "checked"} => i \in Updates /\ job'[i] = job[i]
  BY DEF Updates, OnlyJob
<1>3. /\ NoneAt({"born"})' <=> NoneAt({"born"})
      /\ NoneAt({"born", "visible"})' <=> NoneAt({"born", "visible"})
      /\ NoneAt({"born", "visible", "hdmi"})' <=> NoneAt({"born", "visible", "hdmi"})
      /\ NoneAt({"born", "visible", "hdmi", "checked"})' <=> NoneAt({"born", "visible", "hdmi", "checked"})
  BY <1>1
<1> QED
  BY <1>2, <1>3 DEF LabelInv, HomeInv

LEMMA ReadNetworkInv == ASSUME IInv, NEW j \in Job, ReadNetwork(j) PROVE IInv'
<1> USE DEF IInv
<1> DEFINE p == IF job[j].kind = "update" THEN "var" ELSE "look"
<1>1. /\ job[j].pc = "read" /\ Race(j) /\ GoRest
      /\ job' = [job EXCEPT ![j].up = up, ![j].pc = p]
      /\ UNCHANGED <<active, hidden, address, hdmi, states, mainScreen, events, up, v6, ready, disturbed, over, left>>
  BY DEF ReadNetwork, At, JobRest, network
<1>2. OnlyJob(j) /\ job'[j].pc = p /\ job'[j].up = up /\ job'[j].kind = job[j].kind /\ job[j].kind # "none"
  <2>1. job \in [Job -> JobState]
    BY DEF TypeOK, JobState, JobPc
  <2>2. job' = [job EXCEPT ![j] = [job[j] EXCEPT !.up = up, !.pc = p]]
    BY <1>1, <2>1
  <2>3. [job[j] EXCEPT !.up = up, !.pc = p] \in JobState
    <3>1. job[j] \in JobState
      BY <2>1
    <3>2. up \in BOOLEAN /\ p \in JobPc
      BY DEF TypeOK, JobPc
    <3> QED
      BY <3>1, <3>2 DEF JobState, JobPc
  <2>4. OnlyJob(j) /\ job'[j] = [job[j] EXCEPT !.up = up, !.pc = p]
    BY <2>2, <2>3, JobStep
  <2> QED
    BY <1>1, <2>1, <2>4 DEF JobState, JobsTyped
<1>3. TypeOK'
  BY <1>1, <1>2, AppTypes DEF TypeOK, Race, OnlyJob
<1>4. HoldInv' /\ ResetInv' /\ FingerInv' /\ VersionInv'
  BY <1>1, FingerStays
<1>5. JobsTyped'
  BY <1>2 DEF JobsTyped, OnlyJob, UpdatePcs, RebootPcs
<1>6. ApartInv'
  BY <1>1, <1>2, ApartRace
<1>7. LabelInv' /\ HomeInv'
  <2>1. job'[j].kind = "update" => job'[j].pc \notin {"born", "visible", "hdmi", "checked"}
    BY <1>2
  <2>2. raced => raced'
    BY <1>1 DEF Race
  <2> QED
    BY <1>1, <1>2, <2>1, <2>2, LabelQuiet
<1>8. MainInv'
  <2>1. ~raced' => ~raced /\ \A i \in Job \ {j} : job'[i].pc \notin {"var", "look", "switch"}
    BY <1>1, <1>2 DEF Race, Working, OnlyJob
  <2>2. CASE job[j].kind = "update"
    <3>1. ~NoneAt(Fresh \cup {"var"})' /\ ~NoneAt(UpdatePcs)'
      BY <1>2, <2>2 DEF NoneAt, Updates, UpdatePcs
    <3> QED
      BY <1>1, <1>2, <2>1, <3>1 DEF MainInv
  <2>3. CASE job[j].kind # "update"
    <3>1. /\ NoneAt(Fresh \cup {"var"})' => NoneAt(Fresh \cup {"var"})
          /\ NoneAt(UpdatePcs)' => NoneAt(UpdatePcs)
      BY <1>2, <2>3 DEF NoneAt, Updates, OnlyJob
    <3> QED
      BY <1>1, <1>2, <2>1, <3>1 DEF MainInv
  <2> QED
    BY <2>2, <2>3
<1>9. RebootInv'
  <2>1. Harmless(j)' \/ ~Harmless(j)
    BY <1>1, <1>2 DEF Harmless, Failed
  <2>2. raced => raced'
    BY <1>1 DEF Race
  <2>3. job'[j].pc # "exec"
    BY <1>2
  <2> QED
    BY <1>1, <1>2, <2>1, <2>2, <2>3, RebootQuiet
<1> QED
  BY <1>3, <1>4, <1>5, <1>6, <1>7, <1>8, <1>9

LEMMA SetMainScreenInv == ASSUME IInv, NEW j \in Job, SetMainScreen(j) PROVE IInv'
<1> USE DEF IInv
<1>1. /\ job[j].pc = "var" /\ mainScreen' = Main(job[j].up) /\ Step(j, "look") /\ GoRest
      /\ UNCHANGED <<active, hidden, address, hdmi, states, events, up, v6, ready, raced, disturbed, over, left>>
  BY DEF SetMainScreen, At, JobRest, network
<1>2. /\ OnlyJob(j) /\ job'[j].pc = "look" /\ job'[j].kind = "update" /\ job[j].kind = "update"
      /\ job'[j].up = job[j].up
  BY <1>1, StepIsJobStep DEF JobsTyped, RebootPcs, JobPc, TypeOK
<1>3. mainScreen' \in MainScreens
  BY <1>1 DEF Main, MainScreens
<1>4. TypeOK'
  BY <1>1, <1>2, <1>3, AppTypes DEF TypeOK, OnlyJob, MainScreens, Screen
<1>5. HoldInv' /\ ResetInv' /\ FingerInv' /\ VersionInv'
  BY <1>1, FingerStays
<1>6. JobsTyped'
  BY <1>2 DEF JobsTyped, OnlyJob, UpdatePcs
<1>7. ApartInv'
  <2>1. j \in Working /\ ~Failed(j)
    BY <1>1 DEF Working, Failed
  <2> QED
    BY <1>1, <1>2, <2>1, ApartQuiet
<1>8. LabelInv' /\ HomeInv'
  BY <1>1, <1>2, LabelQuiet
<1>9. MainInv'
  <2>1. NoneAt(Fresh)' => NoneAt(Fresh)
    BY <1>1, <1>2 DEF NoneAt, Updates, OnlyJob, Fresh
  <2>2. ~NoneAt(UpdatePcs)'
    BY <1>2 DEF NoneAt, Updates, UpdatePcs
  <2>3. NoneAt(Fresh \cup {"var"})' => NoneAt(Fresh)'
    BY DEF NoneAt
  <2>4. \A i \in Job : job'[i].pc \in {"var", "look", "switch"} =>
          job[i].pc \in {"var", "look", "switch"} /\ job'[i].up = job[i].up
    BY <1>1, <1>2 DEF OnlyJob
  <2>5. ~raced /\ NoneAt(Fresh) => job[j].up = up
    BY <1>1 DEF MainInv
  <2> QED
    BY <1>1, <1>3, <2>1, <2>2, <2>3, <2>4, <2>5 DEF MainInv
<1>10. RebootInv'
  <2>1. Harmless(j)'
    BY <1>2 DEF Harmless, Failed
  <2> QED
    BY <1>1, <1>2, <2>1, RebootQuiet
<1> QED
  BY <1>4, <1>5, <1>6, <1>7, <1>8, <1>9, <1>10

(* A look at the screen while the reboot is announced leads nowhere.       *)
LEMMA LookInv == ASSUME IInv, NEW j \in Job, Look(j) PROVE IInv'
<1> USE DEF IInv
<1> DEFINE go == active # Main(job[j].up) /\ Leaves(j)
<1>1. /\ job[j].pc = "look" /\ (IF go THEN Step(j, "switch") ELSE Done(j)) /\ GoRest
      /\ UNCHANGED <<active, hidden, address, hdmi, states, mainScreen, events, up, v6, ready, raced, disturbed, over,
                     left>>
  BY DEF Look, At, JobRest, network
<1>2. /\ OnlyJob(j) /\ job[j].kind \in {"update", "event", "reboot"}
      /\ \/ go /\ job'[j].pc = "switch" /\ job'[j].kind = job[j].kind /\ job'[j].up = job[j].up
         \/ ~go /\ job'[j].pc = "idle" /\ job'[j].kind = "none"
  <2>1. job[j].kind \in {"update", "event", "reboot"}
    BY <1>1 DEF JobsTyped, TypeOK
  <2>2. CASE go
    BY <1>1, <2>1, <2>2, StepIsJobStep DEF JobPc
  <2>3. CASE ~go
    BY <1>1, <2>1, <2>3, DoneIsJobStep
  <2> QED
    BY <2>2, <2>3
<1>3. TypeOK'
  BY <1>1, <1>2, AppTypes DEF TypeOK, OnlyJob
<1>4. HoldInv' /\ ResetInv' /\ FingerInv' /\ VersionInv'
  BY <1>1, FingerStays
<1>5. JobsTyped'
  BY <1>2 DEF JobsTyped, OnlyJob, UpdatePcs, RebootPcs
<1>6. ApartInv'
  <2>1. j \in Working /\ ~Failed(j)
    BY <1>1 DEF Working, Failed
  <2> QED
    BY <1>1, <1>2, <2>1, ApartQuiet
<1>7. LabelInv' /\ HomeInv'
  <2>1. job'[j].kind = "update" => job'[j].pc \notin {"born", "visible", "hdmi", "checked"}
    BY <1>2
  <2> QED
    BY <1>1, <1>2, <2>1, LabelQuiet
<1>8. MainInv'
  <2>1. /\ NoneAt(Fresh)' => NoneAt(Fresh)
        /\ NoneAt(Fresh \cup {"var"})' => NoneAt(Fresh \cup {"var"})
    BY <1>1, <1>2 DEF NoneAt, Updates, OnlyJob, Fresh
  <2>2. \A i \in Job : job'[i].pc \in {"var", "look", "switch"} =>
          job[i].pc \in {"var", "look", "switch"} /\ job'[i].up = job[i].up
    BY <1>1, <1>2 DEF OnlyJob
  <2>3. NoneAt(UpdatePcs)' /\ ~raced => (active \in MainScreens => active = Main(up))
    <3>1. CASE job[j].kind # "update"
      <4>1. NoneAt(UpdatePcs)' => NoneAt(UpdatePcs)
        BY <1>2, <3>1 DEF NoneAt, Updates, OnlyJob
      <4> QED
        BY <4>1 DEF MainInv
    <3>2. CASE job[j].kind = "update"
      <4>1. NoneAt(UpdatePcs)' => ~go
        BY <1>2, <3>2 DEF NoneAt, Updates, UpdatePcs
      <4>2. NoneAt(UpdatePcs)' => NoneAt(Fresh)
        BY <2>1 DEF NoneAt, UpdatePcs
      <4>3. active \in MainScreens => Leaves(j)
        BY DEF MainScreens, Leaves
      <4>4. ~raced /\ NoneAt(Fresh) => job[j].up = up
        BY <1>1 DEF MainInv
      <4> QED
        BY <4>1, <4>2, <4>3, <4>4
    <3> QED
      BY <3>1, <3>2
  <2> QED
    BY <1>1, <2>1, <2>2, <2>3 DEF MainInv
<1>9. RebootInv'
  <2>1. CASE ~go
    <3>1. Harmless(j)' /\ job'[j].pc # "exec"
      BY <1>2, <2>1 DEF Harmless, Failed
    <3> QED
      BY <1>1, <1>2, <3>1, RebootQuiet
  <2>2. CASE go
    <3>1. ~raced /\ ~disturbed => \A k \in Job : job[k].pc # "exec"
      <4> SUFFICES ASSUME ~raced, ~disturbed, NEW k \in Job, job[k].pc = "exec" PROVE FALSE
        OBVIOUS
      <4>1. active = "rebooting_screen" /\ job[j].kind = "update"
        BY <1>1 DEF RebootInv
      <4> QED
        BY <2>2, <4>1 DEF Leaves
    <3>2. ~raced' /\ ~disturbed' => \A k \in Job : job'[k].pc # "exec"
      BY <1>1, <1>2, <2>2, <3>1 DEF OnlyJob
    <3> QED
      BY <3>2 DEF RebootInv
  <2> QED
    BY <2>1, <2>2
<1> QED
  BY <1>3, <1>4, <1>5, <1>6, <1>7, <1>8, <1>9

LEMMA SwitchMainInv == ASSUME IInv, NEW j \in Job, SwitchMain(j) PROVE IInv'
<1> USE DEF IInv
<1>1. /\ job[j].pc = "switch" /\ load_screen(Main(job[j].up)) /\ Done(j) /\ GoRest
      /\ UNCHANGED <<hidden, address, hdmi, states, mainScreen, events, up, v6, ready, raced, over, left>>
  BY DEF SwitchMain, At, JobRest, network
<1>2. /\ OnlyJob(j) /\ job[j].kind \in {"update", "event", "reboot"}
      /\ job'[j].pc = "idle" /\ job'[j].kind = "none"
  BY <1>1, DoneIsJobStep DEF JobsTyped, TypeOK
<1>3. Main(job[j].up) \in MainScreens
  BY DEF Main, MainScreens
<1>4. TypeOK'
  <2>1. active' \in Screen /\ disturbed' \in BOOLEAN
    BY <1>1, <1>3 DEF load_screen, MainScreens, Screen
  <2> QED
    BY <1>1, <1>2, <2>1, AppTypes DEF TypeOK, OnlyJob
<1>5. HoldInv' /\ ResetInv' /\ FingerInv' /\ VersionInv'
  BY <1>1, <1>3, FingerStays
<1>6. JobsTyped'
  BY <1>2 DEF JobsTyped, OnlyJob
<1>7. ApartInv'
  BY <1>1, <1>2, ApartQuiet
<1>8. LabelInv' /\ HomeInv'
  <2>1. job'[j].kind # "update"
    BY <1>2
  <2> QED
    BY <1>1, <1>2, <2>1, LabelQuiet
<1>9. MainInv'
  <2>1. /\ NoneAt(Fresh)' => NoneAt(Fresh)
        /\ NoneAt(Fresh \cup {"var"})' => NoneAt(Fresh \cup {"var"})
    BY <1>1, <1>2 DEF NoneAt, Updates, OnlyJob, Fresh
  <2>2. \A i \in Job : job'[i].pc \in {"var", "look", "switch"} =>
          job[i].pc \in {"var", "look", "switch"} /\ job'[i].up = job[i].up
    BY <1>1, <1>2 DEF OnlyJob
  <2>3. NoneAt(UpdatePcs)' /\ ~raced => active' = Main(up)
    <3>1. NoneAt(UpdatePcs)' => NoneAt(Fresh)
      BY <2>1 DEF NoneAt, UpdatePcs
    <3>2. ~raced /\ NoneAt(Fresh) => job[j].up = up
      BY <1>1 DEF MainInv
    <3> QED
      BY <1>1, <3>1, <3>2 DEF load_screen
  <2> QED
    BY <1>1, <2>1, <2>2, <2>3 DEF MainInv
<1>10. RebootInv'
  <2>1. disturbed => disturbed'
    BY <1>1 DEF load_screen
  <2>2. ~raced /\ ~disturbed => \A k \in Job : job[k].pc # "exec"
    BY <1>1 DEF RebootInv
  <2>3. ~raced' /\ ~disturbed' => \A k \in Job : job'[k].pc # "exec"
    BY <1>1, <1>2, <2>1, <2>2 DEF OnlyJob
  <2> QED
    BY <2>3 DEF RebootInv
<1> QED
  BY <1>4, <1>5, <1>6, <1>7, <1>8, <1>9, <1>10

(* A goroutine that is no update and is not about to load the main screen. *)
LEMMA MainQuiet ==
  ASSUME MainInv, NEW j, OnlyJob(j), UNCHANGED <<mainScreen, up>>, active' \in {active, "rebooting_screen"},
         raced => raced', job[j].kind # "update", job'[j].kind # "update", job'[j].pc \notin {"var", "look", "switch"}
  PROVE  MainInv'
<1>1. /\ NoneAt(Fresh)' => NoneAt(Fresh)
      /\ NoneAt(Fresh \cup {"var"})' => NoneAt(Fresh \cup {"var"})
      /\ NoneAt(UpdatePcs)' => NoneAt(UpdatePcs)
  BY DEF NoneAt, Updates, OnlyJob
<1>2. \A i \in Job : job'[i].pc \in {"var", "look", "switch"} => job'[i] = job[i]
  BY DEF OnlyJob
<1>3. active' \in MainScreens => active' = active
  BY DEF MainScreens
<1>4. mainScreen' \in MainScreens
  BY DEF MainInv
<1>5. ~raced' =>
        /\ NoneAt(Fresh)' => \A i \in Job : job'[i].pc \in {"var", "look", "switch"} => job'[i].up = up'
        /\ NoneAt(Fresh \cup {"var"})' => mainScreen' = Main(up')
        /\ NoneAt(UpdatePcs)' => (active' \in MainScreens => active' = Main(up'))
  BY <1>1, <1>2, <1>3 DEF MainInv
<1> QED
  BY <1>4, <1>5 DEF MainInv

LEMMA LookRebootInv == ASSUME IInv, NEW j \in Job, LookReboot(j) PROVE IInv'
<1> USE DEF IInv
<1> DEFINE p == IF active # "rebooting_screen" THEN "rebooting" ELSE "exec"
<1>1. /\ job[j].pc = "notified" /\ Race(j) /\ Step(j, p) /\ GoRest
      /\ UNCHANGED <<active, hidden, address, hdmi, states, mainScreen, events, up, v6, ready, disturbed, over, left>>
  BY DEF LookReboot, At, JobRest, network
<1>2. job[j].kind \in {"event", "reboot"}
  BY <1>1 DEF JobsTyped, TypeOK, UpdatePcs, Fresh
<1>3. p \in {"rebooting", "exec"} /\ (p = "exec" => active = "rebooting_screen")
  OBVIOUS
<1> HIDE DEF p
<1>4. OnlyJob(j) /\ job'[j].pc = p /\ job'[j].kind = job[j].kind
  BY <1>1, <1>3, StepIsJobStep DEF JobPc
<1>5. raced => raced'
  BY <1>1 DEF Race
<1>6. TypeOK'
  BY <1>1, <1>4, AppTypes DEF TypeOK, Race, OnlyJob
<1>7. HoldInv' /\ ResetInv' /\ FingerInv' /\ VersionInv'
  BY <1>1, FingerStays
<1>8. JobsTyped'
  BY <1>2, <1>3, <1>4 DEF JobsTyped, OnlyJob, RebootPcs
<1>9. ApartInv'
  BY <1>1, <1>4, ApartRace
<1>10. LabelInv' /\ HomeInv'
  BY <1>1, <1>2, <1>4, <1>5, LabelQuiet
<1>11. MainInv'
  BY <1>1, <1>2, <1>3, <1>4, <1>5, MainQuiet
<1>12. RebootInv'
  <2>1. CASE p = "rebooting"
    <3>1. Harmless(j)' /\ job'[j].pc # "exec"
      BY <1>4, <2>1 DEF Harmless, Failed
    <3> QED
      BY <1>1, <1>4, <1>5, <3>1, RebootQuiet
  <2>2. CASE p = "exec"
    BY <1>1, <1>3, <1>4, <2>2, RebootRace
  <2> QED
    BY <1>3, <2>1, <2>2
<1> QED
  BY <1>6, <1>7, <1>8, <1>9, <1>10, <1>11, <1>12

LEMMA SwitchRebootInv == ASSUME IInv, NEW j \in Job, SwitchReboot(j) PROVE IInv'
<1> USE DEF IInv
<1>1. /\ job[j].pc = "rebooting" /\ Race(j) /\ load_screen("rebooting_screen") /\ Step(j, "exec") /\ GoRest
      /\ UNCHANGED <<hidden, address, hdmi, states, mainScreen, events, up, v6, ready, over, left>>
  BY DEF SwitchReboot, At, JobRest, network
<1>2. job[j].kind \in {"event", "reboot"}
  BY <1>1 DEF JobsTyped, TypeOK, UpdatePcs, Fresh
<1>3. OnlyJob(j) /\ job'[j].pc = "exec" /\ job'[j].kind = job[j].kind
  BY <1>1, StepIsJobStep DEF JobPc
<1>4. (raced => raced') /\ active' = "rebooting_screen" /\ disturbed' \in BOOLEAN
  BY <1>1 DEF Race, load_screen
<1>5. TypeOK'
  BY <1>1, <1>3, <1>4, AppTypes DEF TypeOK, Race, OnlyJob, Screen
<1>6. HoldInv' /\ ResetInv' /\ FingerInv' /\ VersionInv'
  BY <1>1, FingerStays
<1>7. JobsTyped'
  BY <1>2, <1>3 DEF JobsTyped, OnlyJob, RebootPcs
<1>8. ApartInv'
  BY <1>1, <1>3, ApartRace
<1>9. LabelInv' /\ HomeInv'
  BY <1>1, <1>2, <1>3, <1>4, LabelQuiet
<1>10. MainInv'
  BY <1>1, <1>2, <1>3, <1>4, MainQuiet
<1>11. RebootInv'
  BY <1>1, <1>3, <1>4, RebootRace
<1> QED
  BY <1>5, <1>6, <1>7, <1>8, <1>9, <1>10, <1>11

LEMMA ExecInv == ASSUME IInv, NEW j \in Job, Exec(j) PROVE IInv'
<1> USE DEF IInv
<1>1. /\ job[j].pc = "exec" /\ GoRest
      /\ UNCHANGED <<active, hidden, address, hdmi, states, mainScreen, events, up, v6, ready, disturbed, left>>
  BY DEF Exec, At, JobRest, network
<1>2. HoldInv' /\ ResetInv' /\ FingerInv' /\ VersionInv'
  BY <1>1, FingerStays
<1>3. CASE over' = TRUE /\ UNCHANGED <<job, raced>>
  <2>1. TypeOK'
    BY <1>1, <1>3, AppTypes DEF TypeOK, JobState, JobPc
  <2>2. JobsTyped' /\ ApartInv' /\ LabelInv' /\ HomeInv' /\ MainInv' /\ RebootInv'
    BY <1>1, <1>3 DEF JobsTyped, ApartInv, Working, Failed, LabelInv, HomeInv, NoneAt, Updates, MainInv, RebootInv
  <2> QED
    BY <1>2, <2>1, <2>2
<1>4. CASE Step(j, "read") /\ UNCHANGED over /\ raced' = (raced \/ \E i \in Job \ {j} : job[i].pc = "exec")
  <2>1. job[j].kind \in {"event", "reboot"}
    BY <1>1 DEF JobsTyped, TypeOK, UpdatePcs, Fresh
  <2>2. OnlyJob(j) /\ job'[j].pc = "read" /\ job'[j].kind = job[j].kind
    BY <1>4, StepIsJobStep DEF JobPc
  <2>3. raced => raced'
    BY <1>4
  <2>4. TypeOK'
    BY <1>1, <1>4, <2>2, AppTypes DEF TypeOK, OnlyJob
  <2>5. JobsTyped'
    BY <2>1, <2>2 DEF JobsTyped, OnlyJob, RebootPcs
  <2>6. ApartInv'
    <3>1. Failed(j)'
      BY <2>1, <2>2 DEF Failed
    <3> QED
      BY <2>2, <2>3, <3>1, ApartQuiet
  <2>7. LabelInv' /\ HomeInv'
    BY <1>1, <2>1, <2>2, <2>3, LabelQuiet
  <2>8. MainInv'
    BY <1>1, <2>1, <2>2, <2>3, MainQuiet
  <2>9. RebootInv'
    BY <1>4, <2>2 DEF RebootInv, OnlyJob
  <2> QED
    BY <1>2, <2>4, <2>5, <2>6, <2>7, <2>8, <2>9
<1> QED
  BY <1>3, <1>4 DEF Exec

LEMMA ChangeInv == ASSUME IInv, Change PROVE IInv'
<1> USE DEF IInv
<1>1. /\ left > 0 /\ left' = left - 1 /\ Spawn("update", "born") /\ GoRest
      /\ up' \in BOOLEAN /\ v6' \in BOOLEAN /\ ready' \in BOOLEAN
      /\ UNCHANGED <<active, hidden, address, hdmi, states, mainScreen, events, raced, disturbed, over>>
  BY DEF Change, Spend, TypeOK
<1>2. PICK j \in Job : OnlyJob(j) /\ job[j].pc = "idle" /\ job'[j].pc = "born" /\ job'[j].kind = "update"
  BY <1>1, SpawnIsJobStep
<1>3. TypeOK'
  BY <1>1, <1>2, AppTypes, BoundAssumption DEF TypeOK, OnlyJob
<1>4. HoldInv' /\ ResetInv' /\ FingerInv' /\ VersionInv'
  BY <1>1, FingerStays
<1>5. JobsTyped'
  BY <1>2 DEF JobsTyped, OnlyJob, UpdatePcs, Fresh
<1>6. ApartInv'
  BY <1>1, <1>2, ApartQuiet
<1>7. LabelInv' /\ HomeInv' /\ MainInv'
  <2>1. /\ ~NoneAt({"born"})' /\ ~NoneAt({"born", "visible"})' /\ ~NoneAt({"born", "visible", "hdmi"})'
        /\ ~NoneAt({"born", "visible", "hdmi", "checked"})'
        /\ ~NoneAt(Fresh)' /\ ~NoneAt(Fresh \cup {"var"})' /\ ~NoneAt(UpdatePcs)'
    BY <1>2 DEF NoneAt, Updates, Fresh, UpdatePcs
  <2> QED
    BY <1>1, <2>1 DEF LabelInv, HomeInv, MainInv
<1>8. RebootInv'
  <2>1. Harmless(j)'
    BY <1>2 DEF Harmless, Failed
  <2> QED
    BY <1>1, <1>2, <2>1, RebootQuiet
<1> QED
  BY <1>3, <1>4, <1>5, <1>6, <1>7, <1>8

(* Two ways for a reboot to be asked for.                                  *)
LEMMA AskedInv ==
  ASSUME IInv, NEW k \in {"event", "reboot"}, Spawn(k, "notified"), GoRest, left' \in 0 .. MaxEvents,
         events' \in Seq(Hold),
         UNCHANGED <<active, hidden, address, hdmi, states, mainScreen, network, raced, disturbed, over>>
  PROVE  IInv'
<1> USE DEF IInv
<1>1. UNCHANGED <<up, v6, ready>>
  BY DEF network
<1>2. PICK j \in Job : OnlyJob(j) /\ job[j].pc = "idle" /\ job'[j].pc = "notified" /\ job'[j].kind = k
  BY SpawnIsJobStep
<1>3. job[j].kind = "none" /\ job'[j].kind # "update"
  BY <1>2 DEF JobsTyped
<1>4. TypeOK'
  BY <1>1, <1>2, AppTypes DEF TypeOK, OnlyJob
<1>5. HoldInv' /\ ResetInv' /\ FingerInv' /\ VersionInv'
  BY FingerStays
<1>6. JobsTyped'
  BY <1>2 DEF JobsTyped, OnlyJob, RebootPcs
<1>7. ApartInv'
  BY <1>2, ApartQuiet
<1>8. LabelInv' /\ HomeInv'
  BY <1>1, <1>2, <1>3, LabelQuiet
<1>9. MainInv'
  BY <1>1, <1>2, <1>3, MainQuiet
<1>10. RebootInv'
  <2>1. Harmless(j)'
    BY <1>2 DEF Harmless, Failed
  <2> QED
    BY <1>2, <2>1, RebootQuiet
<1> QED
  BY <1>4, <1>5, <1>6, <1>7, <1>8, <1>9, <1>10

LEMMA AskRebootInv == ASSUME IInv, AskReboot PROVE IInv'
<1>1. left' \in 0 .. MaxEvents /\ events' \in Seq(Hold)
  BY BoundAssumption DEF IInv, AskReboot, Spend, TypeOK
<1> QED
  BY <1>1, AskedInv DEF AskReboot

LEMMA RpcEventInv == ASSUME IInv, RpcEvent PROVE IInv'
<1>1. events \in Seq(Hold) /\ events # <<>> /\ events' = Tail(events)
  BY DEF IInv, RpcEvent, TypeOK
<1>2. events' \in Seq(Hold)
  BY <1>1
<1>3. left' \in 0 .. MaxEvents
  BY DEF IInv, RpcEvent, JobRest, TypeOK
<1>4. /\ GoRest
      /\ UNCHANGED <<active, hidden, address, hdmi, states, mainScreen, network, raced, disturbed, over>>
  BY DEF RpcEvent, JobRest
<1>5. CASE Spawn("event", "notified")
  BY <1>2, <1>3, <1>4, <1>5, AskedInv
<1>6. CASE UNCHANGED job
  <2>1. UNCHANGED <<up, v6, ready>>
    BY <1>4 DEF network
  <2>2. TypeOK'
    BY <1>2, <1>3, <1>4, <1>6, <2>1, AppTypes DEF IInv, TypeOK, JobState, JobPc
  <2>3. HoldInv' /\ ResetInv' /\ FingerInv' /\ VersionInv'
    BY <1>4, FingerStays DEF IInv
  <2>4. JobsTyped' /\ ApartInv' /\ RebootInv'
    BY <1>4, <1>6 DEF IInv, JobsTyped, ApartInv, RebootInv, Failed, Working
  <2>5. LabelInv' /\ HomeInv' /\ MainInv'
    BY <1>4, <1>6, <2>1 DEF IInv, LabelInv, HomeInv, MainInv, NoneAt, Updates
  <2> QED
    BY <2>2, <2>3, <2>4, <2>5 DEF IInv
<1> QED
  BY <1>5, <1>6 DEF RpcEvent

-----------------------------------------------------------------------------
(* The invariant, and what it says.                                        *)

LEMMA InitInv == Init => IInv
<1> SUFFICES ASSUME Init PROVE IInv
  OBVIOUS
<1>0. /\ finger = NoFinger
      /\ \A m \in Hold : lock[m] = FALSE /\ counting[m] = FALSE /\ asked[m] = 0
      /\ lock \in [Hold -> BOOLEAN] /\ completed \in [Hold -> BOOLEAN] /\ counting \in [Hold -> BOOLEAN]
      /\ lost \in [Hold -> BOOLEAN] /\ asked \in [Hold -> 0 .. 2]
      /\ events = <<>> /\ left = MaxEvents
      /\ v6 = FALSE /\ address = FALSE /\ ready = FALSE /\ hdmi = FALSE /\ states = {}
  <2>1. /\ lock = [m \in Hold |-> FALSE] /\ completed = [m \in Hold |-> FALSE]
        /\ counting = [m \in Hold |-> FALSE] /\ lost = [m \in Hold |-> FALSE] /\ asked = [m \in Hold |-> 0]
    BY DEF Init
  <2>2. finger = NoFinger /\ events = <<>> /\ left = MaxEvents
    BY DEF Init
  <2>3. v6 = FALSE /\ address = FALSE /\ ready = FALSE /\ hdmi = FALSE /\ states = {}
    BY DEF Init
  <2> QED
    BY <2>1, <2>2, <2>3
<1>1. HiddenAtFirst \subseteq Object
  <2>1. <<"home_info_ipv6_addr", "home_info_container">> \in Tree
    BY DEF Tree, HomeInfo, Under
  <2>2. /\ <<"menu_btn_advanced_developer_mode", "menu_items_container_1">> \in Tree
        /\ <<"menu_btn_advanced_usb_emulation", "menu_items_container_1">> \in Tree
    BY DEF Tree, AdvancedItems, Under
  <2>3. <<"cloud_account_id_container", "status_items_container">> \in Tree
    BY DEF Tree, StatusRows, Row
  <2>4. <<"reset_config_spinner", "reset_config_container">> \in Tree
    BY DEF Tree, ResetConfigHold, Under
  <2>5. <<"dhcp_client_spinner", "dhcp_client_container">> \in Tree
    BY DEF Tree, DhcpHold, Under
  <2> QED
    BY <2>1, <2>2, <2>3, <2>4, <2>5 DEF HiddenAtFirst, Object
<1>2. /\ hidden \subseteq Object /\ "home_info_ipv6_addr" \in hidden
      /\ hidden \cap {"home_info_container", "home_screen"} = {}
  BY <1>1 DEF Init, UIObjHide, add_flag, ui_get_obj, HiddenAtFirst, NoHandler
<1>3. /\ Idle \in JobState /\ Update \in JobState /\ Idle.kind = "none" /\ Idle.pc = "idle"
      /\ Update.kind = "update" /\ Update.pc = "born"
  BY DEF Idle, Update, JobState, JobPc
<1>4. /\ \A i \in Job : job[i] \in {Idle, Update}
      /\ job \in [Job -> JobState]
      /\ active = "boot_screen" => \E j \in Job : job[j] = Update
      /\ active # "boot_screen" => \A j \in Job : job[j] = Idle
  BY <1>3 DEF Init
<1> HIDE DEF Idle, Update
<1>5. \A j \in Job : \/ job[j].kind = "none" /\ job[j].pc = "idle"
                     \/ job[j].kind = "update" /\ job[j].pc = "born" /\ active = "boot_screen"
  BY <1>3, <1>4
<1>6. finger.on = "none" /\ finger.calls = 0 /\ finger \in [on : Touchable \cup {"none"}, time : 0 .. 3,
           wait : BOOLEAN, drag : BOOLEAN, swiped : BOOLEAN, calls : 0 .. 2]
  BY <1>0 DEF NoFinger
<1>7. HeldOn(finger.on) = {}
  BY <1>6, OneHold
<1>8. mainScreen \in MainScreens /\ (active # "boot_screen" => mainScreen = Main(up))
      /\ (active # "boot_screen" /\ active \in MainScreens => active = Main(up))
  BY DEF Init, Main, MainScreens
<1>9. TypeOK
  <2>1. shown \in [Labels -> Version]
    BY DEF Init, Version, Labels
  <2>3. events \in Seq(Hold) /\ left \in 0 .. MaxEvents
    BY <1>0, BoundAssumption
  <2>4. active \in Screen /\ current \in Screen /\ mainScreen \in Screen
    BY <1>8 DEF Init, MainScreens, Screen
  <2> QED
    BY <1>0, <1>2, <1>4, <1>6, <2>1, <2>3, <2>4 DEF Init, TypeOK, JobState, JobPc, Version
<1>10. JobsTyped
  BY <1>5 DEF JobsTyped, UpdatePcs, Fresh
<1>11. HoldInv
  BY <1>0, <1>6, <1>7 DEF HoldInv, LabelAtRest
<1>12. ResetInv
  <2>1. asked["resetConfig"] = 0
    BY <1>0, HoldScreens
  <2> QED
    BY <2>1 DEF ResetInv
<1>13. FingerInv
  BY <1>6, <1>7 DEF FingerInv
<1>14. VersionInv
  <2>1. /\ version = "whole" /\ lvgl = TRUE /\ current = active
        /\ shown = [l \in Labels |->
             IF l = "lvgl_version" \/ (l # "boot_screen_version" /\ active = "about_screen") THEN "whole" ELSE ""]
    BY DEF Init
  <2> QED
    BY <2>1 DEF VersionInv, Labels
<1>15. ApartInv
  BY <1>5 DEF ApartInv, Working
<1>16. CASE active = "boot_screen"
  <2>1. PICK j \in Updates : job[j].pc = "born"
    BY <1>3, <1>4, <1>16 DEF Updates
  <2>2. /\ ~NoneAt({"born"}) /\ ~NoneAt({"born", "visible"}) /\ ~NoneAt({"born", "visible", "hdmi"})
        /\ ~NoneAt({"born", "visible", "hdmi", "checked"})
        /\ ~NoneAt(Fresh) /\ ~NoneAt(Fresh \cup {"var"}) /\ ~NoneAt(UpdatePcs)
    BY <2>1 DEF NoneAt, Fresh, UpdatePcs
  <2>3. LabelInv /\ HomeInv /\ MainInv
    BY <1>2, <1>8, <2>2 DEF LabelInv, HomeInv, MainInv
  <2>4. RebootInv
    BY <1>5 DEF RebootInv
  <2> QED
    BY <1>9, <1>10, <1>11, <1>12, <1>13, <1>14, <1>15, <2>3, <2>4 DEF IInv
<1>17. CASE active # "boot_screen"
  <2>1. Updates = {}
    BY <1>5, <1>17 DEF Updates
  <2>2. LabelInv /\ HomeInv
    <3>2. \A i \in Updates : FALSE
      BY <2>1
    <3>3. ("home_info_ipv6_addr" \notin hidden) = v6 /\ ("LV_STATE_CHECKED" \in states) = ready
      <4>1. ("home_info_ipv6_addr" \notin hidden) = FALSE /\ ("LV_STATE_CHECKED" \in states) = FALSE
        BY <1>0, <1>2
      <4> QED
        BY <1>0, <4>1
    <3>4. LabelInv
      BY <1>0, <3>2, <3>3 DEF LabelInv
    <3> QED
      BY <1>2, <3>4 DEF HomeInv
  <2>3. MainInv
    BY <1>5, <1>8, <1>17 DEF MainInv
  <2>4. RebootInv
    BY <1>5 DEF RebootInv
  <2> QED
    BY <1>9, <1>10, <1>11, <1>12, <1>13, <1>14, <1>15, <2>2, <2>3, <2>4 DEF IInv
<1> QED
  BY <1>16, <1>17

LEMMA TouchInv ==
  ASSUME IInv, Touch
  PROVE  IInv' /\ \A m \in Hold : asked'[m] # asked[m] => active = Root(HoldButton[m]) \/ disturbed
<1>1. \/ \E o \in Touchable : Press(o)
      \/ Stay
      \/ \E d \in Direction : Gesture(d)
      \/ Drag \/ Lift \/ Tick
  BY DEF Touch
<1>2. TypeOK' /\ HoldInv' /\ ResetInv' /\ FingerInv' /\ VersionInv' /\ Touched
  BY <1>1, PressInv, StayInv, GestureInv, DragInv, LiftInv, TickInv
<1>3. Stay \/ asked' = asked
  BY <1>1 DEF Press, Gesture, Drag, Lift, Tick, Counts
<1>4. \A m \in Hold : asked'[m] # asked[m] => active = Root(HoldButton[m]) \/ disturbed
  BY <1>3, StayInv
<1> QED
  BY <1>2, <1>4, TouchedInv DEF IInv

LEMMA AppInv ==
  ASSUME IInv, Change \/ AskReboot \/ RpcEvent \/ \E j \in Job : Work(j)
  PROVE  IInv' /\ asked' = asked
<1>1. ASSUME NEW j \in Job, Work(j) PROVE IInv' /\ asked' = asked
  <2>1. \/ UpdateLabel(j) \/ UpdateVisible(j) \/ UpdateHdmi(j) \/ UpdateChecked(j) \/ ReadNetwork(j)
        \/ SetMainScreen(j) \/ Look(j) \/ SwitchMain(j) \/ LookReboot(j) \/ SwitchReboot(j) \/ Exec(j)
    BY <1>1 DEF Work
  <2>2. IInv'
    BY <2>1, UpdateLabelInv, UpdateVisibleInv, UpdateHdmiInv, UpdateCheckedInv, ReadNetworkInv, SetMainScreenInv,
       LookInv, SwitchMainInv, LookRebootInv, SwitchRebootInv, ExecInv
  <2>3. asked' = asked
    BY <2>1 DEF UpdateLabel, UpdateVisible, UpdateHdmi, UpdateChecked, ReadNetwork, SetMainScreen, Look, SwitchMain,
                LookReboot, SwitchReboot, Exec, JobRest, GoRest
  <2> QED
    BY <2>2, <2>3
<1>2. ASSUME Change \/ AskReboot \/ RpcEvent PROVE IInv' /\ asked' = asked
  <2>1. IInv'
    BY <1>2, ChangeInv, AskRebootInv, RpcEventInv
  <2>2. asked' = asked
    BY <1>2 DEF Change, AskReboot, RpcEvent, JobRest, GoRest
  <2> QED
    BY <2>1, <2>2
<1> QED
  BY <1>1, <1>2

LEMMA StepInv ==
  ASSUME IInv, [Next]_vars
  PROVE  IInv' /\ \A m \in Hold : asked'[m] # asked[m] => active = Root(HoldButton[m]) \/ disturbed
<1>1. CASE Touch
  BY <1>1, TouchInv
<1>2. CASE Change \/ AskReboot \/ RpcEvent \/ \E j \in Job : Work(j)
  BY <1>2, AppInv
<1>3. CASE UNCHANGED vars
  <2>1. UNCHANGED <<finger, lock, completed, counting, lost, active, current, version, lvgl, shown, hidden, asked, left,
                    address, hdmi, states, mainScreen, events, job, up, v6, ready, raced, disturbed, over>>
    BY <1>3 DEF vars, touchVars, screenVars, labelVars, goVars, network
  <2> QED
    BY <2>1 DEF IInv, TypeOK, JobsTyped, HoldInv, LabelAtRest, HeldOn, ResetInv, FingerInv, VersionInv, ApartInv, Working,
                Failed, LabelInv, HomeInv, MainInv, NoneAt, Updates, RebootInv
<1> QED
  BY <1>1, <1>2, <1>3 DEF Next

LEMMA InvHolds == Spec => []IInv
<1>1. IInv /\ [Next]_vars => IInv'
  BY StepInv
<1> QED
  BY InitInv, <1>1, PTL DEF Spec

(* HoldsAct, of the hold actions of actions.c: one call per press, the     *)
(* configuration reset once at most, no hold ignored but after a press     *)
(* lost to a swipe, and labels that come to rest.                          *)
THEOREM HoldsActAlways == Spec => []HoldsAct
<1>1. IInv => HoldsAct
  BY DEF IInv, HoldsAct, HoldInv, ResetInv, OneCallPerPress, ResetOnce, HoldIsHonoured
<1> QED
  BY InvHolds, <1>1, PTL

(* DisplayTells, of ui.c, ctrl.c and display.go: the versions are those    *)
(* set, and without races the last update leaves the main screen and the   *)
(* labels as things are, and a reboot stays announced.                     *)
THEOREM DisplayAlwaysTells == Spec => []DisplayTells
<1>1. ASSUME IInv PROVE VersionsShown
  BY <1>1 DEF IInv, VersionInv, VersionsShown
<1>2. Settled => \A pcs : NoneAt(pcs)
  BY DEF Settled, NoneAt, Updates
<1>3. ASSUME IInv PROVE MainScreenFollows
  <2>1. Settled => NoneAt(UpdatePcs) /\ NoneAt(Fresh \cup {"var"})
    BY <1>2
  <2> QED
    BY <1>3, <2>1 DEF IInv, MainInv, MainScreenFollows
<1>4. ASSUME IInv PROVE LabelsFollow
  <2>1. Settled => NoneAt({"born"}) /\ NoneAt({"born", "visible"}) /\ NoneAt({"born", "visible", "hdmi"})
                   /\ NoneAt({"born", "visible", "hdmi", "checked"})
    BY <1>2
  <2>2. Visible("home_info_ipv6_addr") = ("home_info_ipv6_addr" \notin hidden)
    BY <1>4, AncestorsOf DEF IInv, HomeInv, Visible
  <2> QED
    BY <1>4, <2>1, <2>2 DEF IInv, LabelInv, LabelsFollow
<1>5. ASSUME IInv PROVE RebootingStays
  BY <1>5 DEF IInv, RebootInv, RebootingStays
<1>6. IInv => DisplayTells
  BY <1>1, <1>3, <1>4, <1>5 DEF DisplayTells
<1> QED
  BY InvHolds, <1>6, PTL

(* CallsAreSeen: no call of a button is made while another screen is shown,*)
(* unless the application put it there under the finger.                   *)
THEOREM CallsAreAlwaysSeen == Spec => CallsAreSeen
<1>1. IInv /\ [Next]_vars => [\A m \in Hold : asked'[m] # asked[m] => active = Root(HoldButton[m]) \/ disturbed]_vars
  BY StepInv
<1> QED
  BY InvHolds, <1>1, PTL DEF Spec, CallsAreSeen
=============================================================================
