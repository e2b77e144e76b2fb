------------------------------- MODULE Screens -------------------------------
(***************************************************************************)
(* The screens of the built-in display as screens.c builds them: a tree of *)
(* objects per screen, which of them are labels, which are hidden at first *)
(* and what a touch on them does.  Position, size, style and the anonymous *)
(* containers that only lay things out are left out; the anonymous back    *)
(* buttons are named after their screen's header.                          *)
(***************************************************************************)
EXTENDS Naturals

Screen == {"boot_screen", "no_network_screen", "home_screen", "menu_screen",
           "menu_advanced_screen", "menu_network_screen", "about_screen", "status_screen",
           "reset_config_screen", "reboot_screen", "rebooting_screen",
           "switch_dhcp_client_screen"}

Under(parent, children) == {<<c, parent>> : c \in children}

-----------------------------------------------------------------------------
(* The trees, as <<child, parent>>.                                        *)

BootScreen == Under("boot_screen", {"boot_logo", "boot_screen_version"})

NoNetworkScreen ==
    Under("no_network_screen", {"no_network_header_container", "no_network_content_container"})
    \cup Under("no_network_header_container", {"no_network_header_logo"})
    \cup Under("no_network_content_container", {"no_network_title", "home_info_ipv6_addr_1"})

HomeHeader ==
    Under("home_screen", {"home_header_container"})
    \cup Under("home_header_container",
               {"home_header_logo", "cloud_status_icon", "cloud_status_label"})

HomeInfo ==
    Under("home_screen", {"home_info_container", "divider"})
    \cup Under("home_info_container",
               {"home_info_ipv4_addr", "home_info_ipv6_addr", "home_info_mac_addr"})

HomeStatus ==
    Under("home_screen", {"home_status_container"})
    \cup Under("home_status_container", {"usb_status", "hdmi_status"})
    \cup Under("usb_status", {"usb_indicator", "usb_status_label"})
    \cup Under("hdmi_status", {"hdmi_indicator", "hdmi_status_label"})

MenuHeader ==
    Under("menu_screen", {"menu_header_container"})
    \cup Under("menu_header_container", {"menu_back"})

MenuItems ==
    Under("menu_screen", {"menu_items_container"})
    \cup Under("menu_items_container",
               {"menu_btn_status", "menu_btn_network", "menu_btn_access", "menu_btn_advanced",
                "menu_btn_about"})

AdvancedHeader ==
    Under("menu_advanced_screen", {"menu_header_container_1"})
    \cup Under("menu_header_container_1", {"menu_advanced_back"})

AdvancedItems ==
    Under("menu_advanced_screen", {"menu_items_container_1"})
    \cup Under("menu_items_container_1",
               {"menu_btn_advanced_developer_mode", "menu_btn_advanced_usb_emulation",
                "menu_btn_advanced_reboot", "menu_btn_dhcp_client",
                "menu_btn_advanced_reset_config"})

NetworkHeader ==
    Under("menu_network_screen", {"menu_header_container_2"})
    \cup Under("menu_header_container_2", {"menu_network_back"})

NetworkItems ==
    Under("menu_network_screen", {"menu_items_container_2"})
    \cup Under("menu_items_container_2",
               {"menu_btn_network_ipv4", "menu_btn_network_ipv6", "menu_btn_network_lldp"})

AboutHeader ==
    Under("about_screen", {"about_header_container", "about_items_container"})
    \cup Under("about_header_container", {"about_back"})

\* A row of the About and Status screens: a container with a label that tells a value.
Row(parent, container, value) == {<<container, parent>>, <<value, container>>}

AboutVersions ==
    Row("about_items_container", "system_version_container", "system_version")
    \cup Row("about_items_container", "app_version_container", "app_version")

AboutBuild ==
    Row("about_items_container", "build_branch_container", "build_branch")
    \cup Row("about_items_container", "build_date_container", "build_date")
    \cup Row("about_items_container", "golang_version_container", "golang_version")

AboutPlatform ==
    Row("about_items_container", "lvgl_version_container", "lvgl_version")
    \cup Row("about_items_container", "kernel_version_container", "kernel_version")
    \cup Row("about_items_container", "cpu_serial_container", "cpu_serial")

StatusHeader ==
    Under("status_screen", {"status_header_container", "status_items_container"})
    \cup Under("status_header_container", {"status_back"})

StatusRows ==
    Row("status_items_container", "device_id_container", "device_id")
    \cup Row("status_items_container", "cloud_account_id_container", "app_version_1")
    \cup Row("status_items_container", "cloud_domain_container", "cloud_domain")

ResetConfigHeader ==
    Under("reset_config_screen", {"reset_config_header"})
    \cup Under("reset_config_header", {"reset_config_back"})

ResetConfigHold ==
    Under("reset_config_screen", {"reset_config_container"})
    \cup Under("reset_config_container",
               {"reset_config_label_container", "reset_config_spinner", "reset_config_button"})
    \cup Under("reset_config_label_container", {"reset_config_label"})
    \cup Under("reset_config_button", {"obj0"})

RebootHeader ==
    Under("reboot_screen", {"reboot_header"}) \cup Under("reboot_header", {"reboot_back"})

RebootHold ==
    Under("reboot_screen", {"reboot_container"})
    \cup Under("reboot_container", {"reboot_label_container", "reboot_config_button"})
    \cup Under("reboot_label_container", {"reboot_label"})
    \cup Under("reboot_config_button", {"obj1"})

RebootingScreen ==
    Under("rebooting_screen", {"reboot_in_progress_logo", "reboot_in_progress_label"})

DhcpHeader ==
    Under("switch_dhcp_client_screen", {"dhcp_client_header"})
    \cup Under("dhcp_client_header", {"dhcp_client_back"})

DhcpHold ==
    Under("switch_dhcp_client_screen", {"dhcp_client_container"})
    \cup Under("dhcp_client_container",
               {"dhcp_client_label_container", "dhcp_client_spinner", "dhcp_client_button"})
    \cup Under("dhcp_client_label_container", {"dhcpc_label"})
    \cup Under("dhcp_client_button", {"obj2"})
    \cup Under("obj2", {"dhcp_client_change_label"})

Tree == BootScreen \cup NoNetworkScreen \cup HomeHeader \cup HomeInfo \cup HomeStatus
        \cup MenuHeader \cup MenuItems \cup AdvancedHeader \cup AdvancedItems
        \cup NetworkHeader \cup NetworkItems
        \cup AboutHeader \cup AboutVersions \cup AboutBuild \cup AboutPlatform
        \cup StatusHeader \cup StatusRows \cup ResetConfigHeader \cup ResetConfigHold
        \cup RebootHeader \cup RebootHold \cup RebootingScreen \cup DhcpHeader \cup DhcpHold

Object == Screen \cup {e[1] : e \in Tree}

\* A set of objects and what they are in; the deepest object is four levels below its screen.
Above(s) == s \cup {e[2] : e \in {t \in Tree : t[1] \in s}}
Ancestors(o) == Above(Above(Above(Above({o}))))

Root(o) == CHOOSE s \in Ancestors(o) : s \in Screen

-----------------------------------------------------------------------------
(* What a touch does.                                                      *)

\* Objects that are hidden when the screens have been built.
HiddenAtFirst == {"home_info_ipv6_addr", "menu_btn_advanced_developer_mode",
                  "menu_btn_advanced_usb_emulation", "cloud_account_id_container",
                  "reset_config_spinner", "dhcp_client_spinner"}

\* The buttons that load a screen, by the event that makes them; "main" is the screen that the
\* main_screen variable names.
Load == {<<"home_screen", "LONG_PRESSED", "menu_screen">>,
         <<"no_network_screen", "LONG_PRESSED", "menu_screen">>,
         <<"menu_back", "PRESSED", "main">>,
         <<"menu_btn_status", "CLICKED", "status_screen">>,
         <<"menu_btn_advanced", "CLICKED", "menu_advanced_screen">>,
         <<"menu_btn_about", "CLICKED", "about_screen">>,
         <<"menu_advanced_back", "CLICKED", "menu_screen">>,
         <<"menu_btn_advanced_reboot", "PRESSED", "reboot_screen">>,
         <<"menu_btn_dhcp_client", "PRESSED", "switch_dhcp_client_screen">>,
         <<"menu_btn_advanced_reset_config", "PRESSED", "reset_config_screen">>,
         <<"menu_network_back", "CLICKED", "menu_screen">>,
         <<"about_back", "CLICKED", "menu_screen">>,
         <<"status_back", "CLICKED", "menu_screen">>,
         <<"reset_config_back", "CLICKED", "menu_screen">>,
         <<"reboot_back", "CLICKED", "menu_screen">>,
         <<"dhcp_client_back", "CLICKED", "menu_screen">>}

\* Where a gesture leads that its screen's handler waits for: direction and screen.  The menu's own
\* handler takes any direction and leads to the main screen.
Direction == {"left", "right", "other"}
Swipe == {<<"home_screen", "left", "menu_screen">>, <<"no_network_screen", "left", "menu_screen">>}
         \cup {<<s, "right", "menu_screen">> :
                  s \in {"menu_advanced_screen", "menu_network_screen", "about_screen",
                         "status_screen", "reset_config_screen", "reboot_screen",
                         "switch_dhcp_client_screen"}}

\* The buttons one has to hold, the name of the call each makes, and its label.
HoldButton == [resetConfig |-> "obj0", reboot |-> "obj1", toggleDHCPClient |-> "obj2"]
Hold == DOMAIN HoldButton

\* What can be touched to any effect: these buttons, and a screen outside them.
Touchable == Screen \cup {h[1] : h \in Load} \cup {HoldButton[m] : m \in Hold}

=============================================================================
