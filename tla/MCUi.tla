-------------------------------- MODULE MCUi --------------------------------
(***************************************************************************)
(* An instance of Ui: two goroutines, two presses from any of the screens  *)
(* where they matter.                                                      *)
(***************************************************************************)
EXTENDS Ui, TLC

Perms == Permutations(Job)
MCInit ==
    /\ Init
    /\ active \in {"boot_screen", "home_screen", "reboot_screen", "reset_config_screen",
                   "switch_dhcp_client_screen"}
    /\ up = TRUE
MCSpec == MCInit /\ [][Next]_vars
=============================================================================
