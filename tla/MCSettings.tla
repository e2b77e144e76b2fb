----------------------------- MODULE MCSettings -----------------------------
(***************************************************************************)
(* An instance of Settings: two handlers; a rotation of each kind, one     *)
(* LVGL does not know, and a quality out of range.  The device starts with *)
(* the configuration it is shipped with.                                   *)
(***************************************************************************)
EXTENDS Settings, TLC

Perms == Permutations(Handler)
MCInit == Init /\ disk = Default
MCSpec == MCInit /\ [][Next]_vars
=============================================================================
