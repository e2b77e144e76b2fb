---------------------------- MODULE MCHungarian -----------------------------
(* An instance of Hungarian for the case in which the solver hangs.         *)
EXTENDS Hungarian

\* Enough for two detections that want the same one of three tracks.
Two == {0, 2}
=============================================================================
