--------------------------- MODULE MCRoomSensing ----------------------------
(* An instance of RoomSensing in which tracks get old: two frames of one    *)
(* target.                                                                  *)
EXTENDS RoomSensing
=============================================================================
