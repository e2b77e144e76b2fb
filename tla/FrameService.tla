---------------------------- MODULE FrameService ----------------------------
(***************************************************************************)
(* What the camera pipeline promises: it is opened, serves frames and is   *)
(* closed; a frame is given out only while it serves, one at a time, and   *)
(* it neither stops serving nor closes while a frame is out.               *)
(***************************************************************************)
VARIABLES phase,   \* "down", "ready" or "serving"
          frame    \* a frame is out

vars == <<phase, frame>>

Init == phase = "down" /\ frame = FALSE

Move(a, b) == phase = a /\ phase' = b

Open == Move("down", "ready") /\ UNCHANGED frame
Serve == Move("ready", "serving") /\ UNCHANGED frame
Give == phase = "serving" /\ ~frame /\ frame' = TRUE /\ UNCHANGED phase
TakeBack == frame /\ frame' = FALSE /\ UNCHANGED phase
Stop == ~frame /\ Move("serving", "ready") /\ UNCHANGED frame
Close == ~frame /\ Move("ready", "down") /\ UNCHANGED frame

Next == Open \/ Serve \/ Give \/ TakeBack \/ Stop \/ Close

Spec == Init /\ [][Next]_vars
=============================================================================
