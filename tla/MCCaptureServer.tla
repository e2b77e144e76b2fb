--------------------------- MODULE MCCaptureServer ---------------------------
(* Three clients of the debugging program, and a bound on what happens. *)
EXTENDS CaptureServer
CONSTANTS c1, c2, c3
=============================================================================
