----------------------------- MODULE MCSessions -----------------------------
(***************************************************************************)
(* Instances of Sessions: three sessions, so that a third can come while   *)
(* one takes over from another, and two handlers that race.  No symmetry:  *)
(* the run has a liveness property.                                        *)
(***************************************************************************)
EXTENDS Sessions
=============================================================================
