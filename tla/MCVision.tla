----------------------------- MODULE MCVision ------------------------------
(***************************************************************************)
(* An instance of Vision: two clients of the pipeline, two buffers.        *)
(***************************************************************************)
EXTENDS Vision

MCInit == Init /\ vpLdch = [enabled |-> TRUE, level |-> 1]
MCSpec == MCInit /\ [][Next]_vars /\ Fairness
=============================================================================
