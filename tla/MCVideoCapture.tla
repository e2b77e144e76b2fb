--------------------------- MODULE MCVideoCapture ---------------------------
(***************************************************************************)
(* Instances of VideoCapture: two signals, two quality factors, two stream *)
(* threads, so that one can be orphaned and another started.               *)
(***************************************************************************)
EXTENDS VideoCapture

MCMode == {<<1, 1>>, <<2, 2>>}

\* The cable is unplugged at boot.
MCInit == Init /\ hdmi = NoSignal /\ quality = 1
MCSpec == MCInit /\ [][Next]_vars /\ Fairness
=============================================================================
