------------------------------ MODULE MCFusion ------------------------------
(***************************************************************************)
(* Instances of the fusion's two machines.  RoomSensing takes two frames,  *)
(* of up to three targets each: the first can leave enough tracks for the  *)
(* solver to hang on the second.  Hungarian takes three detections and     *)
(* three tracks at most, the targets an LD2450 radar reports, with the     *)
(* association angle of the code and a no-match cost above any sum of      *)
(* angles, as 1e6 is.  Fuse and Hang stand for what the solver does, so    *)
(* the run explores the sum of the two machines, not their product: in     *)
(* each behaviour one of them runs and the other has ended.                *)
(***************************************************************************)
EXTENDS RoomSensing, Hungarian

\* Three near each other across the rear, two of them at the limit, and one near nothing.
Azimuths == {-178, 175, 167, 0}

\* An assignment of one detection to the one track it is at.
Solved ==
    /\ vision = <<0>> /\ radar = <<0>>
    /\ matrix = <<<<0>>>> /\ rowAssignment = <<1>> /\ done = TRUE

RoomEmpty ==
    /\ main = "stopped"
    /\ reader = "done" /\ frameCh = <<>> /\ manager = FALSE
    /\ input = [s \in Sensors |-> <<>>]
    /\ engine = "done" /\ batch = Nothing
    /\ tracks = <<>> /\ nextTrackID = 1
    /\ world = "done" /\ occupants = <<>>
    /\ delivered = 0

MCInit == (Init /\ Solved) \/ (SolverInit /\ RoomEmpty)
MCNext == (Next /\ UNCHANGED solverVars) \/ (SolverNext /\ UNCHANGED vars)
MCSpec ==
    /\ MCInit /\ [][MCNext]_<<vars, solverVars>>
    /\ Fairness /\ WF_solverVars(SolverNext)
=============================================================================
