---------------------------- MODULE RoomSensing -----------------------------
(***************************************************************************)
(* The room sensing of the RS-1 product: the LD2450 reader, the radar      *)
(* manager, the fusion engine and the world state, each a goroutine, from  *)
(* their start to RS1Product.Stop.  A frame is the number of its targets;  *)
(* positions are left out, so a detection may be associated with any track *)
(* (Hungarian has the association itself).  Time is counted in ticks of    *)
(* the engine's ticker.                                                    *)
(***************************************************************************)
EXTENDS Integers, FiniteSets, Sequences

CONSTANTS MaxTargets,      \* targets of a frame, maxTargets in the code
          Capacity,        \* of each channel, 10 in the code
          MissedAge,       \* 200 ms: an older track misses a frame
          MaxMissed,       \* maxMissed
          Timeout,         \* timeoutDuration, in ticks
          MaxFrames        \* bound: the frames delivered to the program

ASSUME SensingAssumption ==
    /\ MaxTargets \in Nat \ {0} /\ Capacity \in Nat \ {0}
    /\ MissedAge \in Nat /\ MaxMissed \in Nat \ {0}
    /\ Timeout \in Nat /\ Timeout > MissedAge
    /\ MaxFrames \in Nat

Sensors == {"camera", "radar"}

VARIABLES
    main,       \* what RS1Product.Stop stops next, once it is called
    reader,     \* where LD2450.readLoop is
    frameCh,    \* frames parsed, not yet seen by the manager
    manager,    \* RadarManager.processFrames runs
    input,      \* cameraInputCh and radarInputCh
    engine,     \* where Engine.processLoop is; from "solving" it holds e.mu
    batch,      \* the detections it is solving for, and their sensor
    tracks,     \* e.tracks: the sensors whose confidence is
                \* positive, the label, the filter's age and missed frames
    nextTrackID,
    world,      \* where WorldState.updateLoop is; "updating" holds w.mu
    occupants,  \* the tracks of the last update, with their labels
    delivered   \* frames delivered so far

sensing == <<reader, frameCh, manager>>
engineVars == <<engine, batch, tracks, nextTrackID>>
worldVars == <<world, occupants>>
vars == <<main, sensing, input, engineVars, worldVars, delivered>>

Nothing == [sensor |-> "none", size |-> 0]

(* createTrack and NewKalmanFilter; age is the time since lastUpdate. *)
NewTrack(s) == [seen |-> {s}, source |-> s, age |-> 0, missed |-> 0]

Init ==
    /\ main = "running"
    /\ reader = "check" /\ frameCh = <<>> /\ manager = TRUE
    /\ input = [s \in Sensors |-> <<>>]
    /\ engine = "idle" /\ batch = Nothing
    /\ tracks = <<>> /\ nextTrackID = 1
    /\ world = "idle" /\ occupants = <<>>
    /\ delivered = 0

Alive == main \notin {"stopped", "crashed"}

(* Stop closes the channel a loop looks at. *)
StopOrder == <<"running", "world", "fusion", "radar", "exit", "stopped">>
Stopped(part) ==
    \E i, j \in DOMAIN StopOrder : i < j /\ StopOrder[i] = part /\ StopOrder[j] = main
----------------------------------------------------------------------------
(* LD2450.readLoop.                                                        *)

ReaderChecks ==
    /\ Alive /\ reader = "check"
    /\ reader' = IF Stopped("radar") THEN "done" ELSE "load"
    /\ UNCHANGED <<main, frameCh, manager, input, engineVars, worldVars, delivered>>

(* r.port is read without r.mu: Stop may have made it nil by now, and the  *)
(* call panics.                                                            *)
ReaderLoads ==
    /\ Alive /\ reader = "load"
    /\ reader' = "reading"
    /\ main' = IF Stopped("radar") THEN "crashed" ELSE main
    /\ UNCHANGED <<frameCh, manager, input, engineVars, worldVars, delivered>>

(* parseData: a frame is dropped when nobody takes the earlier ones.  One  *)
(* that is cut off by the end of the buffer, or has no valid target, is as *)
(* good as never delivered.                                                *)
ReaderParses ==
    /\ Alive /\ reader = "reading" /\ delivered < MaxFrames
    /\ delivered' = delivered + 1
    /\ \E targets \in 1 .. MaxTargets :
          frameCh' = IF Len(frameCh) < Capacity THEN Append(frameCh, targets) ELSE frameCh
    /\ reader' = "check"
    /\ UNCHANGED <<main, manager, input, engineVars, worldVars>>

(* A read error: of the line, or because Stop closed the port. *)
ReaderFails ==
    /\ Alive /\ reader = "reading"
    /\ reader' = "check"
    /\ UNCHANGED <<main, frameCh, manager, input, engineVars, worldVars, delivered>>
----------------------------------------------------------------------------
(* RadarManager.processFrames, and what reaches the engine's channels.     *)

(* A wrong version of the next definition, for a mutation run. *)
Submit_NoDrop(s, size) == input' = [input EXCEPT ![s] = Append(@, size)]

Submit(s, size) ==
    input' = IF Len(input[s]) < Capacity THEN [input EXCEPT ![s] = Append(@, size)] ELSE input

(* A frame without targets in range is not submitted.  *)
ManagerHandles ==
    /\ Alive /\ manager /\ frameCh # <<>>
    /\ frameCh' = Tail(frameCh)
    /\ \E inRange \in 0 .. Head(frameCh) :
          IF inRange = 0 THEN UNCHANGED input ELSE Submit("radar", inRange)
    /\ UNCHANGED <<main, reader, manager, engineVars, worldVars, delivered>>

ManagerReturns ==
    /\ Alive /\ manager /\ Stopped("radar")
    /\ manager' = FALSE
    /\ UNCHANGED <<main, reader, frameCh, input, engineVars, worldVars, delivered>>

(* SubmitCameraDetections, of the engine's interface; an empty list would  *)
(* change nothing.                                                         *)
CameraSubmits ==
    /\ Alive /\ delivered < MaxFrames
    /\ delivered' = delivered + 1
    /\ \E size \in 1 .. MaxTargets : Submit("camera", size)
    /\ UNCHANGED <<main, sensing, engineVars, worldVars>>
----------------------------------------------------------------------------
(* Engine.processLoop.                                                     *)

Ids == DOMAIN tracks

(* A wrong version of the next definition, for a mutation run. *)
Take_OneAtATime(s) ==
    /\ Alive /\ engine = "idle" /\ input[s] # <<>>
    /\ \A t \in Sensors \ {s} : input[t] = <<>>
    /\ input' = [input EXCEPT ![s] = Tail(@)]
    /\ batch' = [sensor |-> s, size |-> Head(input[s])]
    /\ engine' = "solving"
    /\ UNCHANGED <<main, sensing, tracks, nextTrackID, worldVars, delivered>>

Take(s) ==
    /\ Alive /\ engine = "idle" /\ input[s] # <<>>
    /\ input' = [input EXCEPT ![s] = Tail(@)]
    /\ batch' = [sensor |-> s, size |-> Head(input[s])]
    /\ engine' = "solving"
    /\ UNCHANGED <<main, sensing, tracks, nextTrackID, worldVars, delivered>>

(* A wrong version of the next definition, for a mutation run. *)
Matched_KeepsLabel(track, s) ==
    [track EXCEPT !.seen = @ \cup {s}, !.age = 0, !.missed = 0]

(* Predict, then Update, then the labels. *)
Matched(track, s) ==
    [seen |-> track.seen \cup {s},
     source |-> IF track.seen \subseteq {s} THEN s ELSE "fusion",
     age |-> 0, missed |-> 0]

(* Some of the detections update a track each, each of the others makes a  *)
(* new one.                                                                *)
Fuse ==
    /\ Alive /\ engine = "solving"
    /\ \E matched \in SUBSET Ids :
          /\ Cardinality(matched) <= batch.size
          /\ LET created == batch.size - Cardinality(matched)
                 fresh == nextTrackID .. nextTrackID + created - 1
             IN  /\ tracks' = [id \in Ids \cup fresh |->
                                  IF id \in fresh THEN NewTrack(batch.sensor)
                                  ELSE IF id \in matched THEN Matched(tracks[id], batch.sensor)
                                  ELSE tracks[id]]
                 /\ nextTrackID' = nextTrackID + created
    /\ engine' = "idle" /\ batch' = Nothing
    /\ UNCHANGED <<main, sensing, input, worldVars, delivered>>

(* hungarianSolve may never return from a matrix of three rows or more. *)
Hang ==
    /\ Alive /\ engine = "solving"
    /\ Ids # {}
    /\ batch.size > 2 \/ Cardinality(Ids) > 2
    /\ engine' = "hung"
    /\ UNCHANGED <<main, sensing, input, batch, tracks, nextTrackID, worldVars, delivered>>

(* KalmanFilter.Predict makes this moment the filter's last update. *)
Predicted(track) == [track EXCEPT !.age = 0]

Aged(track) ==
    LET now == Predicted(track)
    IN  IF now.age > MissedAge THEN [now EXCEPT !.missed = @ + 1] ELSE now

Deleted(track) == track.missed >= MaxMissed \/ track.age > Timeout

(* predictAndCleanup; what emitOutput sends is received by nobody.  The    *)
(* confidences decay, but never reach the zero that stands for a sensor    *)
(* that did not see the track.                                             *)
Tick ==
    /\ Alive /\ engine = "idle"
    /\ LET aged == [id \in Ids |-> Aged(tracks[id])]
       IN  tracks' = [id \in {i \in Ids : ~Deleted(aged[i])} |-> aged[id]]
    /\ UNCHANGED <<main, sensing, input, engine, batch, nextTrackID, worldVars, delivered>>

EngineReturns ==
    /\ Alive /\ engine = "idle" /\ Stopped("fusion")
    /\ engine' = "done"
    /\ UNCHANGED <<main, sensing, input, batch, tracks, nextTrackID, worldVars, delivered>>

(* A tick of time; ages above the timeout are all the same. *)
Elapse ==
    /\ Alive
    /\ tracks' = [id \in Ids |->
                     [tracks[id] EXCEPT !.age = IF @ > Timeout THEN @ ELSE @ + 1]]
    /\ UNCHANGED <<main, sensing, input, engine, batch, nextTrackID, worldVars, delivered>>
----------------------------------------------------------------------------
(* WorldState.updateLoop: update takes w.mu, and then waits for e.mu.      *)

UpdateBegins ==
    /\ Alive /\ world = "idle"
    /\ world' = "updating"
    /\ UNCHANGED <<main, sensing, input, engineVars, occupants, delivered>>

(* A wrong version of the next definition, for a mutation run. *)
UpdateEnds_KeepsLock ==
    /\ Alive /\ world = "updating" /\ engine \in {"idle", "done"}
    /\ occupants' = [id \in Ids |-> tracks[id].source]
    /\ UNCHANGED <<main, sensing, input, engineVars, world, delivered>>

UpdateEnds ==
    /\ Alive /\ world = "updating" /\ engine \in {"idle", "done"}
    /\ world' = "idle"
    /\ occupants' = [id \in Ids |-> tracks[id].source]
    /\ UNCHANGED <<main, sensing, input, engineVars, delivered>>

WorldReturns ==
    /\ Alive /\ world = "idle" /\ Stopped("world")
    /\ world' = "done"
    /\ UNCHANGED <<main, sensing, input, engineVars, occupants, delivered>>
----------------------------------------------------------------------------
(* RS1Product.Stop, called by Main: the world state, the engine and the    *)
(* radar, each under the lock of the part.                                 *)

StopCalled ==
    /\ main = "running"
    /\ main' = "world"
    /\ UNCHANGED <<sensing, input, engineVars, worldVars, delivered>>

StopWorld ==
    /\ main = "world" /\ world # "updating"
    /\ main' = "fusion"
    /\ UNCHANGED <<sensing, input, engineVars, worldVars, delivered>>

StopFusion ==
    /\ main = "fusion" /\ engine \in {"idle", "done"}
    /\ main' = "radar"
    /\ UNCHANGED <<sensing, input, engineVars, worldVars, delivered>>

StopRadar ==
    /\ main = "radar"
    /\ main' = "exit"
    /\ UNCHANGED <<sensing, input, engineVars, worldVars, delivered>>

(* Main returns, and the program ends with all its goroutines. *)
Exit ==
    /\ main = "exit"
    /\ main' = "stopped"
    /\ UNCHANGED <<sensing, input, engineVars, worldVars, delivered>>
----------------------------------------------------------------------------
Next ==
    \/ ReaderChecks \/ ReaderLoads \/ ReaderParses \/ ReaderFails
    \/ ManagerHandles \/ ManagerReturns \/ CameraSubmits
    \/ (\E s \in Sensors : Take(s)) \/ Fuse \/ Hang
    \/ Tick \/ EngineReturns \/ Elapse
    \/ UpdateBegins \/ UpdateEnds \/ WorldReturns
    \/ StopCalled \/ StopWorld \/ StopFusion \/ StopRadar \/ Exit

Spec == Init /\ [][Next]_vars

(* The goroutines run; frames are few, so that select gets to every case   *)
(* that stays ready and a lock is had in the end, but for w.mu, which      *)
(* update takes again and again: it is a fair lock.  Nothing is assumed of *)
(* the sensors, nor of Stop being called.                                  *)
Fairness ==
    /\ WF_vars(Elapse)
    /\ WF_vars(ManagerHandles)
    /\ \A s \in Sensors : WF_vars(Take(s))
    /\ WF_vars(Fuse \/ Hang) /\ WF_vars(Tick)
    /\ WF_vars(UpdateBegins) /\ WF_vars(UpdateEnds)
    /\ SF_vars(StopWorld) /\ WF_vars(StopFusion) /\ WF_vars(StopRadar) /\ WF_vars(Exit)

FairSpec == Spec /\ Fairness
----------------------------------------------------------------------------
Labels == {"camera", "radar", "fusion"}
Track == [seen : SUBSET Sensors, source : Labels, age : 0 .. Timeout + 1, missed : Nat]

TypeOK ==
    /\ main \in {"running", "world", "fusion", "radar", "exit", "stopped", "crashed"}
    /\ reader \in {"check", "load", "reading", "done"}
    /\ frameCh \in Seq(1 .. MaxTargets) /\ Len(frameCh) <= Capacity
    /\ manager \in BOOLEAN
    /\ input \in [Sensors -> Seq(1 .. MaxTargets)]
    /\ \A s \in Sensors : Len(input[s]) <= Capacity
    /\ engine \in {"idle", "solving", "hung", "done"}
    /\ engine \in {"solving", "hung"} <=> batch # Nothing
    /\ batch # Nothing => batch \in [sensor : Sensors, size : 1 .. MaxTargets]
    /\ nextTrackID \in Nat \ {0}
    /\ Ids \subseteq 1 .. nextTrackID - 1
    /\ \A id \in Ids : tracks[id] \in Track
    /\ world \in {"idle", "updating", "done"}
    /\ \A id \in DOMAIN occupants : occupants[id] \in Labels
    /\ delivered \in 0 .. MaxFrames

(* An occupant is said to be seen by one sensor only, IsRadarOnly or       *)
(* IsVisionOnly, exactly as long as the other sensor never saw its track.  *)
LabelsFollowSensors ==
    \A id \in Ids :
        /\ tracks[id].seen # {}
        /\ tracks[id].source = "fusion" <=> tracks[id].seen = Sensors
        /\ tracks[id].source # "fusion" => tracks[id].seen = {tracks[id].source}

Undisturbed == main = "running" /\ engine # "hung"

(* The engine empties its channels, and the occupants catch up with its    *)
(* tracks, again and again, whatever the other sensor and the ticker do.   *)
SensingCatchesUp ==
    []<>(\/ (\A s \in Sensors : input[s] = <<>>) /\ engine = "idle" /\ Ids \subseteq DOMAIN occupants
         \/ ~Undisturbed)

(* RS1Product.Stop returns and the program ends, unless the solver hangs   *)
(* with e.mu taken: then update waits with w.mu taken, and Stop for that.  *)
ShutdownCompletes ==
    (main = "world") ~> (main \in {"stopped", "crashed"} \/ engine = "hung")

(* "Delete track after 5 missed frames" (kalman.go:78), "Deletion: After   *)
(* 30 missed frames" (FUSION_ENGINE.md:140): once nothing is detected any  *)
(* more, the ticker goes on to miss every track there is, and they go.     *)
MissedTracksAreDeleted == []<>(Ids = {} \/ engine = "solving" \/ ~Undisturbed)

(* What is known of the tracks: types with the bounds of the channels, and *)
(* labels that tell the sensors.                                           *)
Sound == TypeOK /\ LabelsFollowSensors
=============================================================================
