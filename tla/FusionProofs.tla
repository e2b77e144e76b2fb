---------------------------- MODULE FusionProofs ----------------------------
(***************************************************************************)
(* What the fusion product gets right, for every value of the constants.   *)
(* The tracks of RoomSensing, for any number of targets and any capacities *)
(* and timeouts: types, labels, and that the engine never deletes one.     *)
(* The solver of Hungarian, for any number of detections, any azimuths and *)
(* any angle: it never loses a row, and what it returns is an optimal      *)
(* association.  The second rests on sums over finite sets, whose laws are *)
(* proved here from the least-element principle.                           *)
(***************************************************************************)
EXTENDS RoomSensing, Hungarian, SequenceTheorems, FiniteSetTheorems, TLAPS

----------------------------------------------------------------------------
(* RoomSensing.                                                            *)

(* Every track is well formed, labelled by its sensors, and has missed no  *)
(* frame: the last is what keeps ShouldDelete from ever being true.        *)
GoodTrack(t) ==
    /\ t \in Track
    /\ t.missed = 0
    /\ t.seen # {}
    /\ t.source = "fusion" <=> t.seen = Sensors
    /\ t.source # "fusion" => t.seen = {t.source}

IInv ==
    /\ TypeOK
    /\ \A id \in Ids : GoodTrack(tracks[id])

(* The labels of a new track, and of one that a sensor matched.            *)
LEMMA NewTrackIsGood == ASSUME NEW s \in Sensors PROVE GoodTrack(NewTrack(s))
  BY SensingAssumption DEF NewTrack, GoodTrack, Track, Labels, Sensors

LEMMA MatchedIsGood ==
    ASSUME NEW t, GoodTrack(t), NEW s \in Sensors PROVE GoodTrack(Matched(t, s))
<1>1. t.seen \in SUBSET Sensors
  BY DEF GoodTrack, Track
<1>2. CASE t.seen \subseteq {s}
  <2>1. t.seen \cup {s} = {s}
    BY <1>2
  <2>2. Matched(t, s) = [seen |-> {s}, source |-> s, age |-> 0, missed |-> 0]
    BY <1>2, <2>1 DEF Matched
  <2> QED BY <2>2, SensingAssumption DEF GoodTrack, Track, Labels, Sensors
<1>3. CASE ~(t.seen \subseteq {s})
  <2>1. t.seen \cup {s} = Sensors
    BY <1>1, <1>3 DEF Sensors
  <2>2. Matched(t, s) = [seen |-> Sensors, source |-> "fusion", age |-> 0, missed |-> 0]
    BY <1>3, <2>1 DEF Matched
  <2> QED BY <2>2, SensingAssumption DEF GoodTrack, Track, Labels, Sensors
<1> QED BY <1>2, <1>3

(* Predict makes a track as young as can be: it misses no frame, and it is *)
(* not deleted.                                                            *)
LEMMA AgedIsKept ==
    ASSUME NEW t, GoodTrack(t) PROVE GoodTrack(Aged(t)) /\ ~Deleted(Aged(t))
<1>1. t = [seen |-> t.seen, source |-> t.source, age |-> t.age, missed |-> 0]
  BY DEF GoodTrack, Track
<1>2. Predicted(t) = [seen |-> t.seen, source |-> t.source, age |-> 0, missed |-> 0]
  BY <1>1 DEF Predicted
<1>3. ~(Predicted(t).age > MissedAge)
  BY <1>2, SensingAssumption
<1>4. Aged(t) = Predicted(t)
  BY <1>3 DEF Aged
<1> QED BY <1>2, <1>4, SensingAssumption DEF GoodTrack, Track, Deleted, Labels, Sensors

LEMMA OlderIsGood ==
    ASSUME NEW t, GoodTrack(t)
    PROVE  GoodTrack([t EXCEPT !.age = IF @ > Timeout THEN @ ELSE @ + 1])
<1>1. t.age \in 0 .. Timeout + 1
  BY DEF GoodTrack, Track
<1>2. (IF t.age > Timeout THEN t.age ELSE t.age + 1) \in 0 .. Timeout + 1
  BY <1>1, SensingAssumption
<1> QED BY <1>1, <1>2 DEF GoodTrack, Track
----------------------------------------------------------------------------
LEMMA InitInv == Init => IInv
<1> SUFFICES ASSUME Init PROVE IInv
  OBVIOUS
<1>1. DOMAIN tracks = {} /\ DOMAIN occupants = {}
  BY DEF Init
<1>2. frameCh \in Seq(1 .. MaxTargets) /\ Len(frameCh) <= Capacity
  BY SensingAssumption DEF Init
<1>3. input \in [Sensors -> Seq(1 .. MaxTargets)] /\ \A s \in Sensors : Len(input[s]) <= Capacity
  BY SensingAssumption DEF Init
<1> QED BY <1>1, <1>2, <1>3, SensingAssumption DEF Init, IInv, TypeOK, Ids, Nothing

(* A channel that takes an element, or drops it, keeps its type and bound. *)
LEMMA SubmitTypes ==
    ASSUME TypeOK, NEW s \in Sensors, NEW size \in 1 .. MaxTargets, Submit(s, size)
    PROVE  /\ input' \in [Sensors -> Seq(1 .. MaxTargets)]
           /\ \A u \in Sensors : Len(input'[u]) <= Capacity
<1>1. input \in [Sensors -> Seq(1 .. MaxTargets)] /\ \A u \in Sensors : Len(input[u]) <= Capacity
  BY DEF TypeOK
<1>2. CASE Len(input[s]) < Capacity
  <2>1. input' = [input EXCEPT ![s] = Append(input[s], size)]
    BY <1>2 DEF Submit
  <2>2. Append(input[s], size) \in Seq(1 .. MaxTargets) /\ Len(Append(input[s], size)) = Len(input[s]) + 1
    BY <1>1
  <2>3. Len(Append(input[s], size)) <= Capacity
    BY <1>1, <1>2, <2>2, SensingAssumption
  <2> QED BY <1>1, <2>1, <2>2, <2>3
<1>3. CASE ~(Len(input[s]) < Capacity)
  BY <1>1, <1>3 DEF Submit
<1> QED BY <1>2, <1>3

LEMMA FusedTracks ==
    ASSUME IInv, Fuse
    PROVE  /\ nextTrackID' \in Nat \ {0}
           /\ Ids' \subseteq 1 .. nextTrackID' - 1
           /\ Ids \subseteq Ids'
           /\ \A id \in Ids' : GoodTrack(tracks'[id])
<1> DEFINE created(matched) == batch.size - Cardinality(matched)
           fresh(matched) == nextTrackID .. nextTrackID + created(matched) - 1
<1>1. PICK matched \in SUBSET Ids :
          /\ Cardinality(matched) <= batch.size
          /\ tracks' = [id \in Ids \cup fresh(matched) |->
                           IF id \in fresh(matched) THEN NewTrack(batch.sensor)
                           ELSE IF id \in matched THEN Matched(tracks[id], batch.sensor)
                           ELSE tracks[id]]
          /\ nextTrackID' = nextTrackID + created(matched)
  BY DEF Fuse
<1>2. batch.sensor \in Sensors /\ batch.size \in 1 .. MaxTargets
  BY DEF Fuse, IInv, TypeOK
<1>3. nextTrackID \in Nat \ {0} /\ Ids \subseteq 1 .. nextTrackID - 1
  BY DEF IInv, TypeOK
<1>4. IsFiniteSet(matched) /\ Cardinality(matched) \in Nat
  <2>1. IsFiniteSet(1 .. nextTrackID - 1)
    BY <1>3, FS_Interval
  <2>2. IsFiniteSet(matched)
    BY <1>3, <2>1, FS_Subset
  <2> QED BY <2>2, FS_CardinalityType
<1>5. created(matched) \in Nat
  BY <1>1, <1>2, <1>4, SensingAssumption
<1>6. Ids' = Ids \cup fresh(matched)
  BY <1>1 DEF Ids
<1>7. nextTrackID' = nextTrackID + created(matched)
  BY <1>1
<1>8. \A id \in Ids' : GoodTrack(tracks'[id])
  <2> SUFFICES ASSUME NEW id \in Ids' PROVE GoodTrack(tracks'[id])
    OBVIOUS
  <2>1. tracks'[id] = IF id \in fresh(matched) THEN NewTrack(batch.sensor)
                      ELSE IF id \in matched THEN Matched(tracks[id], batch.sensor)
                      ELSE tracks[id]
    BY <1>1, <1>6
  <2>2. CASE id \in fresh(matched)
    BY <1>2, <2>1, <2>2, NewTrackIsGood
  <2>3. CASE id \notin fresh(matched)
    <3>1. id \in Ids /\ GoodTrack(tracks[id])
      BY <1>6, <2>3 DEF IInv
    <3> QED BY <1>2, <2>1, <2>3, <3>1, MatchedIsGood
  <2> QED BY <2>2, <2>3
<1> HIDE DEF created
<1>9. fresh(matched) \subseteq 1 .. nextTrackID' - 1
  BY <1>3, <1>5, <1>7
<1>10. 1 .. nextTrackID - 1 \subseteq 1 .. nextTrackID' - 1
  BY <1>3, <1>5, <1>7
<1>11. nextTrackID' \in Nat \ {0}
  BY <1>3, <1>5, <1>7
<1> QED BY <1>3, <1>6, <1>8, <1>9, <1>10, <1>11

LEMMA TickedTracks ==
    ASSUME IInv, Tick
    PROVE  Ids' = Ids /\ \A id \in Ids' : GoodTrack(tracks'[id])
<1> DEFINE aged == [id \in Ids |-> Aged(tracks[id])]
<1>1. tracks' = [id \in {i \in Ids : ~Deleted(aged[i])} |-> aged[id]]
  BY DEF Tick
<1>2. \A id \in Ids : GoodTrack(aged[id]) /\ ~Deleted(aged[id])
  BY AgedIsKept DEF IInv
<1>3. {i \in Ids : ~Deleted(aged[i])} = Ids
  BY <1>2
<1> QED BY <1>1, <1>2, <1>3 DEF Ids
----------------------------------------------------------------------------
(* One step, action by action.  Of IInv, the tracks change in three of the *)
(* actions, the rest is a matter of single variables.                      *)
LEMMA StepInv == ASSUME IInv, [Next]_vars PROVE IInv'
<1> USE DEF IInv
<1> DEFINE TracksGood == /\ nextTrackID \in Nat \ {0} /\ Ids \subseteq 1 .. nextTrackID - 1
                         /\ \A id \in Ids : GoodTrack(tracks[id])
<1>0. TracksGood
  BY DEF TypeOK
<1>a. ASSUME UNCHANGED <<tracks, nextTrackID>> PROVE TracksGood'
  BY <1>0, <1>a DEF Ids, GoodTrack
<1>b. ASSUME TracksGood' PROVE /\ (nextTrackID \in Nat \ {0})' /\ (Ids \subseteq 1 .. nextTrackID - 1)'
                               /\ (\A id \in Ids : tracks[id] \in Track)'
                               /\ (\A id \in Ids : GoodTrack(tracks[id]))'
  BY <1>b DEF GoodTrack
<1> HIDE DEF TracksGood
<1>1. CASE ReaderChecks
  <2>1. TracksGood'
    BY <1>1, <1>a DEF ReaderChecks, engineVars
  <2> QED BY <1>1, <2>1, <1>b DEF ReaderChecks, TypeOK, sensing, engineVars, worldVars, Nothing
<1>2. CASE ReaderLoads
  <2>1. TracksGood'
    BY <1>2, <1>a DEF ReaderLoads, engineVars
  <2> QED BY <1>2, <2>1, <1>b DEF ReaderLoads, TypeOK, sensing, engineVars, worldVars, Nothing
<1>3. CASE ReaderFails
  <2>1. TracksGood'
    BY <1>3, <1>a DEF ReaderFails, engineVars
  <2> QED BY <1>3, <2>1, <1>b DEF ReaderFails, TypeOK, sensing, engineVars, worldVars, Nothing
<1>4. CASE ManagerReturns
  <2>1. TracksGood'
    BY <1>4, <1>a DEF ManagerReturns, engineVars
  <2> QED BY <1>4, <2>1, <1>b DEF ManagerReturns, TypeOK, sensing, engineVars, worldVars, Nothing
<1>5. CASE EngineReturns
  <2>1. TracksGood'
    BY <1>5, <1>a DEF EngineReturns, engineVars
  <2> QED BY <1>5, <2>1, <1>b DEF EngineReturns, TypeOK, sensing, engineVars, worldVars, Nothing
<1>6. CASE UpdateBegins
  <2>1. TracksGood'
    BY <1>6, <1>a DEF UpdateBegins, engineVars
  <2> QED BY <1>6, <2>1, <1>b DEF UpdateBegins, TypeOK, sensing, engineVars, worldVars, Nothing
<1>7. CASE WorldReturns
  <2>1. TracksGood'
    BY <1>7, <1>a DEF WorldReturns, engineVars
  <2> QED BY <1>7, <2>1, <1>b DEF WorldReturns, TypeOK, sensing, engineVars, worldVars, Nothing
<1>8. CASE StopCalled
  <2>1. TracksGood'
    BY <1>8, <1>a DEF StopCalled, engineVars
  <2> QED BY <1>8, <2>1, <1>b DEF StopCalled, TypeOK, sensing, engineVars, worldVars, Nothing
<1>9. CASE StopWorld
  <2>1. TracksGood'
    BY <1>9, <1>a DEF StopWorld, engineVars
  <2> QED BY <1>9, <2>1, <1>b DEF StopWorld, TypeOK, sensing, engineVars, worldVars, Nothing
<1>10. CASE StopFusion
  <2>1. TracksGood'
    BY <1>10, <1>a DEF StopFusion, engineVars
  <2> QED BY <1>10, <2>1, <1>b DEF StopFusion, TypeOK, sensing, engineVars, worldVars, Nothing
<1>11. CASE StopRadar
  <2>1. TracksGood'
    BY <1>11, <1>a DEF StopRadar, engineVars
  <2> QED BY <1>11, <2>1, <1>b DEF StopRadar, TypeOK, sensing, engineVars, worldVars, Nothing
<1>12. CASE Exit
  <2>1. TracksGood'
    BY <1>12, <1>a DEF Exit, engineVars
  <2> QED BY <1>12, <2>1, <1>b DEF Exit, TypeOK, sensing, engineVars, worldVars, Nothing
<1>13. CASE Hang
  <2>1. TracksGood'
    BY <1>13, <1>a DEF Hang, engineVars
  <2> QED BY <1>13, <2>1, <1>b DEF Hang, TypeOK, sensing, engineVars, worldVars, Nothing
<1>14. CASE ReaderParses
  <2>1. TracksGood'
    BY <1>14, <1>a DEF ReaderParses, engineVars
  <2>2. PICK targets \in 1 .. MaxTargets :
            frameCh' = IF Len(frameCh) < Capacity THEN Append(frameCh, targets) ELSE frameCh
    BY <1>14 DEF ReaderParses
  <2>3. frameCh \in Seq(1 .. MaxTargets) /\ Len(frameCh) <= Capacity
    BY DEF TypeOK
  <2>4. frameCh' \in Seq(1 .. MaxTargets) /\ Len(frameCh') <= Capacity
    <3>1. CASE Len(frameCh) < Capacity
      <4>1. Append(frameCh, targets) \in Seq(1 .. MaxTargets)
        BY <2>3
      <4>2. Len(Append(frameCh, targets)) = Len(frameCh) + 1 /\ Len(frameCh) \in Nat
        BY <2>3
      <4> QED BY <2>2, <3>1, <4>1, <4>2, SensingAssumption
    <3>2. CASE ~(Len(frameCh) < Capacity)
      BY <2>2, <2>3, <3>2
    <3> QED BY <3>1, <3>2
  <2>5. delivered' \in 0 .. MaxFrames
    <3>1. delivered \in 0 .. MaxFrames
      BY DEF TypeOK
    <3>2. delivered < MaxFrames /\ delivered' = delivered + 1
      BY <1>14 DEF ReaderParses
    <3> QED BY <3>1, <3>2, SensingAssumption
  <2> QED BY <1>14, <2>1, <2>4, <2>5, <1>b DEF ReaderParses, TypeOK, engineVars, worldVars
<1>15. CASE CameraSubmits
  <2>1. TracksGood'
    BY <1>15, <1>a DEF CameraSubmits, engineVars
  <2>2. /\ input' \in [Sensors -> Seq(1 .. MaxTargets)]
        /\ \A u \in Sensors : Len(input'[u]) <= Capacity
    BY <1>15, SubmitTypes DEF CameraSubmits, Sensors
  <2>3. delivered' \in 0 .. MaxFrames
    <3>1. delivered \in 0 .. MaxFrames
      BY DEF TypeOK
    <3>2. delivered < MaxFrames /\ delivered' = delivered + 1
      BY <1>15 DEF CameraSubmits
    <3> QED BY <3>1, <3>2, SensingAssumption
  <2> QED BY <1>15, <2>1, <2>2, <2>3, <1>b DEF CameraSubmits, TypeOK, sensing, engineVars, worldVars
<1>16. CASE ManagerHandles
  <2>1. TracksGood'
    BY <1>16, <1>a DEF ManagerHandles, engineVars
  <2>2. frameCh \in Seq(1 .. MaxTargets) /\ Len(frameCh) <= Capacity /\ frameCh # <<>>
    BY <1>16 DEF TypeOK, ManagerHandles
  <2>3. Head(frameCh) \in 1 .. MaxTargets
    BY <2>2, HeadTailProperties
  <2>4. Tail(frameCh) \in Seq(1 .. MaxTargets) /\ Len(Tail(frameCh)) <= Capacity
    BY <2>2, SensingAssumption
  <2>5. PICK inRange \in 0 .. Head(frameCh) :
            IF inRange = 0 THEN UNCHANGED input ELSE Submit("radar", inRange)
    BY <1>16 DEF ManagerHandles
  <2>6. /\ input' \in [Sensors -> Seq(1 .. MaxTargets)]
        /\ \A u \in Sensors : Len(input'[u]) <= Capacity
    <3>1. CASE inRange = 0
      BY <2>5, <3>1 DEF TypeOK
    <3>2. CASE inRange # 0
      <4>1. inRange \in 1 .. MaxTargets
        BY <2>3, <3>2, SensingAssumption
      <4> QED BY <2>5, <3>2, <4>1, SubmitTypes DEF Sensors
    <3> QED BY <3>1, <3>2
  <2> QED BY <1>16, <2>1, <2>4, <2>6, <1>b DEF ManagerHandles, TypeOK, engineVars, worldVars
<1>17. ASSUME NEW s \in Sensors, Take(s) PROVE IInv'
  <2>1. TracksGood'
    BY <1>17, <1>a DEF Take
  <2>2. input \in [Sensors -> Seq(1 .. MaxTargets)] /\ \A u \in Sensors : Len(input[u]) <= Capacity
    BY DEF TypeOK
  <2>3. input[s] \in Seq(1 .. MaxTargets) /\ input[s] # <<>>
    BY <1>17, <2>2 DEF Take
  <2>4. Head(input[s]) \in 1 .. MaxTargets
    BY <2>3, HeadTailProperties
  <2>5. Tail(input[s]) \in Seq(1 .. MaxTargets) /\ Len(Tail(input[s])) <= Capacity
    BY <2>2, <2>3, SensingAssumption
  <2>6. /\ input' \in [Sensors -> Seq(1 .. MaxTargets)]
        /\ \A u \in Sensors : Len(input'[u]) <= Capacity
    BY <1>17, <2>2, <2>5 DEF Take
  <2>7. batch' \in [sensor : Sensors, size : 1 .. MaxTargets] /\ batch' # Nothing
    BY <1>17, <2>4 DEF Take, Nothing, Sensors
  <2> QED BY <1>17, <2>1, <2>6, <2>7, <1>b DEF Take, TypeOK, sensing, worldVars, Nothing
<1>18. CASE Fuse
  <2>1. TracksGood'
    BY <1>18, FusedTracks DEF TracksGood
  <2> QED BY <1>18, <2>1, <1>b DEF Fuse, TypeOK, sensing, worldVars, Nothing
<1>19. CASE Tick
  <2>1. TracksGood'
    <3>1. nextTrackID' = nextTrackID
      BY <1>19 DEF Tick
    <3> QED BY <1>0, <1>19, <3>1, TickedTracks DEF TracksGood
  <2> QED BY <1>19, <2>1, <1>b DEF Tick, TypeOK, sensing, worldVars, Nothing
<1>20. CASE Elapse
  <2>1. TracksGood'
    <3>1. Ids' = Ids /\ nextTrackID' = nextTrackID
      BY <1>20 DEF Elapse, Ids
    <3>2. \A id \in Ids : tracks'[id] = [tracks[id] EXCEPT !.age = IF @ > Timeout THEN @ ELSE @ + 1]
      BY <1>20 DEF Elapse
    <3>3. ASSUME NEW id \in Ids PROVE GoodTrack(tracks'[id])
      <4>1. GoodTrack(tracks[id])
        BY <1>0 DEF TracksGood
      <4>2. GoodTrack([tracks[id] EXCEPT !.age = IF @ > Timeout THEN @ ELSE @ + 1])
        BY <4>1, OlderIsGood
      <4> QED BY <3>2, <4>2
    <3> QED BY <1>0, <3>1, <3>3 DEF TracksGood
  <2> QED BY <1>20, <2>1, <1>b DEF Elapse, TypeOK, sensing, worldVars, Nothing
<1>21. CASE UpdateEnds
  <2>1. TracksGood'
    BY <1>21, <1>a DEF UpdateEnds, engineVars
  <2>2. \A id \in DOMAIN occupants' : occupants'[id] \in Labels
    BY <1>21, <1>0 DEF UpdateEnds, TracksGood, GoodTrack, Track
  <2> QED BY <1>21, <2>1, <2>2, <1>b DEF UpdateEnds, TypeOK, sensing, engineVars
<1>22. CASE UNCHANGED vars
  <2>1. TracksGood'
    BY <1>22, <1>a DEF vars, engineVars
  <2> QED BY <1>22, <2>1, <1>b DEF vars, TypeOK, sensing, engineVars, worldVars
<1> QED
  BY <1>1, <1>2, <1>3, <1>4, <1>5, <1>6, <1>7, <1>8, <1>9, <1>10, <1>11, <1>12, <1>13, <1>14, <1>15, <1>16, <1>17, <1>18, <1>19, <1>20, <1>21, <1>22 DEF Next

LEMMA InvHolds == Spec => []IInv
<1>1. Init => IInv
  BY InitInv
<1>2. IInv /\ [Next]_vars => IInv'
  BY StepInv
<1> QED BY <1>1, <1>2, PTL DEF Spec

(* Every variable keeps its type: the channels never exceed their capacity *)
(* and a batch is in the solver's hands exactly while e.mu is held for it. *)
THEOREM TypeCorrect == Spec => []TypeOK
<1>1. IInv => TypeOK
  BY DEF IInv
<1> QED BY <1>1, InvHolds, PTL

(* A track's label tells which sensors ever saw it.                        *)
THEOREM LabelsAreTrue == Spec => []LabelsFollowSensors
<1>1. IInv => LabelsFollowSensors
  BY DEF IInv, LabelsFollowSensors, GoodTrack
<1> QED BY <1>1, InvHolds, PTL

(* No step takes a track out of the engine, whatever the timeout and the   *)
(* number of missed frames are set to, and whether it was matched or not:  *)
(* predictAndCleanup finds no track too old, because Predict has just      *)
(* overwritten the time it looks at.  What MissedTracksAreDeleted claims   *)
(* is false of every instance in which a track is made.                    *)
THEOREM NothingIsDeleted == Spec => [][Ids \subseteq Ids']_vars
<1>1. IInv /\ [Next]_vars => [Ids \subseteq Ids']_vars
  <2> SUFFICES ASSUME IInv, Next PROVE Ids \subseteq Ids'
    OBVIOUS
  <2>1. CASE Fuse
    BY <2>1, FusedTracks
  <2>2. CASE Tick
    BY <2>2, TickedTracks
  <2>3. CASE Elapse
    BY <2>3 DEF Elapse, Ids
  <2>4. CASE ~(Fuse \/ Tick \/ Elapse)
    <3>1. UNCHANGED tracks
      BY <2>4 DEF Next, ReaderChecks, ReaderLoads, ReaderParses, ReaderFails, ManagerHandles,
                  ManagerReturns, CameraSubmits, Take, Hang, EngineReturns, UpdateBegins,
                  UpdateEnds, WorldReturns, StopCalled, StopWorld, StopFusion, StopRadar,
                  Exit, engineVars
    <3> QED BY <3>1 DEF Ids
  <2> QED BY <2>1, <2>2, <2>3, <2>4
<1> QED BY <1>1, InvHolds, PTL DEF Spec

(* What is known of the tracks: types, and labels that tell the sensors.   *)
THEOREM TracksAreSound == Spec => []Sound
BY TypeCorrect, LabelsAreTrue, PTL DEF Sound

----------------------------------------------------------------------------
(* Least elements and induction, for sets.                                 *)

(* A set of naturals that is not empty has a least element.                *)
LEMMA LeastExists == ASSUME NEW T, T \subseteq Nat, T # {} PROVE \E x \in T : \A y \in T : x <= y
<1>1. \E x \in T : \A y \in T : ~ (<<y, x>> \in OpToRel(<, Nat))
  BY NatLessThanWellFounded, WFMin
<1>2. \A x, y \in T : ~ (<<y, x>> \in OpToRel(<, Nat)) => x <= y
  BY DEF OpToRel
<1> QED
  BY <1>1, <1>2

(* A set that holds 0, and with a number the next one, holds them all.     *)
LEMMA NatsByInduction ==
  ASSUME NEW T, 0 \in T, \A k \in Nat : k \in T => k + 1 \in T
  PROVE  Nat \subseteq T
<1> SUFFICES ASSUME Nat \ T # {} PROVE FALSE
  OBVIOUS
<1>1. PICK x \in Nat \ T : \A y \in Nat \ T : x <= y
  BY LeastExists
<1>2. x # 0 /\ x \in Nat
  BY <1>1
<1>3. x - 1 \in Nat /\ ~(x <= x - 1) /\ (x - 1) + 1 = x
  BY <1>2
<1>4. x - 1 \in T
  BY <1>1, <1>3
<1> QED
  BY <1>1, <1>3, <1>4

(* A collection that holds {}, and a subset of S with what is left of it without one of its*)
(* elements, holds all subsets of S.                                       *)
LEMMA SubsetsByInduction ==
  ASSUME NEW S, IsFiniteSet(S), NEW Q, {} \in Q,
         \A T \in SUBSET S : \A x \in T : T \ {x} \in Q => T \in Q
  PROVE  SUBSET S \subseteq Q
<1> DEFINE K == {k \in Nat : \A T \in SUBSET S : Cardinality(T) = k => T \in Q}
<1>1. 0 \in K
  BY FS_Subset, FS_EmptySet
<1>2. ASSUME NEW k \in Nat, k \in K PROVE k + 1 \in K
  <2> SUFFICES ASSUME NEW T \in SUBSET S, Cardinality(T) = k + 1 PROVE T \in Q
    OBVIOUS
  <2>1. IsFiniteSet(T) /\ T # {}
    BY FS_Subset, FS_EmptySet
  <2>2. PICK x \in T : TRUE
    BY <2>1
  <2>3. Cardinality(T \ {x}) = Cardinality(T) - 1
    BY <2>1, <2>2, FS_RemoveElement
  <2>4. Cardinality(T \ {x}) = k
    BY <2>3
  <2>5. T \ {x} \in Q
    BY <1>2, <2>4
  <2> QED
    BY <2>2, <2>5
<1>3. Nat \subseteq K
  BY <1>1, <1>2, NatsByInduction
<1>4. \A T \in SUBSET S : Cardinality(T) \in Nat
  BY FS_Subset, FS_CardinalityType
<1> QED
  BY <1>3, <1>4

----------------------------------------------------------------------------
(* Sums over finite sets.                                                  *)

Sum(f, S) == MapThenSumSet(LAMBDA x : f[x], S)

(* What g, the function that MapThenSumSet defines, does on subsets of S.  *)
Adds(g, f, S) ==
    g = [s \in SUBSET S |-> IF s = {} THEN 0
                            ELSE f[CHOOSE x \in s : TRUE] + g[s \ {CHOOSE x \in s : TRUE}]]

LEMMA SumIsChosen ==
  ASSUME NEW f, NEW S PROVE Sum(f, S) = (CHOOSE g : Adds(g, f, S))[S]
BY DEF Sum, Adds, MapThenSumSet, MapThenFoldSet


(* There is such a function.                                               *)
LEMMA AddsExists ==
  ASSUME NEW f, NEW S, IsFiniteSet(S) PROVE \E g : Adds(g, f, S)
<1> DEFINE Small(k) == {s \in SUBSET S : Cardinality(s) <= k}
           pick(s) == CHOOSE x \in s : TRUE
           For(k, g) == g = [s \in Small(k) |-> IF s = {} THEN 0 ELSE f[pick(s)] + g[s \ {pick(s)}]]
           K == {k \in Nat : \E g : For(k, g)}
<1>1. \A s \in SUBSET S : IsFiniteSet(s) /\ Cardinality(s) \in Nat /\ (Cardinality(s) = 0 <=> s = {})
  BY FS_Subset, FS_CardinalityType, FS_EmptySet
<1>2. \A s \in SUBSET S : s # {} => pick(s) \in s
  OBVIOUS
<1>3. \A s \in SUBSET S : s # {} => Cardinality(s \ {pick(s)}) = Cardinality(s) - 1
  BY <1>1, <1>2, FS_RemoveElement
<1>4. 0 \in K
  <2> DEFINE g == [s \in Small(0) |-> 0]
  <2>1. \A s \in Small(0) : s = {}
    BY <1>1
  <2>2. For(0, g)
    BY <2>1
  <2> QED
    BY <2>2
<1>5. ASSUME NEW k \in Nat, k \in K PROVE k + 1 \in K
  <2>1. PICK g : For(k, g)
    BY <1>5
  <2> DEFINE h == [s \in Small(k + 1) |-> IF s = {} THEN 0 ELSE f[pick(s)] + g[s \ {pick(s)}]]
  <2>2. \A s \in Small(k) : s \in Small(k + 1)
    BY <1>1
  <2>3. \A s \in Small(k) : g[s] = IF s = {} THEN 0 ELSE f[pick(s)] + g[s \ {pick(s)}]
    BY <2>1
  <2>4. \A s \in Small(k) : h[s] = g[s]
    BY <2>2, <2>3
  <2>5. \A s \in Small(k + 1) : s # {} => s \ {pick(s)} \in Small(k)
    BY <1>1, <1>3
  <2>6. \A s \in Small(k + 1) : s # {} => h[s \ {pick(s)}] = g[s \ {pick(s)}]
    BY <2>4, <2>5
  <2>7. \A s \in Small(k + 1) : h[s] = IF s = {} THEN 0 ELSE f[pick(s)] + g[s \ {pick(s)}]
    OBVIOUS
  <2>8. h = [s \in Small(k + 1) |-> h[s]]
    OBVIOUS
  <2> HIDE DEF h, Small, pick
  <2>9. For(k + 1, h)
    BY <2>6, <2>7, <2>8
  <2>10. \E i : For(k + 1, i)
    BY <2>9
  <2> HIDE DEF For
  <2> QED
    BY <2>10
<1>6. Cardinality(S) \in K
  <2>1. Nat \subseteq K
    BY <1>4, <1>5, NatsByInduction
  <2> QED
    BY <1>1, <2>1
<1>7. Small(Cardinality(S)) = SUBSET S
  BY FS_Subset
<1> QED
  BY <1>6, <1>7 DEF Adds

(* Any two of them agree where both are defined.                           *)
LEMMA AddsUnique ==
  ASSUME NEW f, NEW S, NEW T, IsFiniteSet(S), T \subseteq S, NEW g, NEW h, Adds(g, f, S), Adds(h, f, T)
  PROVE  \A U \in SUBSET T : g[U] = h[U]
<1> DEFINE pick(s) == CHOOSE x \in s : TRUE
           K == {k \in Nat : \A U \in SUBSET T : Cardinality(U) = k => g[U] = h[U]}
<1>1. \A U \in SUBSET T : /\ g[U] = IF U = {} THEN 0 ELSE f[pick(U)] + g[U \ {pick(U)}]
                          /\ h[U] = IF U = {} THEN 0 ELSE f[pick(U)] + h[U \ {pick(U)}]
  BY DEF Adds
<1>2. \A U \in SUBSET T : IsFiniteSet(U) /\ Cardinality(U) \in Nat /\ (Cardinality(U) = 0 <=> U = {})
  BY FS_Subset, FS_CardinalityType, FS_EmptySet
<1>3. 0 \in K
  BY <1>1, <1>2
<1>4. ASSUME NEW k \in Nat, k \in K PROVE k + 1 \in K
  <2> SUFFICES ASSUME NEW U \in SUBSET T, Cardinality(U) = k + 1 PROVE g[U] = h[U]
    OBVIOUS
  <2>1. U # {} /\ pick(U) \in U
    BY <1>2
  <2>2. Cardinality(U \ {pick(U)}) = Cardinality(U) - 1
    BY <1>2, <2>1, FS_RemoveElement
  <2>3. Cardinality(U \ {pick(U)}) = k
    BY <2>2
  <2>4. U \ {pick(U)} \in SUBSET T
    OBVIOUS
  <2>5. g[U \ {pick(U)}] = h[U \ {pick(U)}]
    BY <1>4, <2>3, <2>4
  <2> QED
    BY <1>1, <2>1, <2>5
<1>5. Nat \subseteq K
  BY <1>3, <1>4, NatsByInduction
<1> QED
  BY <1>2, <1>5

(* The sum of the empty set, and the sum of another by the element that is chosen first.*)
LEMMA SumOfChosen ==
  ASSUME NEW f, NEW S, IsFiniteSet(S)
  PROVE  Sum(f, S) = IF S = {} THEN 0
                     ELSE f[CHOOSE x \in S : TRUE] + Sum(f, S \ {CHOOSE x \in S : TRUE})
<1> DEFINE c == CHOOSE x \in S : TRUE
           g == CHOOSE g : Adds(g, f, S)
           h == CHOOSE h : Adds(h, f, S \ {c})
<1>1. Adds(g, f, S)
  BY AddsExists
<1>2. IsFiniteSet(S \ {c})
  BY FS_RemoveElement
<1>3. Adds(h, f, S \ {c})
  BY <1>2, AddsExists
<1>4. Sum(f, S) = g[S] /\ Sum(f, S \ {c}) = h[S \ {c}]
  BY SumIsChosen
<1>5. g[S \ {c}] = h[S \ {c}]
  BY <1>1, <1>3, AddsUnique
<1>6. g[S] = IF S = {} THEN 0 ELSE f[c] + g[S \ {c}]
  BY <1>1 DEF Adds
<1> QED
  BY <1>4, <1>5, <1>6


(* ... which is any element, when f gives integers.                        *)
LEMMA SumOfAny ==
  ASSUME NEW S, IsFiniteSet(S), NEW f, \A x \in S : f[x] \in Int
  PROVE  \A T \in SUBSET S : Sum(f, T) \in Int /\ \A x \in T : Sum(f, T) = f[x] + Sum(f, T \ {x})
<1> DEFINE Good(T) == Sum(f, T) \in Int /\ \A x \in T : Sum(f, T) = f[x] + Sum(f, T \ {x})
           K == {k \in Nat : \A T \in SUBSET S : Cardinality(T) <= k => Good(T)}
<1>1. \A T \in SUBSET S : IsFiniteSet(T) /\ Cardinality(T) \in Nat /\ (Cardinality(T) = 0 <=> T = {})
  BY FS_Subset, FS_CardinalityType, FS_EmptySet
<1>2. \A T \in SUBSET S : \A x \in T : Cardinality(T \ {x}) = Cardinality(T) - 1
  BY <1>1, FS_RemoveElement
<1>0. Good({})
  <2>1. Sum(f, {}) = 0
    BY SumOfChosen, FS_EmptySet
  <2> QED
    BY <2>1
<1>3. 0 \in K
  <2>2. \A T \in SUBSET S : Cardinality(T) <= 0 => T = {}
    BY <1>1
  <2> HIDE DEF Good
  <2> QED
    BY <1>0, <2>2
<1>4. ASSUME NEW k \in Nat, k \in K PROVE k + 1 \in K
  <2> SUFFICES ASSUME NEW T \in SUBSET S, Cardinality(T) <= k + 1 PROVE Good(T)
    OBVIOUS
  <2> DEFINE c == CHOOSE x \in T : TRUE
  <2>1. CASE T = {}
    BY <1>0, <2>1
  <2>2. CASE T # {}
    <3>1. c \in T /\ f[c] \in Int
      BY <2>2
    <3>2. Sum(f, T) = f[c] + Sum(f, T \ {c})
      BY <1>1, <2>2, SumOfChosen
    <3>3. ASSUME NEW x \in T PROVE T \ {x} \in SUBSET S /\ Good(T \ {x})
      <4>1. Cardinality(T \ {x}) <= k
        BY <1>1, <1>2
      <4> QED
        BY <1>4, <4>1
    <3>4. Sum(f, T) \in Int
      <4>1. Sum(f, T \ {c}) \in Int
        BY <3>1, <3>3
      <4> HIDE DEF c
      <4> QED
        BY <3>1, <3>2, <4>1
    <3>5. ASSUME NEW x \in T, x # c PROVE Sum(f, T) = f[x] + Sum(f, T \ {x})
      <4> DEFINE U == (T \ {c}) \ {x}
      <4>1. U = (T \ {x}) \ {c} /\ U \in SUBSET S
        OBVIOUS
      <4>2. Sum(f, T \ {c}) = f[x] + Sum(f, U)
        BY <3>1, <3>3, <3>5
      <4>3. Sum(f, T \ {x}) = f[c] + Sum(f, U)
        BY <3>1, <3>3, <3>5, <4>1
      <4>4. Cardinality(U) <= k
        <5>1. Cardinality(T \ {c}) = Cardinality(T) - 1
          BY <1>2, <3>1
        <5>2. Cardinality(U) = Cardinality(T \ {c}) - 1
          BY <1>2, <3>5
        <5>3. Cardinality(T) \in Nat
          BY <1>1
        <5> QED
          BY <5>1, <5>2, <5>3
      <4>5. Sum(f, U) \in Int
        BY <1>4, <4>1, <4>4
      <4>6. f[x] \in Int
        OBVIOUS
      <4> HIDE DEF U, c
      <4> QED
        BY <3>1, <3>2, <4>2, <4>3, <4>5, <4>6
    <3> QED
      BY <3>2, <3>4, <3>5
  <2> QED
    BY <2>1, <2>2
<1>5. Nat \subseteq K
  BY <1>3, <1>4, NatsByInduction
<1> QED
  BY <1>1, <1>5


(* Three facts about sums of integers by their terms: smaller, added, all the same.*)
LEMMA SumOfNone == ASSUME NEW f PROVE Sum(f, {}) = 0
BY SumOfChosen, FS_EmptySet

LEMMA SumIsInt ==
  ASSUME NEW S, IsFiniteSet(S), NEW f, \A x \in S : f[x] \in Int PROVE Sum(f, S) \in Int
BY SumOfAny

LEMMA SumLess ==
  ASSUME NEW S, IsFiniteSet(S), NEW f, NEW g,
         \A x \in S : f[x] \in Int /\ g[x] \in Int /\ f[x] <= g[x]
  PROVE  Sum(f, S) <= Sum(g, S)
<1> DEFINE Q == {T \in SUBSET S : Sum(f, T) <= Sum(g, T)}
<1>1. {} \in Q
  BY SumOfNone
<1>2. ASSUME NEW T \in SUBSET S, NEW x \in T, T \ {x} \in Q PROVE T \in Q
  <2>1. /\ Sum(f, T) = f[x] + Sum(f, T \ {x}) /\ Sum(f, T \ {x}) \in Int
        /\ Sum(g, T) = g[x] + Sum(g, T \ {x}) /\ Sum(g, T \ {x}) \in Int
    BY SumOfAny
  <2>2. Sum(f, T \ {x}) <= Sum(g, T \ {x})
    BY <1>2
  <2>3. f[x] \in Int /\ g[x] \in Int /\ f[x] <= g[x]
    OBVIOUS
  <2>4. Sum(f, T) <= Sum(g, T)
    BY <2>1, <2>2, <2>3
  <2> QED
    BY <2>4
<1>3. SUBSET S \subseteq Q
  <2> HIDE DEF Q
  <2> QED BY <1>1, <1>2, SubsetsByInduction
<1> QED
  BY <1>3

LEMMA SumAdded ==
  ASSUME NEW S, IsFiniteSet(S), NEW f, NEW g, NEW h,
         \A x \in S : f[x] \in Int /\ g[x] \in Int /\ h[x] = f[x] + g[x]
  PROVE  Sum(h, S) = Sum(f, S) + Sum(g, S)
<1> DEFINE Q == {T \in SUBSET S : Sum(h, T) = Sum(f, T) + Sum(g, T)}
<1>1. {} \in Q
  BY SumOfNone
<1>2. ASSUME NEW T \in SUBSET S, NEW x \in T, T \ {x} \in Q PROVE T \in Q
  <2>0. \A y \in S : h[y] \in Int
    OBVIOUS
  <2>1. /\ Sum(f, T) = f[x] + Sum(f, T \ {x}) /\ Sum(f, T \ {x}) \in Int
        /\ Sum(g, T) = g[x] + Sum(g, T \ {x}) /\ Sum(g, T \ {x}) \in Int
    BY SumOfAny
  <2>2. Sum(h, T) = h[x] + Sum(h, T \ {x})
    BY <2>0, SumOfAny
  <2>3. Sum(h, T \ {x}) = Sum(f, T \ {x}) + Sum(g, T \ {x})
    BY <1>2
  <2>4. f[x] \in Int /\ g[x] \in Int /\ h[x] = f[x] + g[x]
    OBVIOUS
  <2>5. Sum(h, T) = Sum(f, T) + Sum(g, T)
    BY <2>1, <2>2, <2>3, <2>4
  <2> QED
    BY <2>5
<1>3. SUBSET S \subseteq Q
  <2> HIDE DEF Q
  <2> QED BY <1>1, <1>2, SubsetsByInduction
<1> QED
  BY <1>3

LEMMA SumOfSame ==
  ASSUME NEW S, IsFiniteSet(S), NEW c \in Int, NEW f, \A x \in S : f[x] = c
  PROVE  Sum(f, S) = c * Cardinality(S)
<1> DEFINE Q == {T \in SUBSET S : Sum(f, T) = c * Cardinality(T)}
<1>1. {} \in Q
  BY SumOfNone, FS_EmptySet
<1>2. ASSUME NEW T \in SUBSET S, NEW x \in T, T \ {x} \in Q PROVE T \in Q
  <2>1. Sum(f, T) = f[x] + Sum(f, T \ {x})
    BY SumOfAny
  <2>2. IsFiniteSet(T)
    BY FS_Subset
  <2>3. Cardinality(T \ {x}) = Cardinality(T) - 1 /\ Cardinality(T) \in Nat
    BY <2>2, FS_RemoveElement, FS_CardinalityType
  <2>4. Sum(f, T \ {x}) = c * Cardinality(T \ {x}) /\ f[x] = c
    BY <1>2
  <2>5. Sum(f, T) = c + c * (Cardinality(T) - 1)
    BY <2>1, <2>3, <2>4
  <2>6. \A k \in Nat : c + c * (k - 1) = c * k
    BY SMT
  <2> QED
    BY <2>3, <2>5, <2>6
<1>3. SUBSET S \subseteq Q
  <2> HIDE DEF Q
  <2> QED BY <1>1, <1>2, SubsetsByInduction
<1> QED
  BY <1>3

(* ... and two about the sets: what is added up in two parts, or along an injection.*)
LEMMA SumOfParts ==
  ASSUME NEW A, NEW B, IsFiniteSet(A), IsFiniteSet(B), A \cap B = {},
         NEW f, \A x \in A \cup B : f[x] \in Int
  PROVE  Sum(f, A \cup B) = Sum(f, A) + Sum(f, B)
<1> DEFINE Q == {T \in SUBSET B : Sum(f, A \cup T) = Sum(f, A) + Sum(f, T)}
<1>0. IsFiniteSet(A \cup B)
  BY FS_Union
<1>1. {} \in Q
  <2>1. Sum(f, A) \in Int /\ A \cup {} = A
    BY SumOfAny
  <2> QED
    BY <2>1, SumOfNone
<1>2. ASSUME NEW T \in SUBSET B, NEW x \in T, T \ {x} \in Q PROVE T \in Q
  <2>1. Sum(f, T) = f[x] + Sum(f, T \ {x}) /\ Sum(f, T \ {x}) \in Int
    BY SumOfAny
  <2>2. (A \cup T) \ {x} = A \cup (T \ {x})
    OBVIOUS
  <2>3. Sum(f, A \cup T) = f[x] + Sum(f, A \cup (T \ {x}))
    BY <1>0, <2>2, SumOfAny
  <2>4. Sum(f, A \cup (T \ {x})) = Sum(f, A) + Sum(f, T \ {x}) /\ Sum(f, A) \in Int
    BY <1>2, SumOfAny
  <2>5. f[x] \in Int
    OBVIOUS
  <2>6. Sum(f, A \cup T) = Sum(f, A) + Sum(f, T)
    BY <2>1, <2>3, <2>4, <2>5
  <2> QED
    BY <2>6
<1>3. SUBSET B \subseteq Q
  <2> HIDE DEF Q
  <2> QED BY <1>1, <1>2, SubsetsByInduction
<1> QED
  BY <1>3

LEMMA SumAlong ==
  ASSUME NEW S, IsFiniteSet(S), NEW b, \A x, y \in S : b[x] = b[y] => x = y,
         NEW f, \A x \in S : f[b[x]] \in Int, NEW g, \A x \in S : g[x] = f[b[x]]
  PROVE  Sum(g, S) = Sum(f, {b[x] : x \in S})
<1> DEFINE Image(T) == {b[x] : x \in T}
           Q == {T \in SUBSET S : Sum(g, T) = Sum(f, Image(T))}
<1>0. IsFiniteSet(Image(S)) /\ \A y \in Image(S) : f[y] \in Int
  <2> DEFINE i == [x \in S |-> b[x]]
  <2>1. i \in Surjection(S, Image(S))
    BY DEF Surjection
  <2>2. IsFiniteSet(Image(S))
    BY <2>1, FS_Surjection
  <2> QED
    BY <2>2
<1>1. {} \in Q
  <2>1. Image({}) = {}
    OBVIOUS
  <2> QED
    BY <2>1, SumOfNone
<1>2. ASSUME NEW T \in SUBSET S, NEW x \in T, T \ {x} \in Q PROVE T \in Q
  <2>1. Sum(g, T) = g[x] + Sum(g, T \ {x})
    BY SumOfAny
  <2>2. Image(T) \ {b[x]} = Image(T \ {x}) /\ b[x] \in Image(T) /\ Image(T) \in SUBSET Image(S)
    OBVIOUS
  <2>3. Sum(f, Image(T)) = f[b[x]] + Sum(f, Image(T \ {x}))
    <3> DEFINE I == Image(S)
               J == Image(T)
    <3>1. IsFiniteSet(I) /\ (\A y \in I : f[y] \in Int) /\ J \in SUBSET I /\ b[x] \in J
      BY <1>0, <2>2
    <3> HIDE DEF I, J
    <3>2. Sum(f, J) = f[b[x]] + Sum(f, J \ {b[x]})
      BY <3>1, SumOfAny
    <3> QED
      BY <2>2, <3>2 DEF J
  <2>4. Sum(g, T \ {x}) = Sum(f, Image(T \ {x}))
    BY <1>2
  <2>5. Sum(g, T) = Sum(f, Image(T))
    BY <2>1, <2>3, <2>4
  <2> QED
    BY <2>5
<1>3. SUBSET S \subseteq Q
  <2> HIDE DEF Q
  <2> QED BY <1>1, <1>2, SubsetsByInduction
<1> QED
  BY <1>3

----------------------------------------------------------------------------
(* The matrices of the solver.                                             *)

LEMMA MinOfNats == ASSUME NEW T, T \subseteq Nat, T # {} PROVE Min(T) \in T /\ \A y \in T : Min(T) <= y
BY LeastExists DEF Min

ListsOK == vision \in Lists /\ radar \in Lists

LEMMA Sizes ==
  ASSUME ListsOK
  PROVE  /\ n \in 1 .. MaxDetections
         /\ \E r, c \in 1 .. n : Rows = 1 .. r /\ Columns = 1 .. c /\ (n = r \/ n = c)
         /\ Rows \subseteq Index /\ Columns \subseteq Index
         /\ \A i \in Rows : vision[i] \in Azimuth
         /\ \A j \in Columns : radar[j] \in Azimuth
<1>1. PICK r \in 1 .. MaxDetections : vision \in [1 .. r -> Azimuth]
  BY DEF ListsOK, Lists
<1>2. PICK c \in 1 .. MaxDetections : radar \in [1 .. c -> Azimuth]
  BY DEF ListsOK, Lists
<1>3. MaxDetections \in Nat
  BY BoundAssumption
<1>4. Rows = 1 .. r /\ Columns = 1 .. c
  BY <1>1, <1>2 DEF Rows, Columns
<1>5. Cardinality(1 .. r) = r /\ Cardinality(1 .. c) = c
  <2>1. r \in Int /\ c \in Int /\ 1 \in Int
    BY <1>1, <1>2, <1>3
  <2>2. Cardinality(1 .. r) = IF 1 > r THEN 0 ELSE r - 1 + 1
    BY <2>1, FS_Interval
  <2>3. Cardinality(1 .. c) = IF 1 > c THEN 0 ELSE c - 1 + 1
    BY <2>1, FS_Interval
  <2> QED
    BY <2>2, <2>3, <1>3
<1>6. n = Max({r, c})
  BY <1>4, <1>5 DEF n
<1>7. n \in {r, c} /\ n >= r /\ n >= c
  <2>1. \E x \in {r, c} : \A y \in {r, c} : x >= y
    BY <1>3
  <2> QED
    BY <1>6, <2>1 DEF Max
<1>8. r \in 1 .. n /\ c \in 1 .. n /\ n \in 1 .. MaxDetections
  BY <1>3, <1>7
<1>9. Rows \subseteq Index /\ Columns \subseteq Index
  BY <1>3, <1>4, <1>8 DEF Index
<1> QED
  BY <1>1, <1>2, <1>4, <1>7, <1>8, <1>9

Matrices == [Index -> [Index -> Nat]]


(* absAngleDiff is the least angle between two directions, either way round.*)
LEMMA AngleIsLeast ==
  ASSUME NEW a \in -180 .. 180, NEW b \in -180 .. 180
  PROVE  Angle(a, b) = AbsAngleDiff(a, b) /\ Angle(a, b) \in 0 .. 180
<1> DEFINE D == {Abs(a - b + k) : k \in {-360, 0, 360}}
           d == AbsAngleDiff(a, b)
<1>1. a \in Int /\ b \in Int /\ a - b \in -360 .. 360
  OBVIOUS
<1> DEFINE e == a - b
<1>2. e \in -360 .. 360 /\ \A k \in {-360, 0, 360} : a - b + k = e + k
  BY <1>1
<1> HIDE DEF e
<1>3. /\ Abs(e) \in Nat /\ Abs(e + 0) \in Nat /\ Abs(e + 360) \in Nat /\ Abs(e + (-360)) \in Nat
      /\ Abs(e + 0) = Abs(e) /\ Abs(e) <= 360
      /\ e <= 0 => Abs(e + 360) = 360 - Abs(e) /\ Abs(e + (-360)) >= 360
      /\ e >= 0 => Abs(e + (-360)) = 360 - Abs(e) /\ Abs(e + 360) >= 360
  BY <1>2, SMT DEF Abs
<1>4. D = {Abs(e + k) : k \in {-360, 0, 360}}
  BY <1>2
<1>5. D = {Abs(e + (-360)), Abs(e + 0), Abs(e + 360)}
  BY <1>4
<1>6. d = IF Abs(e) > 180 THEN 360 - Abs(e) ELSE Abs(e)
  BY DEF AbsAngleDiff, e
<1>7. D \subseteq Nat
  BY <1>3, <1>5
<1>8. d \in D /\ (\A x \in D : d <= x) /\ d \in 0 .. 180
  <2> DEFINE u == Abs(e)
             v == Abs(e + 360)
             w == Abs(e + (-360))
  <2>1. /\ u \in Nat /\ v \in Nat /\ w \in Nat /\ u <= 360
        /\ \/ v = 360 - u /\ w >= 360
           \/ w = 360 - u /\ v >= 360
    BY <1>2, <1>3
  <2>2. D = {w, u, v} /\ d = IF u > 180 THEN 360 - u ELSE u
    BY <1>3, <1>5, <1>6
  <2> HIDE DEF u, v, w, D, d
  <2>3. d \in 0 .. 180 /\ d <= u /\ d <= v /\ d <= w /\ (d = u \/ d = v \/ d = w)
    BY <2>1, <2>2, SMT
  <2> QED
    BY <2>2, <2>3
<1>9. Angle(a, b) = Min(D)
  BY DEF Angle
<1> HIDE DEF D, d
<1>10. Min(D) \in D /\ \A y \in D : Min(D) <= y
  BY <1>7, <1>8, MinOfNats
<1>11. Min(D) = d
  <2>1. Min(D) \in Nat /\ Min(D) <= d /\ d <= Min(D) /\ d \in Nat
    BY <1>7, <1>8, <1>10
  <2> QED
    BY <2>1
<1> QED
  BY <1>8, <1>9, <1>11 DEF d

LEMMA CostIsNat ==
  ASSUME ListsOK, NEW i \in Rows, NEW j \in Columns
  PROVE  /\ Cost(i, j) \in Nat /\ Angle(vision[i], radar[j]) \in Nat
         /\ <<i, j>> \in Within => /\ Cost(i, j) = Angle(vision[i], radar[j])
                                   /\ Cost(i, j) <= MaxAssociationAngle
         /\ <<i, j>> \notin Within => Cost(i, j) = NoMatchCost
<1>1. vision[i] \in -180 .. 180 /\ radar[j] \in -180 .. 180
  BY Sizes, AzimuthAssumption
<1>2. /\ Angle(vision[i], radar[j]) = AbsAngleDiff(vision[i], radar[j])
      /\ Angle(vision[i], radar[j]) \in Nat
  <2>1. \A a, b \in -180 .. 180 : Angle(a, b) = AbsAngleDiff(a, b) /\ Angle(a, b) \in 0 .. 180
    BY AngleIsLeast
  <2>2. /\ Angle(vision[i], radar[j]) = AbsAngleDiff(vision[i], radar[j])
        /\ Angle(vision[i], radar[j]) \in 0 .. 180
    BY <1>1, <2>1
  <2> QED
    BY <2>2
<1>3. <<i, j>> \in Within <=> Angle(vision[i], radar[j]) <= MaxAssociationAngle
  BY DEF Within
<1> QED
  BY <1>2, <1>3, CostAssumption DEF Cost


LEMMA PaddedIsNat ==
  ASSUME ListsOK PROVE Padded \in Matrices /\ Index # {} /\ n \in Nat /\ IsFiniteSet(Index) /\ Index \subseteq Nat
<1>1. n \in 1 .. MaxDetections
  BY Sizes
<1>2. n \in Nat /\ Index # {} /\ Index \subseteq Nat
  BY <1>1, BoundAssumption DEF Index
<1>3. IsFiniteSet(Index)
  BY <1>2, FS_Interval DEF Index
<1>4. \A i, j \in Index : (IF i \in Rows /\ j \in Columns THEN Cost(i, j) ELSE 0) \in Nat
  BY CostIsNat
<1> QED
  BY <1>2, <1>3, <1>4 DEF Padded, Matrices

(* Both reductions leave naturals, and take a number from each row or from each column.*)
LEMMA RowsReduced ==
  ASSUME ListsOK, NEW M \in Matrices
  PROVE  /\ ReduceRows(M) \in Matrices
         /\ \E u \in [Index -> Int] : \A i, j \in Index : ReduceRows(M)[i][j] = M[i][j] - u[i]
<1> DEFINE u == [i \in Index |-> Min(Range(M[i]))]
<1>1. DOMAIN M = Index /\ \A i \in Index : M[i] \in [Index -> Nat] /\ DOMAIN M[i] = Index
  BY DEF Matrices
<1>2. \A i \in Index : u[i] \in Nat /\ \A j \in Index : u[i] <= M[i][j]
  <2> SUFFICES ASSUME NEW i \in Index PROVE u[i] \in Nat /\ \A j \in Index : u[i] <= M[i][j]
    OBVIOUS
  <2> DEFINE T == Range(M[i])
  <2>1. T \subseteq Nat /\ T # {} /\ \A j \in Index : M[i][j] \in T
    BY <1>1, PaddedIsNat DEF Range
  <2>2. u[i] = Min(T)
    OBVIOUS
  <2> HIDE DEF T, u
  <2>3. Min(T) \in T /\ \A y \in T : Min(T) <= y
    BY <2>1, MinOfNats
  <2> QED
    BY <2>1, <2>2, <2>3
<1>3. ReduceRows(M) = [i \in Index |-> [j \in Index |-> M[i][j] - u[i]]]
  BY <1>1 DEF ReduceRows
<1> HIDE DEF u
<1>4. \A i, j \in Index : M[i][j] - u[i] \in Nat
  <2> SUFFICES ASSUME NEW i \in Index, NEW j \in Index PROVE M[i][j] - u[i] \in Nat
    OBVIOUS
  <2>1. M[i][j] \in Nat /\ u[i] \in Nat /\ u[i] <= M[i][j]
    BY <1>1, <1>2
  <2> QED
    BY <2>1
<1>5. u \in [Index -> Int]
  BY <1>2 DEF u
<1> QED
  BY <1>3, <1>4, <1>5 DEF Matrices

LEMMA ColumnsReduced ==
  ASSUME ListsOK, NEW M \in Matrices
  PROVE  /\ ReduceColumns(M) \in Matrices
         /\ \E v \in [Index -> Int] : \A i, j \in Index : ReduceColumns(M)[i][j] = M[i][j] - v[j]
<1> DEFINE v == [j \in Index |-> Min({M[k][j] : k \in Index})]
<1>1. DOMAIN M = Index /\ \A i \in Index : M[i] \in [Index -> Nat]
  BY DEF Matrices
<1>2. \A j \in Index : v[j] \in Nat /\ \A i \in Index : v[j] <= M[i][j]
  <2> SUFFICES ASSUME NEW j \in Index PROVE v[j] \in Nat /\ \A i \in Index : v[j] <= M[i][j]
    OBVIOUS
  <2> DEFINE T == {M[k][j] : k \in Index}
  <2>1. T \subseteq Nat /\ T # {} /\ \A i \in Index : M[i][j] \in T
    BY <1>1, PaddedIsNat
  <2>2. v[j] = Min(T)
    OBVIOUS
  <2> HIDE DEF T, v
  <2>3. Min(T) \in T /\ \A y \in T : Min(T) <= y
    BY <2>1, MinOfNats
  <2> QED
    BY <2>1, <2>2, <2>3
<1>3. ReduceColumns(M) = [i \in Index |-> [j \in Index |-> M[i][j] - v[j]]]
  BY <1>1 DEF ReduceColumns
<1> HIDE DEF v
<1>4. \A i, j \in Index : M[i][j] - v[j] \in Nat
  <2> SUFFICES ASSUME NEW i \in Index, NEW j \in Index PROVE M[i][j] - v[j] \in Nat
    OBVIOUS
  <2>1. M[i][j] \in Nat /\ v[j] \in Nat /\ v[j] <= M[i][j]
    BY <1>1, <1>2
  <2> QED
    BY <2>1
<1>5. v \in [Index -> Int]
  BY <1>2 DEF v
<1> QED
  BY <1>3, <1>4, <1>5 DEF Matrices

(* What is left of the padded costs, in M.                                 *)
Reduced(M) ==
    \E u, v \in [Index -> Int] : \A i, j \in Index : M[i][j] = Padded[i][j] - u[i] - v[j]

LEMMA FirstMatrix ==
  ASSUME ListsOK
  PROVE  LET M == ReduceColumns(ReduceRows(Padded)) IN M \in Matrices /\ Reduced(M)
<1> DEFINE R == ReduceRows(Padded)
           M == ReduceColumns(R)
<1>1. Padded \in Matrices
  BY PaddedIsNat
<1>2. R \in Matrices
  BY <1>1, RowsReduced
<1>3. PICK u \in [Index -> Int] : \A i, j \in Index : R[i][j] = Padded[i][j] - u[i]
  BY <1>1, RowsReduced
<1> HIDE DEF R
<1>4. M \in Matrices
  BY <1>2, ColumnsReduced
<1>5. PICK v \in [Index -> Int] : \A i, j \in Index : M[i][j] = R[i][j] - v[j]
  BY <1>2, ColumnsReduced
<1> HIDE DEF M
<1>6. \A i, j \in Index : M[i][j] = Padded[i][j] - u[i] - v[j]
  BY <1>3, <1>5
<1>7. Reduced(M)
  BY <1>6 DEF Reduced
<1> QED
  BY <1>4, <1>7 DEF M, R


----------------------------------------------------------------------------
(* The assignment.                                                         *)

Assignments == [Index -> Index \cup {-1}]

(* Assigned rows have a zero, in a column of their own.                    *)
Zeros(M, a) == \A i \in Index : a[i] # -1 => /\ M[i][a[i]] = 0
                                             /\ \A k \in Index \ {i} : a[k] # a[i]

LEMMA ZerosOfAssigned == AssignedZeros <=> Zeros(matrix, rowAssignment)
BY DEF AssignedZeros, Zeros, Unassigned

(* The function that Greedy defines, up to row k.                          *)
FreeZeros(M, i, taken) == {j \in DOMAIN M \ taken : M[i][j] = 0}
First(M, i, taken) == IF FreeZeros(M, i, taken) = {} THEN -1 ELSE Min(FreeZeros(M, i, taken))
Assigns(M, k, G) ==
    G = [i \in 0 .. k |-> IF i = 0 THEN [l \in DOMAIN M |-> -1]
                          ELSE [G[i - 1] EXCEPT ![i] = First(M, i, Range(G[i - 1]))]]

LEMMA GreedyIsChosen ==
  ASSUME NEW M PROVE Greedy(M) = (CHOOSE G : Assigns(M, Cardinality(DOMAIN M), G))[Cardinality(DOMAIN M)]
BY DEF Greedy, Assigns, First, FreeZeros

LEMMA AssignsExists == ASSUME NEW M, NEW m \in Nat PROVE \E G : Assigns(M, m, G)
<1> DEFINE K == {k \in Nat : \E G : Assigns(M, k, G)}
           none == [l \in DOMAIN M |-> -1]
           next(i, a) == [a EXCEPT ![i] = First(M, i, Range(a))]
<1>0. ASSUME NEW k, NEW G PROVE Assigns(M, k, G) <=>
        G = [i \in 0 .. k |-> IF i = 0 THEN none ELSE next(i, G[i - 1])]
  BY DEF Assigns
<1> HIDE DEF none, next
<1>1. 0 \in K
  <2> DEFINE G == [i \in 0 .. 0 |-> none]
  <2>1. \A i \in 0 .. 0 : i = 0
    OBVIOUS
  <2>2. G = [i \in 0 .. 0 |-> IF i = 0 THEN none ELSE next(i, G[i - 1])]
    BY <2>1
  <2> HIDE DEF G
  <2> QED
    BY <1>0, <2>2
<1>2. ASSUME NEW k \in Nat, k \in K PROVE k + 1 \in K
  <2>1. PICK G : Assigns(M, k, G)
    BY <1>2
  <2>2. G = [i \in 0 .. k |-> IF i = 0 THEN none ELSE next(i, G[i - 1])]
    BY <1>0, <2>1
  <2> DEFINE H == [i \in 0 .. k + 1 |-> IF i = 0 THEN none ELSE next(i, G[i - 1])]
  <2>3. \A i \in 0 .. k : i \in 0 .. k + 1 /\ G[i] = IF i = 0 THEN none ELSE next(i, G[i - 1])
    BY <2>2
  <2>4. \A i \in 0 .. k : H[i] = G[i]
    BY <2>3
  <2>5. H = [i \in 0 .. k + 1 |-> H[i]]
    OBVIOUS
  <2>6. \A i \in 0 .. k + 1 : H[i] = IF i = 0 THEN none ELSE next(i, G[i - 1])
    OBVIOUS
  <2> HIDE DEF H
  <2>7. \A i \in 0 .. k + 1 : i # 0 => H[i - 1] = G[i - 1]
    BY <2>4
  <2>8. H = [i \in 0 .. k + 1 |-> IF i = 0 THEN none ELSE next(i, H[i - 1])]
    BY <2>5, <2>6, <2>7
  <2> QED
    BY <1>0, <2>8
<1>3. Nat \subseteq K
  BY <1>1, <1>2, NatsByInduction
<1> QED
  BY <1>3

(* Greedy's assignment: nobody takes a column that is taken.               *)
LEMMA GreedyAssigns ==
  ASSUME ListsOK, NEW M \in Matrices
  PROVE  Greedy(M) \in Assignments /\ Zeros(M, Greedy(M))
<1> DEFINE m == Cardinality(DOMAIN M)
           G == CHOOSE G : Assigns(M, m, G)
           Good(k) == /\ G[k] \in Assignments /\ Zeros(M, G[k])
                      /\ \A i \in Index : i > k => G[k][i] = -1
           K == {k \in Nat : k <= n => Good(k)}
<1>1. DOMAIN M = Index /\ n \in Nat /\ m = n
  <2>1. DOMAIN M = Index /\ n \in Nat
    BY PaddedIsNat DEF Matrices
  <2>2. Cardinality(1 .. n) = IF 1 > n THEN 0 ELSE n - 1 + 1
    BY <2>1, FS_Interval
  <2> QED
    BY <2>1, <2>2 DEF Index
<1>2. Assigns(M, n, G)
  BY <1>1, AssignsExists
<1>3. Greedy(M) = G[n]
  BY <1>1, GreedyIsChosen
<1> HIDE DEF G
<1>4. \A k \in 0 .. n : G[k] = IF k = 0 THEN [l \in Index |-> -1]
                               ELSE [G[k - 1] EXCEPT ![k] = First(M, k, Range(G[k - 1]))]
  BY <1>1, <1>2 DEF Assigns
<1>5. 0 \in K
  <2>0. 0 \in 0 .. n
    BY <1>1
  <2>1. G[0] = [l \in Index |-> -1]
    BY <1>4, <2>0
  <2> QED
    BY <2>1 DEF Assignments, Zeros
<1>6. ASSUME NEW k \in Nat, k \in K PROVE k + 1 \in K
  <2> SUFFICES ASSUME k + 1 <= n PROVE Good(k + 1)
    OBVIOUS
  <2> DEFINE a == G[k]
             f == First(M, k + 1, Range(a))
             b == G[k + 1]
             F == FreeZeros(M, k + 1, Range(a))
  <2>1. a \in Assignments /\ Zeros(M, a) /\ \A i \in Index : i > k => a[i] = -1
    BY <1>1, <1>6
  <2>2. k + 1 \in Index /\ b = [a EXCEPT ![k + 1] = f]
    <3>1. k + 1 \in 0 .. n /\ k + 1 # 0 /\ (k + 1) - 1 = k
      BY <1>1
    <3>2. k + 1 \in Index
      BY <1>1 DEF Index
    <3> QED
      BY <1>4, <3>1, <3>2
  <2> HIDE DEF a, b
  <2>3. F \subseteq Nat /\ \A j \in F : j \in Index /\ M[k + 1][j] = 0 /\ j # -1 /\ \A i \in Index : a[i] # j
    BY <1>1, <2>1, PaddedIsNat DEF FreeZeros, Range, Assignments
  <2>4. f = -1 \/ f \in F
    <3> HIDE DEF F
    <3>1. F # {} => Min(F) \in F
      BY <2>3, MinOfNats
    <3> QED
      BY <3>1 DEF First, F
  <2> HIDE DEF f, F
  <2>5. f \in Index \cup {-1} /\ (f # -1 => M[k + 1][f] = 0 /\ \A i \in Index : a[i] # f)
    BY <2>3, <2>4
  <2>6. b \in Assignments /\ b[k + 1] = f /\ \A i \in Index \ {k + 1} : b[i] = a[i]
    BY <2>1, <2>2, <2>5 DEF Assignments
  <2>7. Zeros(M, b)
    BY <2>1, <2>2, <2>5, <2>6 DEF Zeros
  <2>8. \A i \in Index : i > k + 1 => b[i] = -1
    <3>1. \A i \in Index : i > k + 1 => i > k /\ i # k + 1
      BY <1>1 DEF Index
    <3> QED
      BY <2>1, <2>6, <3>1
  <2> QED
    BY <2>6, <2>7, <2>8 DEF b
<1>7. Nat \subseteq K
  <2> HIDE DEF K
  <2> QED
    BY <1>5, <1>6, NatsByInduction
<1>8. Good(n)
  BY <1>1, <1>7
<1> QED
  BY <1>3, <1>8


----------------------------------------------------------------------------
(* The search.                                                             *)

(* A pass takes something from the free columns only, which have no assigned row.*)
LEMMA AdjustedMatrix ==
  ASSUME ListsOK, matrix \in Matrices, rowAssignment \in Assignments, Reduced(matrix)
  PROVE  /\ Adjusted(matrix) \in Matrices /\ Reduced(Adjusted(matrix))
         /\ Zeros(matrix, rowAssignment) => Zeros(Adjusted(matrix), rowAssignment)
<1> DEFINE free == Index \ Covered
           L == {matrix[i][j] : i \in Index, j \in free}
           least == Min(L)
           M == Adjusted(matrix)
<1>1. M = [i \in Index |-> [j \in Index |-> IF j \in free THEN matrix[i][j] - least ELSE matrix[i][j]]]
  BY DEF Adjusted
<1>2. \A i, j \in Index : matrix[i][j] \in Nat
  BY DEF Matrices
<1>3. free # {} => least \in Nat /\ \A i \in Index, j \in free : least <= matrix[i][j]
  <2> SUFFICES ASSUME free # {} PROVE least \in Nat /\ \A i \in Index, j \in free : least <= matrix[i][j]
    OBVIOUS
  <2>1. L \subseteq Nat /\ L # {} /\ \A i \in Index, j \in free : matrix[i][j] \in L
    <3>1. \A x \in L : \E i \in Index, j \in Index : x = matrix[i][j]
      OBVIOUS
    <3>2. \A i \in Index, j \in free : matrix[i][j] \in L
      OBVIOUS
    <3>3. PICK i \in Index, j \in free : TRUE
      BY PaddedIsNat
    <3> HIDE DEF L
    <3> QED
      BY <1>2, <3>1, <3>2, <3>3
  <2> HIDE DEF L
  <2>2. Min(L) \in L /\ \A y \in L : Min(L) <= y
    BY <2>1, MinOfNats
  <2> QED
    BY <2>1, <2>2
<1> HIDE DEF M, least
<1>4. \A i, j \in Index : M[i][j] = IF j \in free THEN matrix[i][j] - least ELSE matrix[i][j]
  BY <1>1
<1>5. \A i, j \in Index : M[i][j] \in Nat
  <2> SUFFICES ASSUME NEW i \in Index, NEW j \in Index PROVE M[i][j] \in Nat
    OBVIOUS
  <2>1. CASE j \in free
    <3>1. matrix[i][j] \in Nat /\ least \in Nat /\ least <= matrix[i][j]
      BY <1>2, <1>3, <2>1
    <3> QED
      BY <1>4, <2>1, <3>1
  <2>2. CASE j \notin free
    BY <1>2, <1>4, <2>2
  <2> QED
    BY <2>1, <2>2
<1>6. M \in Matrices
  BY <1>1, <1>4, <1>5 DEF Matrices
<1>7. Reduced(M)
  <2>1. PICK u \in [Index -> Int], v \in [Index -> Int] :
            \A i, j \in Index : matrix[i][j] = Padded[i][j] - u[i] - v[j]
    BY DEF Reduced
  <2> DEFINE w == [j \in Index |-> IF j \in free THEN v[j] + least ELSE v[j]]
  <2>2. w \in [Index -> Int] /\ \A j \in Index : w[j] = IF j \in free THEN v[j] + least ELSE v[j]
    BY <1>3
  <2> HIDE DEF w, free
  <2>3. ASSUME NEW i \in Index, NEW j \in Index PROVE M[i][j] = Padded[i][j] - u[i] - w[j]
    <3>1. Padded[i][j] \in Int /\ u[i] \in Int /\ v[j] \in Int
      BY PaddedIsNat DEF Matrices
    <3>2. matrix[i][j] = Padded[i][j] - u[i] - v[j]
      BY <2>1
    <3>3. CASE j \in free
      <4>1. least \in Int
        BY <1>3, <3>3
      <4> QED
        BY <1>4, <2>2, <3>1, <3>2, <3>3, <4>1
    <3>4. CASE j \notin free
      BY <1>4, <2>2, <3>1, <3>2, <3>4
    <3> QED
      BY <3>3, <3>4
  <2> QED
    BY <2>2, <2>3 DEF Reduced
<1>8. Zeros(matrix, rowAssignment) => Zeros(M, rowAssignment)
  <2>1. \A i \in Index : rowAssignment[i] \in Index \cup {-1} /\ rowAssignment[i] \in Covered
    BY DEF Covered, Range, Assignments
  <2>2. \A i \in Index : rowAssignment[i] # -1 => M[i][rowAssignment[i]] = matrix[i][rowAssignment[i]]
    BY <1>4, <2>1
  <2> QED
    BY <2>2 DEF Zeros
<1> QED
  BY <1>6, <1>7, <1>8 DEF M

(* A flip along an augmenting path gives every row of the path a column, and takes none away.*)
LEMMA FlippedAssignment ==
  ASSUME ListsOK, rowAssignment \in Assignments, NEW M, Zeros(M, rowAssignment), NEW pj \in Paths(M)
  PROVE  LET a == Flip(pj[1], pj[2])
         IN  /\ a \in Assignments /\ Zeros(M, a)
             /\ \A i \in Index : rowAssignment[i] # -1 => a[i] # -1
<1> DEFINE p == pj[1]
           j == pj[2]
           old == rowAssignment
           a == Flip(p, j)
<1>1. /\ \E k \in Index : p \in [1 .. k -> Index]
      /\ j \in Index /\ Path(M, p, j)
  BY DEF Paths
<1>2. PICK k \in Index : p \in [1 .. k -> Index]
  BY <1>1
<1>3. k \in Nat /\ k >= 1 /\ DOMAIN p = 1 .. k /\ Cardinality(DOMAIN p) = k /\ -1 \notin Index
  <2>1. k \in Nat /\ k >= 1 /\ DOMAIN p = 1 .. k /\ -1 \notin Index
    BY <1>2, PaddedIsNat DEF Index
  <2>2. Cardinality(1 .. k) = IF 1 > k THEN 0 ELSE k - 1 + 1
    BY <2>1, FS_Interval
  <2> QED
    BY <2>1, <2>2
<1> HIDE DEF p, j
<1>4. /\ \A l \in 1 .. k : \A m \in 1 .. k : p[l] = p[m] => l = m
      /\ \A m \in 2 .. k : old[p[m]] # -1 /\ M[p[m - 1]][old[p[m]]] = 0
      /\ j \notin Covered /\ M[p[k]][j] = 0
  BY <1>1, <1>3 DEF Path, IsInjective
<1> DEFINE new(m) == IF m + 1 \in 1 .. k THEN old[p[m + 1]] ELSE j
<1>5. \A i \in Index : i \notin Range(p) => a[i] = old[i]
  BY DEF Flip
<1>6. ASSUME NEW m \in 1 .. k PROVE p[m] \in Index /\ p[m] \in Range(p) /\ a[p[m]] = new(m)
  <2>1. p[m] \in Index /\ p[m] \in Range(p)
    BY <1>2, <1>3 DEF Range
  <2>2. (CHOOSE l \in DOMAIN p : p[l] = p[m]) = m
    BY <1>3, <1>4
  <2>3. a[p[m]] = LET l == CHOOSE l \in DOMAIN p : p[l] = p[m]
                  IN  IF l + 1 \in DOMAIN p THEN old[p[l + 1]] ELSE j
    BY <2>1 DEF Flip
  <2> HIDE DEF a
  <2> QED
    BY <1>3, <2>1, <2>2, <2>3
<1> HIDE DEF a
<1>7. \A i \in Index : i \in Range(p) => \E m \in 1 .. k : i = p[m]
  BY <1>3 DEF Range
<1>8. \A i \in Index : old[i] \in Index \cup {-1} /\ old[i] # j
  BY <1>4 DEF Covered, Range, Assignments
<1>9. ASSUME NEW m \in 1 .. k PROVE new(m) \in Index /\ new(m) # -1 /\ M[p[m]][new(m)] = 0
  <2>1. CASE m + 1 \in 1 .. k
    <3>1. m + 1 \in 2 .. k /\ (m + 1) - 1 = m
      BY <1>3, <2>1
    <3>2. p[m + 1] \in Index
      BY <1>6, <2>1
    <3>3. old[p[m + 1]] # -1 /\ M[p[m]][old[p[m + 1]]] = 0
      BY <1>4, <3>1
    <3> QED
      BY <1>8, <2>1, <3>2, <3>3
  <2>2. CASE m + 1 \notin 1 .. k
    <3>1. m = k
      BY <1>3, <2>2
    <3> QED
      BY <1>1, <1>3, <1>4, <2>2, <3>1
  <2> QED
    BY <2>1, <2>2
<1>10. \A i \in Index : old[i] # -1 => \A l \in Index \ {i} : old[l] # old[i]
  BY DEF Zeros
<1>11. ASSUME NEW l \in 1 .. k, NEW m \in 1 .. k, l # m PROVE new(l) # new(m)
  <2>1. CASE l + 1 \in 1 .. k /\ m + 1 \in 1 .. k
    <3>1. p[l + 1] \in Index /\ p[m + 1] \in Index
      BY <1>6, <2>1
    <3>2. p[l + 1] # p[m + 1]
      BY <1>4, <1>3, <1>11, <2>1
    <3>3. old[p[m + 1]] # -1
      <4>1. m + 1 \in 2 .. k
        BY <1>3, <2>1
      <4> QED
        BY <1>4, <4>1
    <3> QED
      BY <1>10, <2>1, <3>1, <3>2, <3>3
  <2>2. CASE l + 1 \notin 1 .. k
    <3>1. l = k /\ m + 1 \in 1 .. k
      BY <1>3, <1>11, <2>2
    <3> QED
      BY <1>6, <1>8, <2>2, <3>1
  <2>3. CASE m + 1 \notin 1 .. k
    <3>1. m = k /\ l + 1 \in 1 .. k
      BY <1>3, <1>11, <2>3
    <3> QED
      BY <1>6, <1>8, <2>3, <3>1
  <2> QED
    BY <2>1, <2>2, <2>3
<1>12. ASSUME NEW m \in 1 .. k, NEW i \in Index, i \notin Range(p) PROVE new(m) # old[i]
  <2>1. CASE m + 1 \in 1 .. k
    <3>1. p[m + 1] \in Index /\ p[m + 1] # i
      BY <1>6, <1>12, <2>1
    <3>2. m + 1 \in 2 .. k
      BY <1>3, <2>1
    <3>3. old[p[m + 1]] # -1
      BY <1>4, <3>2
    <3> QED
      BY <1>10, <2>1, <3>1, <3>3
  <2>2. CASE m + 1 \notin 1 .. k
    BY <1>8, <2>2
  <2> QED
    BY <2>1, <2>2
<1> HIDE DEF new
<1>13. a \in Assignments
  <2>1. a = [i \in Index |-> a[i]]
    BY DEF a, Flip
  <2>2. \A i \in Index : a[i] \in Index \cup {-1}
    BY <1>5, <1>6, <1>7, <1>8, <1>9
  <2> QED
    BY <2>1, <2>2 DEF Assignments
<1>14. ASSUME NEW i \in Index, a[i] # -1 PROVE M[i][a[i]] = 0 /\ \A l \in Index \ {i} : a[l] # a[i]
  <2>1. CASE i \in Range(p)
    <3>1. PICK m \in 1 .. k : i = p[m]
      BY <1>7, <2>1
    <3>2. M[i][a[i]] = 0 /\ a[i] = new(m)
      BY <1>6, <1>9, <3>1
    <3>3. ASSUME NEW l \in Index, l # i PROVE a[l] # a[i]
      BY <1>5, <1>6, <1>7, <1>11, <1>12, <3>1, <3>2, <3>3
    <3> QED
      BY <3>2, <3>3
  <2>2. CASE i \notin Range(p)
    <3>1. a[i] = old[i] /\ M[i][old[i]] = 0
      BY <1>5, <1>14, <2>2 DEF Zeros
    <3>2. ASSUME NEW l \in Index, l # i PROVE a[l] # a[i]
      BY <1>5, <1>6, <1>7, <1>10, <1>12, <1>14, <2>2, <3>1, <3>2
    <3> QED
      BY <3>1, <3>2
  <2> QED
    BY <2>1, <2>2
<1>15. Zeros(M, a)
  BY <1>14 DEF Zeros
<1>16. \A i \in Index : old[i] # -1 => a[i] # -1
  BY <1>5, <1>6, <1>7, <1>9
<1> QED
  BY <1>13, <1>15, <1>16 DEF a, p, j


(* The solver's inductive invariant: what is left of the costs, and zeros for the assigned rows.*)
SolverInv ==
    /\ ListsOK /\ done \in BOOLEAN
    /\ matrix \in Matrices /\ Reduced(matrix)
    /\ rowAssignment \in Assignments /\ Zeros(matrix, rowAssignment)
    /\ done => Unassigned = {}

LEMMA SolverInit_Inv == SolverInit => SolverInv
<1> SUFFICES ASSUME SolverInit PROVE SolverInv
  OBVIOUS
<1>1. ListsOK /\ done = FALSE
  BY DEF SolverInit, ListsOK
<1>2. matrix \in Matrices /\ Reduced(matrix)
  BY <1>1, FirstMatrix DEF SolverInit
<1>3. rowAssignment \in Assignments /\ Zeros(matrix, rowAssignment)
  BY <1>1, <1>2, GreedyAssigns DEF SolverInit
<1> QED
  BY <1>1, <1>2, <1>3 DEF SolverInv

(* Whatever depends on the lists alone stays.                              *)
LEMMA ListsStay ==
  ASSUME UNCHANGED <<vision, radar>>
  PROVE  /\ ListsOK' <=> ListsOK
         /\ Index' = Index /\ Matrices' = Matrices /\ Assignments' = Assignments /\ Padded' = Padded
<1>1. Rows' = Rows /\ Columns' = Columns /\ n' = n
  BY DEF Rows, Columns, n
<1>2. Index' = Index
  BY <1>1 DEF Index
<1>3. \A i, j : Cost(i, j)' = Cost(i, j)
  BY DEF Cost
<1>4. Padded' = Padded
  BY <1>1, <1>2, <1>3 DEF Padded
<1> QED
  BY <1>2, <1>4 DEF ListsOK, Matrices, Assignments

LEMMA SolverNext_Inv ==
  SolverInv /\ [SolverNext]_solverVars => SolverInv' /\ Unassigned' \subseteq Unassigned
<1> SUFFICES ASSUME SolverInv, [SolverNext]_solverVars PROVE SolverInv' /\ Unassigned' \subseteq Unassigned
  OBVIOUS
<1> USE DEF SolverInv
<1>0. UNCHANGED <<vision, radar>>
  BY DEF SolverNext, Augment, Retry, Return, solverVars
<1>1. ListsOK' /\ Index' = Index /\ Matrices' = Matrices /\ Assignments' = Assignments /\ Padded' = Padded
  BY <1>0, ListsStay
<1>2. Reduced(matrix)' <=> Reduced(matrix')
  BY <1>1 DEF Reduced
<1>3. Zeros(matrix, rowAssignment)' <=> Zeros(matrix', rowAssignment')
  BY <1>1 DEF Zeros
<1>4. Unassigned' = {i \in Index : rowAssignment'[i] = -1}
  BY <1>1 DEF Unassigned
<1>5. CASE Augment
  <2>1. ~done /\ done' = done /\ matrix' = Adjusted(matrix)
    BY <1>5 DEF Augment
  <2>2. PICK pj \in Paths(matrix') : rowAssignment' = Flip(pj[1], pj[2])
    BY <1>5 DEF Augment
  <2>3. matrix' \in Matrices /\ Reduced(matrix') /\ Zeros(matrix', rowAssignment)
    BY <2>1, AdjustedMatrix
  <2>4. /\ rowAssignment' \in Assignments /\ Zeros(matrix', rowAssignment')
        /\ \A i \in Index : rowAssignment[i] # -1 => rowAssignment'[i] # -1
    <3> DEFINE M == matrix'
    <3>1. pj \in Paths(M) /\ Zeros(M, rowAssignment)
      BY <2>3
    <3> HIDE DEF M
    <3>2. LET a == Flip(pj[1], pj[2])
          IN  /\ a \in Assignments /\ Zeros(M, a)
              /\ \A i \in Index : rowAssignment[i] # -1 => a[i] # -1
      BY <3>1, FlippedAssignment
    <3> QED
      BY <2>2, <3>2 DEF M
  <2>5. Unassigned' \subseteq Unassigned
    BY <1>4, <2>4 DEF Unassigned
  <2> QED
    BY <1>1, <1>2, <1>3, <2>1, <2>3, <2>4, <2>5
<1>6. CASE Retry
  <2>1. ~done /\ UNCHANGED <<done, rowAssignment>> /\ matrix' = Adjusted(matrix)
    BY <1>6 DEF Retry
  <2>2. matrix' \in Matrices /\ Reduced(matrix') /\ Zeros(matrix', rowAssignment)
    BY <2>1, AdjustedMatrix
  <2>3. Unassigned' = Unassigned
    BY <1>4, <2>1 DEF Unassigned
  <2> QED
    BY <1>1, <1>2, <1>3, <2>1, <2>2, <2>3
<1>7. CASE Return \/ UNCHANGED solverVars
  <2>1. UNCHANGED <<matrix, rowAssignment>> /\ done' \in BOOLEAN /\ (done' => Unassigned = {})
    <3>1. CASE Return
      BY <3>1 DEF Return
    <3>2. CASE UNCHANGED solverVars
      BY <3>2 DEF solverVars
    <3> QED
      BY <1>7, <3>1, <3>2
  <2>2. Unassigned' = Unassigned
    BY <1>4, <2>1 DEF Unassigned
  <2> QED
    BY <1>1, <1>2, <1>3, <2>1, <2>2
<1> QED
  BY <1>5, <1>6, <1>7 DEF SolverNext

LEMMA SolverInvariant == SolverSpec => []SolverInv
<1>1. SolverInv /\ [SolverNext]_solverVars => SolverInv'
  BY SolverNext_Inv
<1> QED
  BY SolverInit_Inv, <1>1, PTL DEF SolverSpec

(* No pass takes a row's column away without giving it another, whatever   *)
(* path is taken (hungarian.go:275).                                       *)
THEOREM NoRowIsLost == SolverSpec => RowsStayAssigned
<1>1. SolverInv /\ [SolverNext]_solverVars => [Unassigned' \subseteq Unassigned]_solverVars
  BY SolverNext_Inv
<1> QED
  BY SolverInvariant, <1>1, PTL DEF SolverSpec, RowsStayAssigned


----------------------------------------------------------------------------
(* The result.  A permutation is a function that gives each row of the     *)
(* square matrix a column of its own.                                      *)

Permutations == {q \in [Index -> Index] : \A i, k \in Index : q[i] = q[k] => i = k}

LEMMA PermutationCovers == ASSUME ListsOK, NEW q \in Permutations PROVE {q[i] : i \in Index} = Index
<1>1. IsFiniteSet(Index)
  BY PaddedIsNat
<1>2. q \in Injection(Index, Index)
  BY DEF Permutations, Injection, IsInjective
<1>3. q \in Surjection(Index, Index)
  BY <1>1, <1>2, FS_Injection
<1> QED
  BY <1>3 DEF Surjection, Permutations

(* The costs along a permutation, and their sum.                           *)
Along(M, q) == [i \in Index |-> M[i][q[i]]]
Weight(q) == Sum(Along(Padded, q), Index)

(* What has been taken from rows and columns is the same along each permutation: the matrix tells*)
(* which is the lightest.                                                  *)
LEMMA WeightIsReduced ==
  ASSUME ListsOK, NEW M \in Matrices, Reduced(M)
  PROVE  \E c \in Int : \A q \in Permutations : Weight(q) = Sum(Along(M, q), Index) + c
<1>1. PICK u \in [Index -> Int], v \in [Index -> Int] :
          \A i, j \in Index : M[i][j] = Padded[i][j] - u[i] - v[j]
  BY DEF Reduced
<1> DEFINE c == Sum(u, Index) + Sum(v, Index)
<1>2. IsFiniteSet(Index)
  BY PaddedIsNat
<1>3. Sum(u, Index) \in Int /\ Sum(v, Index) \in Int
  <2>1. (\A i \in Index : u[i] \in Int) /\ (\A i \in Index : v[i] \in Int)
    OBVIOUS
  <2> QED
    BY <1>2, <2>1, SumIsInt
<1>4. ASSUME NEW q \in Permutations PROVE Weight(q) = Sum(Along(M, q), Index) + c
  <2> DEFINE f == Along(M, q)
             g == [i \in Index |-> v[q[i]]]
             h == [i \in Index |-> u[i] + v[q[i]]]
             w == Along(Padded, q)
  <2>1. q \in [Index -> Index] /\ \A i, k \in Index : q[i] = q[k] => i = k
    BY DEF Permutations
  <2>2. /\ \A i \in Index : f[i] \in Int /\ u[i] \in Int /\ g[i] \in Int /\ g[i] = v[q[i]]
        /\ \A i \in Index : h[i] = u[i] + g[i]
    BY <2>1 DEF Along, Matrices
  <2>3. \A i \in Index : h[i] \in Int /\ w[i] = f[i] + h[i]
    <3> SUFFICES ASSUME NEW i \in Index PROVE h[i] \in Int /\ w[i] = f[i] + h[i]
      OBVIOUS
    <3>1. w[i] = Padded[i][q[i]] /\ f[i] = M[i][q[i]] /\ h[i] = u[i] + v[q[i]]
      BY DEF Along
    <3>2. M[i][q[i]] = Padded[i][q[i]] - u[i] - v[q[i]]
      BY <1>1, <2>1
    <3>3. Padded[i][q[i]] \in Int /\ u[i] \in Int /\ v[q[i]] \in Int
      BY <2>1, PaddedIsNat DEF Matrices
    <3> QED
      BY <3>1, <3>2, <3>3
  <2> HIDE DEF f, g, h, w
  <2>4. Sum(g, Index) = Sum(v, Index)
    <3>1. Sum(g, Index) = Sum(v, {q[i] : i \in Index})
      <4>1. \A i \in Index : v[q[i]] \in Int
        BY <2>1
      <4> QED
        BY <1>2, <2>1, <2>2, <4>1, SumAlong
    <3> QED
      BY <3>1, PermutationCovers
  <2>5. Sum(h, Index) = Sum(u, Index) + Sum(g, Index)
    BY <1>2, <2>2, SumAdded
  <2>6. Sum(w, Index) = Sum(f, Index) + Sum(h, Index)
    BY <1>2, <2>2, <2>3, SumAdded
  <2>7. Weight(q) = Sum(w, Index)
    BY DEF Weight, w
  <2> QED
    BY <2>4, <2>5, <2>6, <2>7 DEF f
<1> QED
  BY <1>3, <1>4

(* When all rows are assigned, no permutation is lighter.                  *)
LEMMA LightestAssignment ==
  ASSUME SolverInv, Unassigned = {}
  PROVE  rowAssignment \in Permutations /\ \A q \in Permutations : Weight(rowAssignment) <= Weight(q)
<1> USE DEF SolverInv
<1>1. rowAssignment \in [Index -> Index]
  BY DEF Unassigned, Assignments
<1>2. rowAssignment \in Permutations
  <2>1. \A i \in Index : rowAssignment[i] \in Index /\ rowAssignment[i] # -1
    BY <1>1, PaddedIsNat
  <2>2. Zeros(matrix, rowAssignment)
    OBVIOUS
  <2>3. ASSUME NEW i \in Index, NEW k \in Index, rowAssignment[i] = rowAssignment[k] PROVE i = k
    BY <2>1, <2>2, <2>3 DEF Zeros
  <2> QED
    BY <1>1, <2>3 DEF Permutations
<1>3. PICK c \in Int : \A q \in Permutations : Weight(q) = Sum(Along(matrix, q), Index) + c
  BY WeightIsReduced
<1> DEFINE z == Along(matrix, rowAssignment)
<1>4. IsFiniteSet(Index)
  BY PaddedIsNat
<1>5. \A i \in Index : z[i] = 0
  BY <1>1, PaddedIsNat DEF Along, Zeros, Index
<1>6. ASSUME NEW q \in Permutations PROVE Weight(rowAssignment) <= Weight(q)
  <2> DEFINE f == Along(matrix, q)
  <2>1. \A i \in Index : z[i] \in Int /\ f[i] \in Int /\ z[i] <= f[i]
    BY <1>5 DEF Along, Permutations, Matrices
  <2> HIDE DEF z, f
  <2>2. Sum(z, Index) <= Sum(f, Index) /\ Sum(z, Index) \in Int /\ Sum(f, Index) \in Int
    BY <1>4, <2>1, SumLess, SumIsInt
  <2> QED
    BY <1>2, <1>3, <2>2 DEF z, f
<1> QED
  BY <1>2, <1>6


(* Detections that are paired along a permutation, and the pairs of them that are near enough.*)
RealRows(q) == {i \in Rows : q[i] \in Columns}
GoodRows(q) == {i \in RealRows(q) : <<i, q[i]>> \in Within}
Pairs(q, D) == {<<i, q[i]>> : i \in D}

LEMMA RowsAreFinite ==
  ASSUME ListsOK, NEW q, NEW D, D \subseteq RealRows(q)
  PROVE  /\ D \subseteq Index /\ IsFiniteSet(D) /\ Cardinality(D) \in Nat
         /\ IsFiniteSet(Index \ D) /\ IsFiniteSet(RealRows(q)) /\ Cardinality(RealRows(q)) \in Nat
<1>1. RealRows(q) \subseteq Index /\ D \subseteq Index /\ Index \ D \subseteq Index
  BY Sizes DEF RealRows
<1>2. IsFiniteSet(Index)
  BY PaddedIsNat
<1>3. \A S \in SUBSET Index : IsFiniteSet(S) /\ Cardinality(S) \in Nat
  BY <1>2, FS_Subset, FS_CardinalityType
<1> QED
  BY <1>1, <1>3

(* As many are paired whatever the permutation, for the square is no larger than the longer list.*)
LEMMA RealRowsCount ==
  ASSUME ListsOK PROVE \E m \in Nat : \A q \in Permutations : Cardinality(RealRows(q)) = m
<1>1. PICK r, c \in 1 .. n : Rows = 1 .. r /\ Columns = 1 .. c /\ (n = r \/ n = c)
  BY Sizes
<1>2. IsFiniteSet(Rows) /\ IsFiniteSet(Columns)
  BY Sizes, PaddedIsNat, FS_Subset
<1>3. CASE n = r
  <2>1. Rows = Index
    BY <1>1, <1>3 DEF Index
  <2>2. ASSUME NEW q \in Permutations PROVE Cardinality(RealRows(q)) = Cardinality(Columns)
    <3> DEFINE R == RealRows(q)
               f == [i \in R |-> q[i]]
    <3>1. f \in Injection(R, Columns)
      BY <2>1 DEF RealRows, Permutations, Injection, IsInjective
    <3>2. \A j \in Columns : \E i \in R : f[i] = j
      <4> SUFFICES ASSUME NEW j \in Columns PROVE \E i \in R : f[i] = j
        OBVIOUS
      <4>1. j \in {q[i] : i \in Index}
        BY PermutationCovers, Sizes
      <4>2. PICK i \in Index : q[i] = j
        BY <4>1
      <4>3. i \in R
        BY <2>1, <4>2 DEF RealRows
      <4> QED
        BY <4>2, <4>3
    <3>3. f \in Bijection(R, Columns)
      BY <3>1, <3>2 DEF Bijection, Injection, Surjection
    <3>4. ExistsBijection(R, Columns) /\ IsFiniteSet(R)
      BY <3>3, RowsAreFinite DEF ExistsBijection
    <3> QED
      BY <3>4, FS_Bijection
  <2> QED
    BY <1>2, <2>2, FS_CardinalityType
<1>4. CASE n = c
  <2>1. Columns = Index
    BY <1>1, <1>4 DEF Index
  <2>2. \A q \in Permutations : RealRows(q) = Rows
    BY <2>1, Sizes DEF RealRows, Permutations
  <2> QED
    BY <1>2, <2>2, FS_CardinalityType
<1> QED
  BY <1>1, <1>3, <1>4

LEMMA SumEqual ==
  ASSUME NEW S, IsFiniteSet(S), NEW f, NEW g, \A x \in S : f[x] \in Int /\ g[x] = f[x]
  PROVE  Sum(f, S) = Sum(g, S)
<1>1. /\ \A x \in S : f[x] \in Int /\ g[x] \in Int /\ f[x] <= g[x]
      /\ \A x \in S : f[x] \in Int /\ g[x] \in Int /\ g[x] <= f[x]
  OBVIOUS
<1>2. Sum(f, S) <= Sum(g, S) /\ Sum(g, S) <= Sum(f, S) /\ Sum(f, S) \in Int /\ Sum(g, S) \in Int
  BY <1>1, SumLess, SumIsInt
<1> QED
  BY <1>2

(* The angles along a permutation.                                         *)
Turns(q) == [i \in Index |-> IF i \in RealRows(q) THEN Angle(vision[i], radar[q[i]]) ELSE 0]

LEMMA TurnsAreNat ==
  ASSUME ListsOK, NEW q \in Permutations
  PROVE  /\ \A i \in Index : Turns(q)[i] \in Nat
         /\ \A i \in Index : Along(Padded, q)[i] = IF i \in GoodRows(q) THEN Turns(q)[i]
                                                   ELSE IF i \in RealRows(q) THEN NoMatchCost ELSE 0
         /\ \A i \in GoodRows(q) : Turns(q)[i] <= MaxAssociationAngle
<1>1. q \in [Index -> Index]
  BY DEF Permutations
<1>2. \A i \in Index : Turns(q)[i] = IF i \in RealRows(q) THEN Angle(vision[i], radar[q[i]]) ELSE 0
  BY DEF Turns
<1>3. \A i \in Index : Along(Padded, q)[i] = IF i \in RealRows(q) THEN Cost(i, q[i]) ELSE 0
  BY <1>1 DEF Along, Padded, RealRows
<1>4. \A i \in RealRows(q) : i \in Rows /\ q[i] \in Columns /\ i \in Index
  BY Sizes DEF RealRows
<1>5. \A i \in RealRows(q) : i \in GoodRows(q) <=> <<i, q[i]>> \in Within
  BY DEF GoodRows
<1>6. GoodRows(q) \subseteq RealRows(q)
  BY DEF GoodRows
<1>7. ASSUME NEW i \in RealRows(q)
      PROVE  /\ Angle(vision[i], radar[q[i]]) \in Nat
             /\ <<i, q[i]>> \in Within => /\ Cost(i, q[i]) = Angle(vision[i], radar[q[i]])
                                          /\ Cost(i, q[i]) <= MaxAssociationAngle
             /\ <<i, q[i]>> \notin Within => Cost(i, q[i]) = NoMatchCost
  BY <1>4, CostIsNat
<1>8. ASSUME NEW i \in Index PROVE Turns(q)[i] \in Nat
  <2>1. CASE i \in RealRows(q)
    BY <1>2, <1>7, <2>1
  <2>2. CASE i \notin RealRows(q)
    BY <1>2, <2>2
  <2> QED
    BY <2>1, <2>2
<1>9. ASSUME NEW i \in Index
      PROVE  Along(Padded, q)[i] = IF i \in GoodRows(q) THEN Turns(q)[i]
                                   ELSE IF i \in RealRows(q) THEN NoMatchCost ELSE 0
  BY <1>2, <1>3, <1>5, <1>6, <1>7
<1>10. \A i \in GoodRows(q) : Turns(q)[i] <= MaxAssociationAngle
  BY <1>2, <1>4, <1>5, <1>6, <1>7
<1> QED
  BY <1>8, <1>9, <1>10

(* A permutation weighs no more than good pairs of it and a no-match for each of the others, and as*)
(* much when all good pairs are taken.                                     *)
LEMMA WeightOfPairs ==
  ASSUME ListsOK, NEW q \in Permutations, NEW D, D \subseteq GoodRows(q)
  PROVE  LET w == Sum(Turns(q), D) + NoMatchCost * (Cardinality(RealRows(q)) - Cardinality(D))
         IN  /\ Weight(q) <= w
             /\ D = GoodRows(q) => Weight(q) = w
<1> DEFINE R == RealRows(q)
           t == Turns(q)
           a == Along(Padded, q)
           h == [i \in Index |-> IF i \in D THEN t[i] ELSE IF i \in R THEN NoMatchCost ELSE 0]
<1>1. D \subseteq R
  BY DEF GoodRows
<1>2. /\ D \subseteq Index /\ R \subseteq Index /\ IsFiniteSet(Index) /\ IsFiniteSet(D) /\ IsFiniteSet(R)
      /\ Cardinality(R) \in Nat /\ Cardinality(D) \in Nat
  BY <1>1, RowsAreFinite, PaddedIsNat
<1>3. NoMatchCost \in Nat /\ MaxAssociationAngle \in Nat /\ MaxAssociationAngle <= NoMatchCost
  <2>1. \A x, y \in Nat : y >= 1 => y * x >= x
    BY SMT
  <2>2. MaxDetections * MaxAssociationAngle >= MaxAssociationAngle
    BY <2>1, CostAssumption, BoundAssumption
  <2>3. MaxDetections * MaxAssociationAngle \in Nat
    BY CostAssumption, BoundAssumption
  <2> QED
    BY <2>2, <2>3, CostAssumption
<1>4. /\ \A i \in Index : t[i] \in Nat
      /\ \A i \in Index : a[i] = IF i \in GoodRows(q) THEN t[i] ELSE IF i \in R THEN NoMatchCost ELSE 0
      /\ \A i \in GoodRows(q) : t[i] <= MaxAssociationAngle
  BY TurnsAreNat
<1>5. \A i \in Index : h[i] = IF i \in D THEN t[i] ELSE IF i \in R THEN NoMatchCost ELSE 0
  OBVIOUS
<1> HIDE DEF h, t, a, R
<1>6. \A i \in Index : h[i] \in Int /\ a[i] \in Int /\ a[i] <= h[i]
  <2>1. GoodRows(q) \subseteq R
    BY DEF GoodRows, R
  <2> QED
    BY <1>1, <1>2, <1>3, <1>4, <1>5, <2>1
<1>7. Sum(a, Index) <= Sum(h, Index)
  BY <1>2, <1>6, SumLess
<1>8. D = GoodRows(q) => Sum(a, Index) = Sum(h, Index)
  <2> SUFFICES ASSUME D = GoodRows(q) PROVE Sum(a, Index) = Sum(h, Index)
    OBVIOUS
  <2>1. \A i \in Index : a[i] \in Int /\ h[i] = a[i]
    BY <1>4, <1>5, <1>6
  <2> QED
    BY <1>2, <2>1, SumEqual
<1>9. Sum(h, Index) = Sum(t, D) + NoMatchCost * (Cardinality(R) - Cardinality(D))
  <2> DEFINE B == R \ D
             C == Index \ R
  <2>1. IsFiniteSet(B) /\ IsFiniteSet(C) /\ IsFiniteSet(B \cup C)
    <3>1. B \in SUBSET Index /\ C \in SUBSET Index /\ B \cup C \in SUBSET Index
      BY <1>2
    <3> QED
      BY <1>2, <3>1, FS_Subset
  <2>2. Index = D \cup (B \cup C) /\ D \cap (B \cup C) = {} /\ B \cap C = {} /\ R = D \cup B /\ D \cap B = {}
    BY <1>1, <1>2
  <2>3. Sum(h, Index) = Sum(h, D) + Sum(h, B \cup C)
    BY <1>2, <1>6, <2>1, <2>2, SumOfParts
  <2>4. Sum(h, B \cup C) = Sum(h, B) + Sum(h, C)
    <3>1. \A i \in B \cup C : h[i] \in Int
      BY <1>2, <1>6
    <3> QED
      BY <2>1, <2>2, <3>1, SumOfParts
  <2>5. Sum(t, D) = Sum(h, D)
    <3>1. \A i \in D : t[i] \in Int /\ h[i] = t[i]
      BY <1>2, <1>4, <1>5
    <3> QED
      BY <1>2, <3>1, SumEqual
  <2>6. Sum(h, B) = NoMatchCost * Cardinality(B)
    <3>1. \A i \in B : h[i] = NoMatchCost
      BY <1>2, <1>5
    <3> QED
      BY <1>3, <2>1, <3>1, SumOfSame
  <2>7. Sum(h, C) = 0
    <3>1. \A i \in C : h[i] = 0
      BY <1>1, <1>5
    <3>2. Sum(h, C) = 0 * Cardinality(C)
      BY <2>1, <3>1, SumOfSame
    <3>3. Cardinality(C) \in Nat
      BY <2>1, FS_CardinalityType
    <3> QED
      BY <3>2, <3>3
  <2>8. Cardinality(B) = Cardinality(R) - Cardinality(D)
    <3>1. Cardinality(D \cup B) = Cardinality(D) + Cardinality(B) - Cardinality(D \cap B)
      BY <1>2, <2>1, FS_Union
    <3>2. Cardinality(D \cap B) = 0
      BY <2>2, FS_EmptySet
    <3>3. Cardinality(B) \in Nat
      BY <2>1, FS_CardinalityType
    <3> HIDE DEF B
    <3> QED
      BY <1>2, <2>2, <3>1, <3>2, <3>3
  <2>9. Sum(h, B) \in Int /\ Sum(h, D) \in Int
    <3>1. (\A i \in B : h[i] \in Int) /\ (\A i \in D : h[i] \in Int)
      BY <1>2, <1>6
    <3> QED
      BY <1>2, <2>1, <3>1, SumIsInt
  <2> HIDE DEF B, C
  <2> QED
    BY <2>3, <2>4, <2>5, <2>6, <2>7, <2>8, <2>9
<1>10. Weight(q) = Sum(a, Index)
  BY DEF Weight, a
<1> QED
  BY <1>7, <1>8, <1>9, <1>10 DEF t, R


(* Pairs of a permutation are a matching, with one pair for each row and the angles of the rows.*)
LEMMA PairsMatch ==
  ASSUME ListsOK, NEW q \in Permutations, NEW D, D \subseteq GoodRows(q)
  PROVE  /\ Pairs(q, D) \subseteq Within /\ Matching(Pairs(q, D))
         /\ Cardinality(Pairs(q, D)) = Cardinality(D)
         /\ Total(Pairs(q, D)) = Sum(Turns(q), D)
<1> DEFINE A == Pairs(q, D)
           b == [i \in D |-> <<i, q[i]>>]
<1>1. D \subseteq RealRows(q) /\ \A i \in D : <<i, q[i]>> \in Within
  BY DEF GoodRows
<1>2. D \subseteq Index /\ IsFiniteSet(D)
  BY <1>1, RowsAreFinite
<1>3. A \subseteq Within
  BY <1>1 DEF Pairs
<1>4. \A i, k \in D : q[i] = q[k] => i = k
  BY <1>2 DEF Permutations
<1>5. Matching(A)
  <2> SUFFICES ASSUME NEW x \in A, NEW y \in A PROVE (x[1] = y[1]) <=> (x[2] = y[2])
    BY DEF Matching
  <2>1. PICK i \in D : x = <<i, q[i]>>
    BY DEF Pairs
  <2>2. PICK k \in D : y = <<k, q[k]>>
    BY DEF Pairs
  <2> QED
    BY <1>4, <2>1, <2>2
<1>6. /\ \A i \in D : b[i] = <<i, q[i]>>
      /\ \A i, k \in D : b[i] = b[k] => i = k
      /\ A = {b[i] : i \in D}
  BY DEF Pairs
<1>7. Cardinality(A) = Cardinality(D)
  <2>1. b \in Bijection(D, A)
    BY <1>6 DEF Bijection, Injection, Surjection, IsInjective
  <2> QED
    BY <1>2, <2>1, FS_Bijection DEF ExistsBijection
<1>8. Total(A) = Sum(Turns(q), D)
  <2>1. ASSUME NEW i \in D
        PROVE  Gaps[b[i]] \in Int /\ Turns(q)[i] = Gaps[b[i]]
    <3>1. i \in Rows /\ q[i] \in Columns /\ i \in RealRows(q) /\ i \in Index
      BY <1>1, <1>2 DEF RealRows
    <3>2. Gaps[<<i, q[i]>>] = Angle(vision[i], radar[q[i]])
      BY <3>1 DEF Gaps
    <3>3. Turns(q)[i] = Angle(vision[i], radar[q[i]])
      BY <3>1 DEF Turns
    <3>4. Turns(q)[i] \in Nat
      BY <3>1, TurnsAreNat
    <3> QED
      BY <1>6, <3>2, <3>3, <3>4
  <2> DEFINE t == Turns(q)
  <2> HIDE DEF b, t, A
  <2>2. Sum(t, D) = Sum(Gaps, {b[i] : i \in D})
    BY <1>2, <1>6, <2>1, SumAlong DEF t
  <2>3. Total(A) = Sum(Gaps, A)
    BY DEF Total, Sum
  <2> QED
    BY <1>6, <2>2, <2>3 DEF t
<1> QED
  BY <1>3, <1>5, <1>7, <1>8

(* Every matching of near detections is made of pairs of a permutation.    *)
LEMMA MatchingExtends ==
  ASSUME ListsOK, NEW A \in SUBSET Within, Matching(A)
  PROVE  \E q \in Permutations : \E D \in SUBSET GoodRows(q) : A = Pairs(q, D)
<1> DEFINE D == {p[1] : p \in A}
           R == {p[2] : p \in A}
           of(i) == CHOOSE j \in R : <<i, j>> \in A
<1>1. \A p \in A : p = <<p[1], p[2]>> /\ p[1] \in Rows /\ p[2] \in Columns
  BY DEF Within
<1>2. D \subseteq Index /\ R \subseteq Index /\ IsFiniteSet(Index)
  BY <1>1, Sizes, PaddedIsNat
<1>3. \A i \in D : of(i) \in R /\ <<i, of(i)>> \in A
  <2> SUFFICES ASSUME NEW i \in D PROVE of(i) \in R /\ <<i, of(i)>> \in A
    OBVIOUS
  <2>1. PICK p \in A : i = p[1]
    OBVIOUS
  <2>2. p[2] \in R /\ <<i, p[2]>> \in A
    BY <1>1, <2>1
  <2> QED
    BY <2>2
<1> HIDE DEF of
<1>4. \A i, k \in D : of(i) = of(k) => i = k
  BY <1>3 DEF Matching
<1>5. \A p \in A : p[1] \in D /\ p[2] = of(p[1])
  <2> SUFFICES ASSUME NEW p \in A PROVE p[1] \in D /\ p[2] = of(p[1])
    OBVIOUS
  <2>1. p[1] \in D
    OBVIOUS
  <2> DEFINE q == <<p[1], of(p[1])>>
  <2>2. q \in A
    BY <1>3, <2>1
  <2> QED
    BY <2>1, <2>2 DEF Matching
<1>6. \A j \in R : \E i \in D : of(i) = j
  BY <1>5
<1>7. Cardinality(D) = Cardinality(R) /\ IsFiniteSet(D) /\ IsFiniteSet(R)
  <2> DEFINE f == [i \in D |-> of(i)]
  <2>1. f \in Bijection(D, R)
    BY <1>3, <1>4, <1>6 DEF Bijection, Injection, Surjection, IsInjective
  <2>2. IsFiniteSet(D)
    BY <1>2, FS_Subset
  <2> HIDE DEF f, D, R
  <2> QED
    BY <2>1, <2>2, FS_Bijection DEF ExistsBijection
<1> HIDE DEF D, R
<1>8. Cardinality(Index \ D) = Cardinality(Index \ R) /\ IsFiniteSet(Index \ D) /\ IsFiniteSet(Index \ R)
  <2>1. ASSUME NEW S \in SUBSET Index
        PROVE  IsFiniteSet(Index \ S) /\ Cardinality(Index \ S) = Cardinality(Index) - Cardinality(S)
    <3> DEFINE C == Index \ S
    <3>1. IsFiniteSet(S) /\ IsFiniteSet(C)
      BY <1>2, FS_Subset
    <3>2. Cardinality(S \cup C) = Cardinality(S) + Cardinality(C) - Cardinality(S \cap C)
      BY <3>1, FS_Union
    <3>3. S \cup C = Index /\ S \cap C = {}
      OBVIOUS
    <3>4. Cardinality({}) = 0 /\ Cardinality(S) \in Nat /\ Cardinality(C) \in Nat
      BY <3>1, FS_EmptySet, FS_CardinalityType
    <3> HIDE DEF C
    <3>5. Cardinality(Index) = Cardinality(S) + Cardinality(C) - Cardinality({})
      BY <3>2, <3>3
    <3>6. Cardinality(C) = Cardinality(Index) - Cardinality(S)
      BY <3>4, <3>5
    <3> QED
      BY <3>1, <3>6 DEF C
  <2> QED
    BY <1>2, <1>7, <2>1
<1>9. PICK e : e \in Bijection(Index \ D, Index \ R)
  BY <1>8, FS_SameCardinalityBij DEF ExistsBijection
<1>10. /\ \A i \in Index \ D : e[i] \in Index \ R
       /\ \A i, k \in Index \ D : e[i] = e[k] => i = k
  BY <1>9 DEF Bijection, Injection, Surjection, IsInjective
<1> DEFINE q == [i \in Index |-> IF i \in D THEN of(i) ELSE e[i]]
<1>11. q \in [Index -> Index]
  BY <1>2, <1>3, <1>10
<1>12. /\ \A i \in D : q[i] = of(i)
       /\ \A i \in Index \ D : q[i] = e[i]
  BY <1>2
<1> HIDE DEF q
<1>13. q \in Permutations
  <2> SUFFICES ASSUME NEW i \in Index, NEW k \in Index, q[i] = q[k] PROVE i = k
    BY <1>11 DEF Permutations
  <2>1. CASE i \in D /\ k \in D
    BY <1>4, <1>12, <2>1
  <2>2. CASE i \notin D /\ k \notin D
    BY <1>10, <1>12, <2>2
  <2>3. CASE i \in D /\ k \notin D
    <3>1. q[i] \in R
      BY <1>3, <1>12, <2>3
    <3>2. q[k] \notin R
      BY <1>10, <1>12, <2>3
    <3> QED
      BY <3>1, <3>2
  <2>4. CASE i \notin D /\ k \in D
    <3>1. q[k] \in R
      BY <1>3, <1>12, <2>4
    <3>2. q[i] \notin R
      BY <1>10, <1>12, <2>4
    <3> QED
      BY <3>1, <3>2
  <2> QED
    BY <2>1, <2>2, <2>3, <2>4
<1>14. D \subseteq GoodRows(q)
  BY <1>1, <1>3, <1>12 DEF GoodRows, RealRows
<1>15. A = Pairs(q, D)
  <2>1. \A p \in A : p \in Pairs(q, D)
    BY <1>1, <1>5, <1>12 DEF Pairs
  <2>2. \A p \in Pairs(q, D) : p \in A
    BY <1>3, <1>12 DEF Pairs
  <2> QED
    BY <2>1, <2>2
<1> QED
  BY <1>13, <1>14, <1>15


LEMMA ProductGrows == ASSUME NEW a \in Nat, NEW b \in Nat, a <= b, NEW c \in Nat PROVE c * a <= c * b
<1>1. b - a \in Nat /\ b = a + (b - a)
  OBVIOUS
<1>2. \A d \in Nat : c * (a + d) = c * a + c * d /\ c * d \in Nat /\ c * a \in Nat
  BY SMT
<1> QED
  BY <1>1, <1>2

(* The angles of a matching together are less than a single no-match.      *)
LEMMA TotalIsSmall ==
  ASSUME ListsOK, NEW q \in Permutations, NEW D, D \subseteq GoodRows(q)
  PROVE  Sum(Turns(q), D) \in Nat /\ Sum(Turns(q), D) < NoMatchCost
<1> DEFINE t == Turns(q)
           m == Cardinality(D)
           least == [i \in D |-> 0]
           most == [i \in D |-> MaxAssociationAngle]
<1>0. MaxAssociationAngle \in Nat /\ NoMatchCost \in Nat /\ NoMatchCost > MaxDetections * MaxAssociationAngle
  BY CostAssumption
<1>1. D \subseteq RealRows(q)
  BY DEF GoodRows
<1>2. D \subseteq Index /\ IsFiniteSet(D) /\ m \in Nat
  BY <1>1, RowsAreFinite
<1>3. \A i \in D : t[i] \in Nat /\ t[i] <= MaxAssociationAngle
  BY <1>2, TurnsAreNat
<1> HIDE DEF t
<1>4. \A i \in D : /\ least[i] \in Int /\ least[i] = 0 /\ least[i] <= t[i] /\ t[i] \in Int
                   /\ most[i] \in Int /\ most[i] = MaxAssociationAngle /\ t[i] <= most[i]
  BY <1>0, <1>3
<1> HIDE DEF least, most
<1>5. Sum(least, D) = 0 * m /\ Sum(most, D) = MaxAssociationAngle * m
  BY <1>0, <1>2, <1>4, SumOfSame
<1>6. Sum(least, D) <= Sum(t, D) /\ Sum(t, D) <= Sum(most, D) /\ Sum(t, D) \in Int
  BY <1>2, <1>4, SumLess, SumIsInt
<1>7. m <= MaxDetections /\ MaxDetections \in Nat
  <2>1. n \in 1 .. MaxDetections /\ IsFiniteSet(Index) /\ MaxDetections \in Nat
    BY Sizes, PaddedIsNat, BoundAssumption
  <2>2. Cardinality(1 .. n) = IF 1 > n THEN 0 ELSE n - 1 + 1
    BY <2>1, FS_Interval
  <2>3. Cardinality(Index) = n
    BY <2>1, <2>2 DEF Index
  <2>4. m <= Cardinality(Index)
    BY <1>2, <2>1, FS_Subset
  <2> HIDE DEF m
  <2> QED
    BY <1>2, <2>1, <2>3, <2>4
<1> HIDE DEF m
<1>8. MaxAssociationAngle * m <= MaxAssociationAngle * MaxDetections
  BY <1>0, <1>2, <1>7, ProductGrows
<1>9. MaxAssociationAngle * MaxDetections = MaxDetections * MaxAssociationAngle
  BY <1>0, <1>7, SMT
<1>10. MaxAssociationAngle * m \in Nat /\ MaxDetections * MaxAssociationAngle \in Nat /\ 0 * m = 0
  BY <1>0, <1>2, <1>7, SMT
<1> QED
  BY <1>0, <1>5, <1>6, <1>8, <1>9, <1>10 DEF t

(* The association is best: no matching of detections that are near enough *)
(* has more pairs, and none with as many has a smaller sum of angles.      *)
LEMMA ResultIsBest == SolverInv => ResultIsOptimal
<1> SUFFICES ASSUME SolverInv, done
             PROVE  /\ Associations \subseteq Within /\ Matching(Associations)
                    /\ \A A \in SUBSET Within : Matching(A) =>
                          \/ Cardinality(A) < Cardinality(Associations)
                          \/ /\ Cardinality(A) = Cardinality(Associations)
                             /\ Total(Associations) <= Total(A)
  BY DEF ResultIsOptimal
<1> DEFINE r == rowAssignment
           G == GoodRows(r)
           S == Associations
<1>0. ListsOK /\ Unassigned = {}
  BY DEF SolverInv
<1>1. r \in Permutations /\ \A q \in Permutations : Weight(r) <= Weight(q)
  BY <1>0, LightestAssignment
<1>2. S = Pairs(r, G)
  <2>1. \A i \in Rows, j \in Columns : Cost(i, j) < NoMatchCost <=> <<i, j>> \in Within
    <3> SUFFICES ASSUME NEW i \in Rows, NEW j \in Columns
                 PROVE  Cost(i, j) < NoMatchCost <=> <<i, j>> \in Within
      OBVIOUS
    <3>1. /\ Cost(i, j) \in Nat
          /\ <<i, j>> \in Within => Cost(i, j) <= MaxAssociationAngle
          /\ <<i, j>> \notin Within => Cost(i, j) = NoMatchCost
      BY <1>0, CostIsNat
    <3>2. MaxAssociationAngle < NoMatchCost
      <4>1. /\ MaxAssociationAngle \in Nat /\ NoMatchCost \in Nat /\ MaxDetections \in Nat /\ 1 <= MaxDetections
            /\ NoMatchCost > MaxDetections * MaxAssociationAngle
        BY CostAssumption, BoundAssumption
      <4>2. MaxAssociationAngle * 1 <= MaxAssociationAngle * MaxDetections
        BY <4>1, ProductGrows
      <4>3. MaxAssociationAngle * MaxDetections = MaxDetections * MaxAssociationAngle
        BY <4>1, SMT
      <4>4. MaxDetections * MaxAssociationAngle \in Nat /\ MaxAssociationAngle * 1 = MaxAssociationAngle
        BY <4>1, SMT
      <4> QED
        BY <4>1, <4>2, <4>3, <4>4
    <3> QED
      BY <3>1, <3>2, CostAssumption
  <2>2. \A p \in S : p \in Pairs(r, G)
    <3> SUFFICES ASSUME NEW p \in S PROVE p \in Pairs(r, G)
      OBVIOUS
    <3>1. /\ p[1] \in Rows /\ p[2] \in Columns /\ p = <<p[1], p[2]>>
          /\ r[p[1]] = p[2] /\ Cost(p[1], p[2]) < NoMatchCost
      BY DEF Associations
    <3>2. p[1] \in G
      BY <2>1, <3>1 DEF GoodRows, RealRows
    <3> QED
      BY <3>1, <3>2 DEF Pairs
  <2>3. \A p \in Pairs(r, G) : p \in S
    <3> SUFFICES ASSUME NEW i \in G PROVE <<i, r[i]>> \in S
      BY DEF Pairs
    <3>1. i \in Rows /\ r[i] \in Columns /\ <<i, r[i]>> \in Within
      BY DEF GoodRows, RealRows
    <3> QED
      BY <2>1, <3>1 DEF Associations
  <2> QED
    BY <2>2, <2>3
<1>3. PICK m \in Nat : \A q \in Permutations : Cardinality(RealRows(q)) = m
  BY <1>0, RealRowsCount
<1> DEFINE s == Cardinality(S)
           T == Total(S)
<1>4. S \subseteq Within /\ Matching(S) /\ s = Cardinality(G) /\ T = Sum(Turns(r), G)
  BY <1>0, <1>1, <1>2, PairsMatch
<1>5. Weight(r) = T + NoMatchCost * (m - s)
  <2>1. G \subseteq GoodRows(r)
    OBVIOUS
  <2>2. Weight(r) = Sum(Turns(r), G) + NoMatchCost * (Cardinality(RealRows(r)) - Cardinality(G))
    BY <1>0, <1>1, <2>1, WeightOfPairs
  <2> QED
    BY <1>1, <1>3, <1>4, <2>2
<1>6. T \in Nat /\ T < NoMatchCost /\ s \in Nat /\ NoMatchCost \in Nat
  <2>1. G \subseteq GoodRows(r) /\ G \subseteq RealRows(r)
    BY DEF GoodRows
  <2>2. Sum(Turns(r), G) \in Nat /\ Sum(Turns(r), G) < NoMatchCost
    BY <1>0, <1>1, <2>1, TotalIsSmall
  <2>3. Cardinality(G) \in Nat
    BY <1>0, <2>1, RowsAreFinite
  <2> QED
    BY <1>4, <2>2, <2>3, CostAssumption
<1>7. ASSUME NEW A \in SUBSET Within, Matching(A)
      PROVE  \/ Cardinality(A) < s
             \/ Cardinality(A) = s /\ T <= Total(A)
  <2>1. PICK q \in Permutations : \E D \in SUBSET GoodRows(q) : A = Pairs(q, D)
    BY <1>0, <1>7, MatchingExtends
  <2>2. PICK D \in SUBSET GoodRows(q) : A = Pairs(q, D)
    BY <2>1
  <2> DEFINE a == Cardinality(A)
             U == Total(A)
  <2>3. a = Cardinality(D) /\ U = Sum(Turns(q), D)
    BY <1>0, <2>2, PairsMatch
  <2>4. Weight(q) <= U + NoMatchCost * (m - a)
    <3>1. Weight(q) <= Sum(Turns(q), D) + NoMatchCost * (Cardinality(RealRows(q)) - Cardinality(D))
      BY <1>0, WeightOfPairs
    <3> QED
      BY <1>3, <2>3, <3>1
  <2>5. U \in Nat /\ U < NoMatchCost /\ a \in Nat
    <3>1. D \subseteq RealRows(q)
      BY DEF GoodRows
    <3>2. Sum(Turns(q), D) \in Nat /\ Sum(Turns(q), D) < NoMatchCost
      BY <1>0, TotalIsSmall
    <3>3. Cardinality(D) \in Nat
      BY <1>0, <3>1, RowsAreFinite
    <3> QED
      BY <2>3, <3>2, <3>3
  <2>6. Weight(r) <= Weight(q)
    BY <1>1
  <2>7. Weight(q) \in Int /\ Weight(r) \in Int
    <3>1. \A i \in Index : Along(Padded, q)[i] \in Int
      BY <1>0, PaddedIsNat DEF Along, Permutations, Matrices
    <3>2. Weight(q) \in Int
      BY <1>0, <3>1, PaddedIsNat, SumIsInt DEF Weight
    <3>3. NoMatchCost * (m - s) \in Int
      BY <1>3, <1>6, SMT
    <3> QED
      BY <1>5, <1>6, <3>2, <3>3
  <2> HIDE DEF a, U, s, T
  <2>8. NoMatchCost * (m - s) = NoMatchCost * m - NoMatchCost * s
    BY <1>3, <1>6, SMT
  <2>9. NoMatchCost * (m - a) = NoMatchCost * m - NoMatchCost * a
    BY <1>3, <1>6, <2>5, SMT
  <2>10. NoMatchCost * m \in Nat /\ NoMatchCost * a \in Nat /\ NoMatchCost * s \in Nat
    BY <1>3, <1>6, <2>5, SMT
  <2>11. T + NoMatchCost * a <= U + NoMatchCost * s
    BY <1>5, <1>6, <2>4, <2>5, <2>6, <2>7, <2>8, <2>9, <2>10
  <2>12. a <= s
    <3> SUFFICES ASSUME a > s PROVE FALSE
      BY <1>6, <2>5
    <3>1. s + 1 \in Nat /\ s + 1 <= a
      BY <1>6, <2>5
    <3>2. NoMatchCost * (s + 1) <= NoMatchCost * a
      BY <1>6, <2>5, <3>1, ProductGrows
    <3>3. NoMatchCost * (s + 1) = NoMatchCost * s + NoMatchCost
      BY <1>6, SMT
    <3> QED
      BY <1>6, <2>5, <2>10, <2>11, <3>2, <3>3
  <2>13. a = s => T <= U
    BY <1>6, <2>5, <2>10, <2>11
  <2> QED
    BY <1>6, <2>5, <2>12, <2>13 DEF a, U
<1> QED
  BY <1>4, <1>7

(* What AssociateDetections needs: types, zeros for assigned rows in       *)
(* columns of their own, and the best association at the end.              *)
THEOREM AssociationIsOptimal == SolverSpec => []Associates
<1>1. SolverInv => SolverTypeOK
  <2> SUFFICES ASSUME SolverInv PROVE SolverTypeOK
    OBVIOUS
  <2>1. DOMAIN matrix = Index /\ \A i \in Index : DOMAIN matrix[i] = Index /\ Range(matrix[i]) \subseteq Nat
    BY DEF SolverInv, Matrices, Range
  <2> QED
    BY <2>1 DEF SolverInv, SolverTypeOK, ListsOK, Assignments
<1>2. SolverInv => AssignedZeros
  BY ZerosOfAssigned DEF SolverInv
<1>3. SolverInv => Associates
  BY <1>1, <1>2, ResultIsBest DEF Associates
<1> QED
  BY SolverInvariant, <1>3, PTL
=============================================================================
