---------------------------- MODULE VisionProofs ----------------------------
(***************************************************************************)
(* Vision, for any clients, levels and numbers of buffers: whatever is     *)
(* stopped or shut down while the capture thread works on a frame, the     *)
(* frame is backed; the pipeline implements FrameService; and the accounts *)
(* of Go, of the pipeline and of its parts agree.  Then, for pictures of   *)
(* every size, detections of every number and calls of every length: what  *)
(* the network is given, what is reported and what the controls are.       *)
(***************************************************************************)
EXTENDS Vision, FiniteSetTheorems, SequenceTheorems, WellFoundedInduction, TLAPS

Inside == {"stream", "mark", "unmark", "join", "clear", "down"}

\* cgoLock is held by the client whose call has more than one step, while it has.
Owned == \A c \in Client : pc[c] \in Inside <=> cgo = c

\* The camera, for itself: a thread while it streams, all buffers mapped while it is open, and
\* a place for every buffer.
CameraInv ==
    /\ streaming <=> thread # "none"
    /\ streaming => initialized
    /\ initialized => mapped = Granted
    /\ HasFrame => queued < Granted

\* The pipeline around it.
PipelineInv ==
    /\ memory <=> up
    /\ streaming => up
    /\ cgo = NoClient => (active <=> streaming)
    /\ thread \in {"video", "detect"} => callbacks
    /\ thread = "detect" => npu = "loaded"

\* What a call in C has found, where it is.
CallInv ==
    \A c \in Client : pc[c] \in Inside =>
        /\ up
        /\ pc[c] \in {"stream", "unmark", "down"} => ~active /\ ~streaming
        /\ pc[c] = "mark" => streaming
        /\ pc[c] = "join" => active /\ streaming
        /\ pc[c] = "clear" => ~streaming

IInv == TypeOK /\ Owned /\ CameraInv /\ PipelineInv /\ CallInv

\* The types, apart: the truth values, and the rest.
Truths ==
    /\ initialized \in BOOLEAN /\ streaming \in BOOLEAN /\ running \in BOOLEAN /\ callback \in BOOLEAN
    /\ on \in BOOLEAN /\ failed \in BOOLEAN /\ vpRunning \in BOOLEAN /\ up \in BOOLEAN
    /\ active \in BOOLEAN /\ run \in BOOLEAN /\ callbacks \in BOOLEAN /\ memory \in BOOLEAN
    /\ npuOn \in BOOLEAN /\ raced \in BOOLEAN
CameraTypes ==
    /\ mapped \in 0 .. Granted /\ leaked \in Nat /\ queued \in 0 .. Granted
    /\ thread \in {"none", "wait", "select", "frame", "video", "detect", "requeue", "exited"}
CallTypes ==
    /\ mu \in Client \cup {NoClient} /\ cgo \in Client \cup {NoClient}
    /\ pc \in [Client -> {"idle", "lock", "relock", "lockagain", "enter", "enterstop"} \cup Inside]
    /\ op \in [Client -> {"none", "initialize", "start", "stop", "shutdown", "npu", "ldch"}]
PartTypes ==
    /\ vpLdch \in Ldch /\ pLdch \in Ldch /\ ispLdch \in Ldch /\ ready \subseteq Parts
    /\ isp \in {"off", "initialized", "running"} /\ npu \in {"off", "initialized", "loaded"}

LEMMA Typed ==
    ASSUME TypeOK
    PROVE  Truths /\ CameraTypes /\ CallTypes /\ PartTypes /\ left \in 0 .. MaxEvents
BY DEF TypeOK, CameraTypeOK, Truths, CameraTypes, CallTypes, PartTypes, Inside

LEMMA Types ==
    ASSUME Truths, CameraTypes, CallTypes, PartTypes, left \in 0 .. MaxEvents
    PROVE  TypeOK
BY DEF TypeOK, CameraTypeOK, Truths, CameraTypes, CallTypes, PartTypes, Inside

LEMMA TypesNext ==
    ASSUME Truths', CameraTypes', CallTypes', PartTypes', left' \in 0 .. MaxEvents
    PROVE  TypeOK'
BY DEF TypeOK, CameraTypeOK, Truths, CameraTypes, CallTypes, PartTypes, Inside

\* A step that leaves the camera's truth values alone.
CameraTruths ==
    /\ initialized \in BOOLEAN /\ streaming \in BOOLEAN /\ running \in BOOLEAN
    /\ callback \in BOOLEAN /\ on \in BOOLEAN

LEMMA CameraTruthsKept ==
    ASSUME Truths, UNCHANGED <<initialized, streaming, running, callback, on>>
    PROVE  CameraTruths'
BY Zenon DEF Truths, CameraTruths

LEMMA ChanceTyped ==
    ASSUME TypeOK, Fault \/ NoFault \/ (Spend /\ UNCHANGED failed)
    PROVE  left' \in 0 .. MaxEvents /\ failed' \in BOOLEAN
<1>1. left \in 0 .. MaxEvents /\ failed \in BOOLEAN
  BY DEF TypeOK, CameraTypeOK
<1>2. left' \in 0 .. MaxEvents
  BY <1>1, BoundAssumption DEF Fault, NoFault, Spend, chance
<1>3. failed' \in BOOLEAN
  BY <1>1, Zenon DEF Fault, NoFault, chance
<1>4. QED BY <1>2, <1>3

LEMMA InitIInv == Init => IInv
<1> SUFFICES ASSUME Init PROVE IInv
  OBVIOUS
<1>1. left \in 0 .. MaxEvents
  BY BoundAssumption DEF Init, CameraInit
<1>2. Truths
  BY Zenon DEF Init, CameraInit, Truths
<1>3. CameraTypes /\ CallTypes /\ PartTypes
  BY GrantedAssumption DEF Init, CameraInit, CameraTypes, CallTypes, PartTypes
<1>4. TypeOK
  BY <1>1, <1>2, <1>3, Types
<1>5. Owned
  BY ClientAssumption DEF Init, Owned, Inside
<1>6. CameraInv /\ PipelineInv /\ CallInv
  BY DEF Init, CameraInit, CameraInv, PipelineInv, CallInv, HasFrame, Inside
<1>7. QED BY <1>4, <1>5, <1>6 DEF IInv

-----------------------------------------------------------------------------
(* A step that leaves C alone keeps what is known of it, wherever the      *)
(* client goes outside C.                                                  *)
LEMMA OutsideKeeps ==
    ASSUME IInv, CRest, NEW c \in Client, pc[c] \notin Inside,
           NEW l, l \notin Inside, pc' = [pc EXCEPT ![c] = l]
    PROVE  Owned' /\ CameraInv' /\ PipelineInv' /\ CallInv'
<1>1. \A d \in Client : pc'[d] \in Inside <=> pc[d] \in Inside
  BY DEF IInv, TypeOK
<1>2. \A d \in Client : pc[d] \in Inside => pc'[d] = pc[d]
  BY DEF IInv, TypeOK
<1>3. UNCHANGED <<initialized, streaming, mapped, queued, thread, callbacks, npu, memory, up, active, cgo>>
  BY DEF CRest, camera, buffers, status, pipeline, parts
<1>4. Owned'
  BY <1>1, <1>3, Zenon DEF IInv, Owned
<1>5. CameraInv'
  BY <1>3 DEF IInv, CameraInv, HasFrame
<1>6. PipelineInv'
  BY <1>3 DEF IInv, PipelineInv
<1>7. CallInv'
  BY <1>1, <1>2, <1>3, Zenon DEF IInv, CallInv
<1>8. QED BY <1>4, <1>5, <1>6, <1>7

LEMMA CallKeeps ==
    ASSUME IInv, NEW c \in Client, ClientCalls(c)
    PROVE  IInv'
<1>1. \E o \in {"initialize", "start", "stop", "shutdown", "npu", "ldch"},
         l \in {"lock", "relock", "enter"} : Call(c, o, l)
  BY Zenon DEF ClientCalls, CallInitialize, CallStart, CallStop, CallShutdown, CallSetNpuEnabled, CallSetLdch
<1> PICK o \in {"initialize", "start", "stop", "shutdown", "npu", "ldch"},
         l \in {"lock", "relock", "enter"} : Call(c, o, l)
  BY <1>1
<1>0. Truths /\ CameraTypes /\ CallTypes /\ PartTypes
  BY Typed DEF IInv
<1>2. Owned' /\ CameraInv' /\ PipelineInv' /\ CallInv'
  BY OutsideKeeps DEF Call, At, Inside
<1>3. left' \in 0 .. MaxEvents /\ failed' \in BOOLEAN
  BY ChanceTyped DEF Call, IInv
<1>4. Truths'
  <2>1. CRest /\ vpRunning' = vpRunning /\ raced' = raced
    BY DEF Call, go
  <2>2. vpRunning' \in BOOLEAN /\ raced' \in BOOLEAN
    BY <1>0, <2>1, Zenon DEF Truths
  <2>3. UNCHANGED <<initialized, streaming, running, callback, on>>
    BY <2>1 DEF CRest, camera, buffers, status
  <2>4. CameraTruths'
    BY <1>0, <2>3, CameraTruthsKept
  <2>5. UNCHANGED <<up, active, run, callbacks, memory, npuOn>>
    BY <2>1 DEF CRest, pipeline
  <2>6. QED BY <1>0, <1>3, <2>2, <2>4, <2>5, Zenon DEF Truths, CameraTruths
<1>5. CameraTypes' /\ CallTypes' /\ PartTypes'
  BY <1>0 DEF Call, CRest, CameraTypes, CallTypes, PartTypes, camera, buffers, pipeline, parts, go
<1>6. QED BY <1>2, <1>3, <1>4, <1>5, TypesNext DEF IInv

(* The locking of the Go object. *)
LEMMA LockKeeps ==
    ASSUME IInv, NEW c \in Client,
           \/ LockInitialize(c) \/ LockStart(c) \/ LockShutdown(c)
           \/ LockStop(c) \/ LockAgain(c) \/ LockLdch(c)
    PROVE  IInv'
<1> USE DEF At, Goto, Finish, Lock, Stopped
<1>1. PICK l \in {"idle", "relock", "enter", "enterstop", "lockagain"} : pc' = [pc EXCEPT ![c] = l]
  BY DEF LockInitialize, LockStart, LockShutdown, LockStop, LockAgain, LockLdch
<1>2. CRest /\ NoFault /\ pc[c] \notin Inside
  BY DEF LockInitialize, LockStart, LockShutdown, LockStop, LockAgain, LockLdch, Inside
<1>0. Truths /\ CameraTypes /\ CallTypes /\ PartTypes
  BY Typed DEF IInv
<1>3. Owned' /\ CameraInv' /\ PipelineInv' /\ CallInv'
  BY <1>1, <1>2, OutsideKeeps DEF Inside
<1>4. left' \in 0 .. MaxEvents /\ failed' \in BOOLEAN
  BY <1>2, ChanceTyped DEF IInv
<1>5. vpRunning' \in BOOLEAN
  <2>1. vpRunning \in BOOLEAN
    BY DEF IInv, TypeOK
  <2>2. vpRunning' = FALSE \/ vpRunning' = vpRunning
    BY DEF LockInitialize, LockStart, LockShutdown, LockStop, LockAgain, LockLdch
  <2>3. QED BY <2>1, <2>2, Zenon
<1>6. raced' \in BOOLEAN
  <2>1. raced \in BOOLEAN
    BY DEF IInv, TypeOK
  <2>2. raced' = (raced \/ \E d \in Client \ {c} : Halfway(d)) \/ raced' = raced
    BY DEF LockInitialize, LockStart, LockShutdown, LockStop, LockAgain, LockLdch
  <2>3. QED BY <2>1, <2>2, Zenon
<1>7. Truths'
  <2>1. CameraTruths'
    <3>1. UNCHANGED <<initialized, streaming, running, callback, on>>
      BY <1>2 DEF CRest, camera, buffers, status
    <3>2. QED BY <1>0, <3>1, CameraTruthsKept
  <2>2. UNCHANGED <<up, active, run, callbacks, memory, npuOn>>
    BY <1>2 DEF CRest, pipeline
  <2>3. QED BY <1>0, <1>4, <1>5, <1>6, <2>1, <2>2, Zenon DEF Truths, CameraTruths
<1>8. mu' \in Client \cup {NoClient} /\ vpLdch' \in Ldch
      /\ op' \in [Client -> {"none", "initialize", "start", "stop", "shutdown", "npu", "ldch"}]
  BY DEF LockInitialize, LockStart, LockShutdown, LockStop, LockAgain, LockLdch, IInv, TypeOK
<1>9. CameraTypes' /\ CallTypes' /\ PartTypes'
  BY <1>0, <1>1, <1>2, <1>8 DEF CRest, CameraTypes, CallTypes, PartTypes, camera, buffers, pipeline, parts
<1>10. QED BY <1>3, <1>4, <1>7, <1>9, TypesNext DEF IInv

-----------------------------------------------------------------------------
(* vision_pipeline_init. *)

LEMMA Greater ==
    ASSUME NEW a \in 0 .. Granted, NEW b \in 0 .. Granted
    PROVE  Max({a, b}) \in 0 .. Granted /\ Min({a, b}) \in Nat /\ (a = Granted => Max({a, b}) = Granted)
<1>1. CASE a >= b
  <2>1. Max({a, b}) = a
    BY <1>1, GrantedAssumption DEF Max
  <2>2. Min({a, b}) = b
    BY <1>1, GrantedAssumption DEF Min
  <2>3. QED BY <2>1, <2>2, GrantedAssumption
<1>2. CASE a < b
  <2>1. Max({a, b}) = b
    BY <1>2, GrantedAssumption DEF Max
  <2>2. Min({a, b}) = a
    BY <1>2, GrantedAssumption DEF Min
  <2>3. QED BY <1>2, <2>1, <2>2, GrantedAssumption
<1>3. QED BY <1>1, <1>2, GrantedAssumption

\* What opening the camera does to it, whether it succeeds or fails.
LEMMA Opening ==
    ASSUME IInv, NEW ok \in BOOLEAN, ~streaming, CameraOpens(ok)
    PROVE  /\ UNCHANGED <<streaming, queued, on, running, callback, thread>>
           /\ mapped' \in 0 .. Granted /\ leaked' \in Nat /\ initialized' \in BOOLEAN
           /\ initialized' => mapped' = Granted
<1>0. mapped \in 0 .. Granted /\ leaked \in Nat /\ initialized \in BOOLEAN /\ Granted \in Nat
      /\ (initialized => mapped = Granted) /\ streaming = FALSE
  BY GrantedAssumption DEF IInv, TypeOK, CameraTypeOK, CameraInv
<1>1. CASE initialized
  BY <1>0, <1>1 DEF CameraOpens, camera, buffers, status
<1>2. CASE ~initialized /\ ok
  <2>1. OpenCamera
    BY <1>2 DEF CameraOpens
  <2>2. streaming' = streaming
    BY <1>0, <2>1, Zenon DEF OpenCamera
  <2>3. initialized' \in BOOLEAN
    BY <2>1, Zenon DEF OpenCamera
  <2>4. QED BY <1>0, <2>1, <2>2, <2>3 DEF OpenCamera
<1>3. CASE ~initialized /\ ~ok
  <2>1. OpenFails
    BY <1>3 DEF CameraOpens
  <2>2. UNCHANGED <<initialized, streaming, queued, on, running, callback, thread>>
    BY <2>1 DEF OpenFails, status
  <2>3. mapped' \in 0 .. Granted /\ leaked' \in Nat
    <3>1. CASE FormatRefused
      BY <1>0, <3>1 DEF FormatRefused
    <3>2. CASE BuffersMissing
      <4>1. PICK k \in 0 .. Granted : mapped' = Max({mapped, k}) /\ leaked' = leaked + Min({mapped, k})
        BY <3>2 DEF BuffersMissing
      <4>2. QED BY <1>0, <4>1, Greater
    <3>3. QED BY <2>1, <3>1, <3>2 DEF OpenFails
  <2>4. QED BY <1>0, <1>3, <2>2, <2>3
<1>4. QED BY <1>0, <1>1, <1>2, <1>3

\* A call that begins with cgoLock free finds no other in C.
LEMMA Alone ==
    ASSUME IInv, cgo = NoClient
    PROVE  \A d \in Client : pc[d] \notin Inside
BY ClientAssumption DEF IInv, Owned

\* Nobody in C: nothing is left to say about the calls there.
LEMMA NobodyThere ==
    ASSUME IInv, NEW c \in Client, cgo = NoClient, cgo' = NoClient,
           NEW l, l \notin Inside, pc' = [pc EXCEPT ![c] = l]
    PROVE  Owned' /\ CallInv'
<1>1. \A d \in Client : pc'[d] \notin Inside
  BY Alone DEF IInv, TypeOK
<1>2. QED BY <1>1, ClientAssumption DEF Owned, CallInv

LEMMA InitKeeps ==
    ASSUME IInv, NEW c \in Client, PipelineInit(c)
    PROVE  IInv'
<1> USE DEF Finish, Unlock, Visit
<1>0. Truths /\ CameraTypes /\ CallTypes /\ PartTypes
  BY Typed DEF IInv
<1>1. /\ op[c] = "initialize" /\ cgo = NoClient /\ cgo' = NoClient /\ mu' = NoClient
      /\ pc' = [pc EXCEPT ![c] = "idle"] /\ op' = [op EXCEPT ![c] = "none"]
      /\ UNCHANGED <<vpRunning, vpLdch, raced>>
  BY DEF PipelineInit
<1>2. Owned' /\ CallInv'
  BY <1>1, NobodyThere DEF Inside
<1>3. CallTypes'
  BY <1>0, <1>1 DEF CallTypes
<1>4. left' \in 0 .. MaxEvents /\ failed' \in BOOLEAN
  BY ChanceTyped DEF PipelineInit, IInv
<1>5. vpRunning' \in BOOLEAN /\ raced' \in BOOLEAN
  BY <1>0, <1>1, Zenon DEF Truths
<1>6. CASE up /\ UNCHANGED <<camera, pipeline, parts>>
  <2>1. UNCHANGED <<initialized, streaming, mapped, queued, thread, callbacks, npu, memory, up, active, cgo>>
    BY <1>1, <1>6 DEF camera, buffers, status, pipeline, parts
  <2>2. CameraInv'
    BY <2>1 DEF IInv, CameraInv, HasFrame
  <2>3. PipelineInv'
    BY <2>1 DEF IInv, PipelineInv
  <2>4. Truths'
    <3>1. CameraTruths'
      <4>1. UNCHANGED <<initialized, streaming, running, callback, on>>
        BY <1>6 DEF camera, buffers, status
      <4>2. QED BY <1>0, <4>1, CameraTruthsKept
    <3>2. UNCHANGED <<up, active, run, callbacks, memory, npuOn>>
      BY <1>6 DEF pipeline
    <3>3. QED BY <1>0, <1>4, <1>5, <3>1, <3>2, Zenon DEF Truths, CameraTruths
  <2>5. CameraTypes' /\ PartTypes'
    BY <1>0, <1>1, <1>6 DEF CameraTypes, PartTypes, camera, buffers, pipeline, parts
  <2>6. QED BY <1>2, <1>3, <1>4, <2>2, <2>3, <2>4, <2>5, TypesNext DEF IInv
<1>7. CASE /\ ~up /\ pLdch' = vpLdch
           /\ UNCHANGED <<camera, up, active, run, callbacks, memory, ready, npuOn, parts>>
  <2>1. UNCHANGED <<initialized, streaming, mapped, queued, thread, callbacks, npu, memory, up, active, cgo>>
    BY <1>1, <1>7 DEF camera, buffers, status, parts
  <2>2. CameraInv'
    BY <2>1 DEF IInv, CameraInv, HasFrame
  <2>3. PipelineInv'
    BY <2>1 DEF IInv, PipelineInv
  <2>4. Truths'
    <3>1. CameraTruths'
      <4>1. UNCHANGED <<initialized, streaming, running, callback, on>>
        BY <1>7 DEF camera, buffers, status
      <4>2. QED BY <1>0, <4>1, CameraTruthsKept
    <3>2. UNCHANGED <<up, active, run, callbacks, memory, npuOn>>
      BY <1>7
    <3>3. QED BY <1>0, <1>4, <1>5, <3>1, <3>2, Zenon DEF Truths, CameraTruths
  <2>5. CameraTypes' /\ PartTypes'
    BY <1>0, <1>1, <1>7 DEF CameraTypes, PartTypes, camera, buffers, parts
  <2>6. QED BY <1>2, <1>3, <1>4, <2>2, <2>3, <2>4, <2>5, TypesNext DEF IInv
<1>8. CASE /\ ~up /\ memory' = TRUE /\ up' = TRUE /\ npuOn' = TRUE /\ pLdch' = vpLdch
           /\ InitIsp
           /\ \E ok \in BOOLEAN, k \in {"off", "initialized", "loaded"} :
                /\ CameraOpens(ok) /\ InitNpu(k)
                /\ ready' = {"isp"} \cup {p \in {"camera"} : ok} \cup {p \in {"npu"} : k # "off"}
           /\ UNCHANGED <<active, run, callbacks>>
  <2>1. streaming = FALSE /\ active = FALSE /\ thread = "none"
    BY <1>0, <1>1, <1>8, Zenon DEF IInv, PipelineInv, CameraInv, Truths
  <2>2. PICK ok \in BOOLEAN, k \in {"off", "initialized", "loaded"} :
          /\ CameraOpens(ok) /\ InitNpu(k)
          /\ ready' = {"isp"} \cup {p \in {"camera"} : ok} \cup {p \in {"npu"} : k # "off"}
    BY <1>8
  <2>3. /\ UNCHANGED <<streaming, queued, on, running, callback, thread>>
        /\ mapped' \in 0 .. Granted /\ leaked' \in Nat /\ initialized' \in BOOLEAN
        /\ initialized' => mapped' = Granted
    BY <2>1, <2>2, Opening
  <2>4. CameraInv'
    BY <2>1, <2>3 DEF IInv, CameraInv, HasFrame
  <2>5. PipelineInv'
    BY <1>8, <2>1, <2>3 DEF PipelineInv
  <2>6. Truths'
    BY <1>0, <1>4, <1>5, <1>8, <2>3, Zenon DEF Truths
  <2>7. CameraTypes' /\ PartTypes'
    BY <1>0, <1>1, <1>8, <2>2, <2>3 DEF CameraTypes, PartTypes, InitIsp, InitNpu, Parts
  <2>8. QED BY <1>2, <1>3, <1>4, <2>4, <2>5, <2>6, <2>7, TypesNext DEF IInv
<1>9. \/ up /\ UNCHANGED <<camera, pipeline, parts>>
      \/ /\ ~up /\ pLdch' = vpLdch
         /\ UNCHANGED <<camera, up, active, run, callbacks, memory, ready, npuOn, parts>>
      \/ /\ ~up /\ memory' = TRUE /\ up' = TRUE /\ npuOn' = TRUE /\ pLdch' = vpLdch
         /\ InitIsp
         /\ \E ok \in BOOLEAN, k \in {"off", "initialized", "loaded"} :
              /\ CameraOpens(ok) /\ InitNpu(k)
              /\ ready' = {"isp"} \cup {p \in {"camera"} : ok} \cup {p \in {"npu"} : k # "off"}
         /\ UNCHANGED <<active, run, callbacks>>
  BY Zenon DEF PipelineInit
<1>10. QED BY <1>6, <1>7, <1>8, <1>9

-----------------------------------------------------------------------------
(* A call that enters C, goes on there, or leaves it is the only one.      *)

LEMMA Enters ==
    ASSUME IInv, NEW c \in Client, cgo = NoClient, cgo' = c,
           NEW l \in Inside, pc' = [pc EXCEPT ![c] = l]
    PROVE  Owned' /\ pc'[c] = l /\ \A d \in Client \ {c} : pc'[d] \notin Inside
<1>1. \A d \in Client \ {c} : pc'[d] \notin Inside
  BY Alone DEF IInv, TypeOK
<1>2. pc'[c] = l
  BY DEF IInv, TypeOK
<1>3. QED BY <1>1, <1>2 DEF Owned

LEMMA GoesOn ==
    ASSUME IInv, NEW c \in Client, pc[c] \in Inside, UNCHANGED cgo,
           NEW l \in Inside, pc' = [pc EXCEPT ![c] = l]
    PROVE  cgo = c /\ Owned' /\ pc'[c] = l /\ \A d \in Client \ {c} : pc'[d] \notin Inside
<1>1. cgo = c
  BY DEF IInv, Owned
<1>2. \A d \in Client \ {c} : pc'[d] \notin Inside
  BY <1>1 DEF IInv, TypeOK, Owned
<1>3. pc'[c] = l
  BY DEF IInv, TypeOK
<1>4. QED BY <1>1, <1>2, <1>3 DEF Owned

LEMMA Leaves ==
    ASSUME IInv, NEW c \in Client, pc[c] \in Inside, cgo' = NoClient,
           NEW l, l \notin Inside, pc' = [pc EXCEPT ![c] = l]
    PROVE  Owned' /\ CallInv'
<1>1. cgo = c
  BY DEF IInv, Owned
<1>2. \A d \in Client : pc'[d] \notin Inside
  BY <1>1 DEF IInv, TypeOK, Owned
<1>3. QED BY <1>2, ClientAssumption DEF Owned, CallInv

-----------------------------------------------------------------------------
(* vision_pipeline_start. *)

LEMMA PipelineStartKeeps ==
    ASSUME IInv, NEW c \in Client, PipelineStart(c)
    PROVE  IInv'
<1> USE DEF Finish, Unlock, Enter, Goto, At
<1>0. Truths /\ CameraTypes /\ CallTypes /\ PartTypes
  BY Typed DEF IInv
<1>1. cgo = NoClient /\ NoFault /\ UNCHANGED <<camera, active, isp, vpLdch, raced>> /\ PipelineRest
  BY DEF PipelineStart
<1>2. UNCHANGED <<initialized, streaming, running, callback, mapped, leaked, queued, on, thread,
                  up, active, memory, ready, npuOn, pLdch, ispLdch, npu, isp, vpLdch, raced>>
  BY <1>1 DEF camera, buffers, status, PipelineRest
<1>3. left' \in 0 .. MaxEvents /\ failed' \in BOOLEAN
  BY <1>1, ChanceTyped DEF IInv
<1>4. CameraInv' /\ CameraTypes' /\ PartTypes'
  BY <1>0, <1>2 DEF IInv, CameraInv, HasFrame, CameraTypes, PartTypes
<1>5. CASE ~up /\ Unlock /\ Finish(c) /\ UNCHANGED <<cgo, vpRunning, run, callbacks>>
  <2>1. Owned' /\ CallInv'
    BY <1>1, <1>5, NobodyThere DEF Inside
  <2>2. PipelineInv'
    BY <1>2, <1>5 DEF IInv, PipelineInv
  <2>3. Truths'
    <3>1. CameraTruths'
      <4>1. UNCHANGED <<initialized, streaming, running, callback, on>>
        BY <1>2
      <4>2. QED BY <1>0, <4>1, CameraTruthsKept
    <3>2. UNCHANGED <<up, active, memory, npuOn, raced, vpRunning, run, callbacks>>
      BY <1>2, <1>5
    <3>3. QED BY <1>0, <1>3, <3>1, <3>2, Zenon DEF Truths, CameraTruths
  <2>4. CallTypes'
    BY <1>0, <1>5 DEF CallTypes
  <2>5. QED BY <1>3, <1>4, <2>1, <2>2, <2>3, <2>4, TypesNext DEF IInv
<1>6. CASE up /\ active /\ vpRunning' = TRUE /\ Unlock /\ Finish(c) /\ UNCHANGED <<cgo, run, callbacks>>
  <2>1. Owned' /\ CallInv'
    BY <1>1, <1>6, NobodyThere DEF Inside
  <2>2. PipelineInv'
    BY <1>2, <1>6 DEF IInv, PipelineInv
  <2>3. Truths'
    <3>1. CameraTruths'
      <4>1. UNCHANGED <<initialized, streaming, running, callback, on>>
        BY <1>2
      <4>2. QED BY <1>0, <4>1, CameraTruthsKept
    <3>2. UNCHANGED <<up, active, memory, npuOn, raced, run, callbacks>>
      BY <1>2, <1>6
    <3>3. QED BY <1>0, <1>3, <1>6, <3>1, <3>2, Zenon DEF Truths, CameraTruths
  <2>4. CallTypes'
    BY <1>0, <1>6 DEF CallTypes
  <2>5. QED BY <1>3, <1>4, <2>1, <2>2, <2>3, <2>4, TypesNext DEF IInv
<1>7. CASE up /\ ~active /\ callbacks' = TRUE /\ run' = TRUE
           /\ Enter(c) /\ Goto(c, "stream") /\ UNCHANGED <<mu, vpRunning>>
  <2>1. Owned' /\ pc'[c] = "stream" /\ \A d \in Client \ {c} : pc'[d] \notin Inside
    BY <1>1, <1>7, Enters DEF Inside
  <2>2. ~streaming
    BY <1>1, <1>7, Zenon DEF IInv, PipelineInv
  <2>3. up' /\ ~active' /\ ~streaming'
    BY <1>2, <1>7, <2>2
  <2>4. CallInv'
    BY <2>1, <2>3 DEF CallInv
  <2>5. PipelineInv'
    BY <1>2, <1>7, ClientAssumption DEF IInv, PipelineInv
  <2>6. Truths'
    <3>1. CameraTruths'
      <4>1. UNCHANGED <<initialized, streaming, running, callback, on>>
        BY <1>2
      <4>2. QED BY <1>0, <4>1, CameraTruthsKept
    <3>2. UNCHANGED <<up, active, memory, npuOn, raced, vpRunning>>
      BY <1>2, <1>7
    <3>3. QED BY <1>0, <1>3, <1>7, <3>1, <3>2, Zenon DEF Truths, CameraTruths
  <2>7. CallTypes'
    BY <1>0, <1>7 DEF CallTypes, Inside
  <2>8. QED BY <1>3, <1>4, <2>1, <2>4, <2>5, <2>6, <2>7, TypesNext DEF IInv
<1>8. \/ ~up /\ Unlock /\ Finish(c) /\ UNCHANGED <<cgo, vpRunning, run, callbacks>>
      \/ up /\ active /\ vpRunning' = TRUE /\ Unlock /\ Finish(c) /\ UNCHANGED <<cgo, run, callbacks>>
      \/ up /\ ~active /\ callbacks' = TRUE /\ run' = TRUE
         /\ Enter(c) /\ Goto(c, "stream") /\ UNCHANGED <<mu, vpRunning>>
  BY DEF PipelineStart
<1>9. QED BY <1>5, <1>6, <1>7, <1>8

LEMMA StartCameraKeeps ==
    ASSUME IInv, NEW c \in Client, StartCamera(c)
    PROVE  IInv'
<1> USE DEF Goto, At
<1>0. Truths /\ CameraTypes /\ CallTypes /\ PartTypes
  BY Typed DEF IInv
<1>1. /\ pc[c] = "stream" /\ StartIsp
      /\ UNCHANGED <<cgo, active, run, callbacks>> /\ GoRest /\ PipelineRest
  BY DEF StartCamera
<1>2. UNCHANGED <<mu, vpRunning, vpLdch, raced, cgo, active, run, callbacks,
                  up, memory, ready, npuOn, pLdch, ispLdch, npu>>
  BY <1>1 DEF GoRest, go, PipelineRest
<1>3. /\ cgo = c /\ up /\ active = FALSE /\ streaming = FALSE /\ thread = "none"
      /\ initialized \in BOOLEAN /\ (initialized => mapped = Granted)
  <2>1. cgo = c
    BY <1>1, GoesOn DEF IInv, Owned, Inside
  <2>2. up /\ ~active /\ ~streaming
    BY <1>1, Zenon DEF IInv, CallInv, Inside
  <2>3. QED BY <1>0, <2>1, <2>2, Zenon DEF IInv, CameraInv, Truths
<1>4. NoFault \/ Fault
  BY DEF StartCamera
<1>5. left' \in 0 .. MaxEvents /\ failed' \in BOOLEAN
  BY <1>4, ChanceTyped DEF IInv
<1>6. PICK l \in {"mark", "unmark"} : Goto(c, l)
  BY DEF StartCamera
<1>7. Owned' /\ pc'[c] = l /\ \A d \in Client \ {c} : pc'[d] \notin Inside
  BY <1>1, <1>2, <1>6, GoesOn DEF Inside
<1>8. CallTypes'
  BY <1>0, <1>2, <1>6 DEF CallTypes, Inside
<1>9. PartTypes'
  BY <1>0, <1>1, <1>2 DEF PartTypes, StartIsp
<1>10. \/ l = "unmark" /\ UNCHANGED camera
       \/ l = "mark" /\ initialized /\ StreamOn
       \/ l = "unmark" /\ (QueueRefused \/ StreamOnFails)
  BY <1>3, <1>6, <1>7 DEF StartCamera, IInv, TypeOK
<1>11. /\ initialized' = initialized /\ mapped' = mapped /\ leaked' = leaked
       /\ queued' \in 0 .. Granted
       /\ on' \in BOOLEAN /\ running' \in BOOLEAN /\ callback' \in BOOLEAN
       /\ \/ l = "mark" /\ initialized /\ streaming' = TRUE /\ thread' = "wait"
          \/ l = "unmark" /\ streaming' = FALSE /\ thread' = "none"
  <2>0. Granted \in Nat
    BY GrantedAssumption
  <2>1. CASE l = "unmark" /\ UNCHANGED camera
    <3>1. UNCHANGED <<initialized, streaming, running, callback, mapped, leaked, queued, on, thread>>
      BY <2>1 DEF camera, buffers, status
    <3>2. on' \in BOOLEAN /\ running' \in BOOLEAN /\ callback' \in BOOLEAN
      BY <1>0, <3>1, Zenon DEF Truths
    <3>3. streaming' = FALSE
      BY <1>3, <3>1, Zenon
    <3>4. QED BY <1>0, <1>3, <2>1, <3>1, <3>2, <3>3, Zenon DEF CameraTypes
  <2>2. CASE l = "mark" /\ initialized /\ StreamOn
    <3>1. on' \in BOOLEAN /\ running' \in BOOLEAN /\ callback' \in BOOLEAN /\ initialized' = initialized
      BY <2>2, Zenon DEF StreamOn
    <3>2. queued' \in 0 .. Granted /\ mapped' = mapped /\ leaked' = leaked /\ thread' = "wait"
      BY <2>0, <2>2 DEF StreamOn
    <3>3. streaming' = TRUE
      BY <2>2, Zenon DEF StreamOn
    <3>4. QED BY <2>2, <3>1, <3>2, <3>3, Zenon
  <2>3. CASE l = "unmark" /\ QueueRefused
    <3>1. UNCHANGED <<initialized, streaming, mapped, leaked, on, running, thread>> /\ callback' = TRUE
      BY <2>3 DEF QueueRefused, status
    <3>2. on' \in BOOLEAN /\ running' \in BOOLEAN /\ callback' \in BOOLEAN
      BY <1>0, <3>1, Zenon DEF Truths
    <3>3. queued' \in 0 .. Granted
      BY <1>0, <2>0, <2>3 DEF QueueRefused, CameraTypes
    <3>4. streaming' = FALSE
      BY <1>3, <3>1, Zenon
    <3>5. QED BY <1>3, <2>3, <3>1, <3>2, <3>3, <3>4, Zenon
  <2>4. CASE l = "unmark" /\ StreamOnFails
    <3>1. UNCHANGED <<initialized, streaming, mapped, leaked, thread>> /\ callback' = TRUE
      BY <2>4 DEF StreamOnFails, status
    <3>2. on' \in BOOLEAN /\ running' \in BOOLEAN /\ callback' \in BOOLEAN
      <4>1. (UNCHANGED <<on, running>>) \/ (on' = FALSE /\ running' = FALSE)
        BY <2>4, Zenon DEF StreamOnFails
      <4>2. QED BY <1>0, <3>1, <4>1, Zenon DEF Truths
    <3>3. queued' \in 0 .. Granted
      BY <1>0, <2>0, <2>4 DEF StreamOnFails, CameraTypes
    <3>4. streaming' = FALSE
      BY <1>3, <3>1, Zenon
    <3>5. QED BY <1>3, <2>4, <3>1, <3>2, <3>3, <3>4, Zenon
  <2>5. QED BY <1>10, <2>1, <2>2, <2>3, <2>4, Zenon
<1>12. CameraInv'
  BY <1>3, <1>11 DEF CameraInv, HasFrame
<1>13. PipelineInv'
  BY <1>2, <1>3, <1>11, ClientAssumption DEF IInv, PipelineInv
<1>14. CallInv'
  <2>1. up' /\ ~active'
    BY <1>2, <1>3, Zenon
  <2>2. QED BY <1>7, <1>11, <2>1 DEF CallInv
<1>15. Truths'
  <2>1. initialized' \in BOOLEAN /\ streaming' \in BOOLEAN
    BY <1>0, <1>11, Zenon DEF Truths
  <2>2. QED BY <1>0, <1>2, <1>5, <1>11, <2>1, Zenon DEF Truths
<1>16. CameraTypes'
  BY <1>0, <1>3, <1>11 DEF CameraTypes
<1>17. QED BY <1>5, <1>7, <1>8, <1>9, <1>12, <1>13, <1>14, <1>15, <1>16, TypesNext DEF IInv

LEMMA MarkKeeps ==
    ASSUME IInv, NEW c \in Client, MarkStarted(c) \/ UnmarkStarted(c)
    PROVE  IInv'
<1> USE DEF At, Leave, Unlock, Finish
<1>0. Truths /\ CameraTypes /\ CallTypes /\ PartTypes
  BY Typed DEF IInv
<1>1. /\ pc[c] \in {"mark", "unmark"} /\ cgo' = NoClient /\ mu' = NoClient
      /\ pc' = [pc EXCEPT ![c] = "idle"] /\ op' = [op EXCEPT ![c] = "none"] /\ NoFault
      /\ UNCHANGED <<camera, callbacks, isp, vpLdch, raced>> /\ PipelineRest
  BY DEF MarkStarted, UnmarkStarted
<1>2. UNCHANGED <<initialized, streaming, running, callback, mapped, leaked, queued, on, thread,
                  up, callbacks, memory, ready, npuOn, pLdch, ispLdch, npu, isp, vpLdch, raced>>
  BY <1>1 DEF camera, buffers, status, PipelineRest
<1>3. up /\ (pc[c] = "mark" => streaming) /\ (pc[c] = "unmark" => ~active /\ ~streaming)
  BY <1>1, Zenon DEF IInv, CallInv, Inside
<1>4. \/ pc[c] = "mark" /\ active' = TRUE /\ vpRunning' = TRUE /\ run' = run
      \/ pc[c] = "unmark" /\ active' = active /\ vpRunning' = vpRunning /\ run' = FALSE
  BY DEF MarkStarted, UnmarkStarted
<1>5. left' \in 0 .. MaxEvents /\ failed' \in BOOLEAN
  BY <1>1, ChanceTyped DEF IInv
<1>6. Owned' /\ CallInv'
  BY <1>1, Leaves DEF Inside
<1>7. CameraInv' /\ CameraTypes' /\ PartTypes'
  BY <1>0, <1>2 DEF IInv, CameraInv, HasFrame, CameraTypes, PartTypes
<1>8. PipelineInv'
  <2>1. streaming' = streaming
    BY <1>2
  <2>2. active' <=> streaming'
    <3>1. CASE pc[c] = "mark"
      BY <1>3, <1>4, <2>1, <3>1
    <3>2. CASE pc[c] = "unmark"
      BY <1>3, <1>4, <2>1, <3>2
    <3>3. QED BY <1>1, <3>1, <3>2
  <2>3. QED BY <1>2, <2>2 DEF IInv, PipelineInv
<1>9. Truths'
  <2>1. active' \in BOOLEAN /\ vpRunning' \in BOOLEAN /\ run' \in BOOLEAN
    BY <1>0, <1>4, Zenon DEF Truths
  <2>2. UNCHANGED <<initialized, streaming, running, callback, on>>
    BY <1>2
  <2>3. CameraTruths'
    BY <1>0, <2>2, CameraTruthsKept
  <2>4. UNCHANGED <<up, callbacks, memory, npuOn, raced>>
    BY <1>2
  <2>5. QED BY <1>0, <1>5, <2>1, <2>3, <2>4, Zenon DEF Truths, CameraTruths
<1>10. CallTypes'
  BY <1>0, <1>1 DEF CallTypes
<1>11. QED BY <1>5, <1>6, <1>7, <1>8, <1>9, <1>10, TypesNext DEF IInv

-----------------------------------------------------------------------------
(* vision_pipeline_stop, vision_pipeline_shutdown. *)

\* A halt, of either: the thread goes on with its frame.
LEMMA HaltKeeps ==
    ASSUME IInv, NEW c \in Client, up, active, cgo = NoClient, Halt(c), NoFault,
           UNCHANGED <<active, callbacks, isp, vpRunning, vpLdch, raced, mu>>, PipelineRest
    PROVE  IInv'
<1> USE DEF Enter, Goto
<1>0. Truths /\ CameraTypes /\ CallTypes /\ PartTypes
  BY Typed DEF IInv
<1>1. streaming
  BY Zenon DEF IInv, PipelineInv
<1>2. /\ running' = FALSE /\ run' = FALSE /\ cgo' = c /\ pc' = [pc EXCEPT ![c] = "join"] /\ op' = op
      /\ UNCHANGED <<initialized, streaming, callback, mapped, leaked, queued, on, thread,
                     up, active, callbacks, memory, ready, npuOn, pLdch, ispLdch, npu, isp,
                     vpRunning, vpLdch, raced, mu>>
  BY <1>1 DEF Halt, LowerRunning, buffers, status, PipelineRest
<1>3. left' \in 0 .. MaxEvents /\ failed' \in BOOLEAN
  BY ChanceTyped DEF IInv
<1>4. Owned' /\ pc'[c] = "join" /\ \A d \in Client \ {c} : pc'[d] \notin Inside
  BY <1>2, Enters DEF Inside
<1>5. up' /\ active' /\ streaming'
  BY <1>1, <1>2
<1>6. CallInv'
  BY <1>4, <1>5 DEF CallInv
<1>7. CameraInv' /\ CameraTypes' /\ PartTypes'
  BY <1>0, <1>2 DEF IInv, CameraInv, HasFrame, CameraTypes, PartTypes
<1>8. PipelineInv'
  BY <1>2, ClientAssumption DEF IInv, PipelineInv
<1>9. Truths'
  <2>1. UNCHANGED <<initialized, streaming, callback, on, up>>
    BY <1>2
  <2>2. initialized' \in BOOLEAN /\ streaming' \in BOOLEAN /\ callback' \in BOOLEAN
        /\ on' \in BOOLEAN /\ up' \in BOOLEAN
    BY <1>0, <2>1, Zenon DEF Truths
  <2>3. UNCHANGED <<active, callbacks, memory, npuOn, vpRunning, raced>> /\ running' = FALSE /\ run' = FALSE
    BY <1>2
  <2>4. QED BY <1>0, <1>3, <2>2, <2>3, Zenon DEF Truths
<1>10. CallTypes'
  BY <1>0, <1>2 DEF CallTypes, Inside
<1>11. QED BY <1>3, <1>4, <1>6, <1>7, <1>8, <1>9, <1>10, TypesNext DEF IInv

LEMMA PipelineStopKeeps ==
    ASSUME IInv, NEW c \in Client, PipelineStop(c)
    PROVE  IInv'
<1> USE DEF At, Goto, Finish, Stopped
<1>1. /\ pc[c] = "enterstop" /\ cgo = NoClient /\ NoFault
      /\ UNCHANGED <<active, callbacks, isp, vpRunning, vpLdch, raced, mu>> /\ PipelineRest
  BY DEF PipelineStop, GoRest, go
<1>2. CASE active
  <2>1. up
    BY <1>1, <1>2, Zenon DEF IInv, PipelineInv
  <2>2. Halt(c)
    BY <1>2 DEF PipelineStop
  <2>3. QED BY <1>1, <1>2, <2>1, <2>2, HaltKeeps
<1>3. CASE ~active
  <2>0. Truths /\ CameraTypes /\ CallTypes /\ PartTypes
    BY Typed DEF IInv
  <2>1. Stopped(c) /\ UNCHANGED <<cgo, run, camera>>
    BY <1>3 DEF PipelineStop
  <2>2. CRest
    BY <1>1, <2>1 DEF CRest, PipelineRest, pipeline, parts
  <2>3. PICK l \in {"idle", "lockagain"} : pc' = [pc EXCEPT ![c] = l]
    BY <2>1
  <2>4. Owned' /\ CameraInv' /\ PipelineInv' /\ CallInv'
    BY <1>1, <2>2, <2>3, OutsideKeeps DEF Inside
  <2>5. left' \in 0 .. MaxEvents /\ failed' \in BOOLEAN
    BY <1>1, ChanceTyped DEF IInv
  <2>6. vpRunning' \in BOOLEAN /\ raced' \in BOOLEAN
    BY <1>1, <2>0, Zenon DEF Truths
  <2>7. Truths'
    <3>1. CameraTruths'
      <4>1. UNCHANGED <<initialized, streaming, running, callback, on>>
        BY <2>2 DEF CRest, camera, buffers, status
      <4>2. QED BY <2>0, <4>1, CameraTruthsKept
    <3>2. UNCHANGED <<up, active, run, callbacks, memory, npuOn>>
      BY <2>2 DEF CRest, pipeline
    <3>3. QED BY <2>0, <2>5, <2>6, <3>1, <3>2, Zenon DEF Truths, CameraTruths
  <2>8. op' \in [Client -> {"none", "initialize", "start", "stop", "shutdown", "npu", "ldch"}]
    BY <2>0, <2>1 DEF CallTypes
  <2>9. CameraTypes' /\ CallTypes' /\ PartTypes'
    BY <1>1, <2>0, <2>2, <2>3, <2>8
       DEF CRest, CameraTypes, CallTypes, PartTypes, camera, buffers, pipeline, parts
  <2>10. QED BY <2>4, <2>5, <2>7, <2>9, TypesNext DEF IInv
<1>4. QED BY <1>2, <1>3

LEMMA JoinKeeps ==
    ASSUME IInv, NEW c \in Client, JoinCamera(c)
    PROVE  IInv'
<1> USE DEF At, Goto
<1>0. Truths /\ CameraTypes /\ CallTypes /\ PartTypes
  BY Typed DEF IInv
<1>1. /\ pc[c] = "join" /\ pc' = [pc EXCEPT ![c] = "clear"] /\ op' = op /\ StopIsp
      /\ UNCHANGED <<cgo, active, run, callbacks, mu, vpRunning, vpLdch, raced>> /\ PipelineRest
  BY DEF JoinCamera, GoRest, go
<1>2. up /\ active /\ streaming
  BY <1>1, Zenon DEF IInv, CallInv, Inside
<1>3. thread = "exited" /\ StreamOff
  BY <1>2 DEF JoinCamera
<1>4. initialized' = initialized /\ mapped' = mapped /\ leaked' = leaked /\ running' = running
      /\ thread' = "none" /\ streaming' = FALSE /\ callback' = FALSE
      /\ UNCHANGED <<up, memory, ready, npuOn, pLdch, ispLdch, npu>>
  BY <1>1, <1>3 DEF StreamOff, PipelineRest
<1>5. queued' \in 0 .. Granted /\ on' \in BOOLEAN
  <2>1. queued' = 0 \/ queued' = queued
    BY <1>3 DEF StreamOff
  <2>2. on' = FALSE \/ on' = on
    BY <1>3 DEF StreamOff
  <2>3. queued' \in 0 .. Granted
    BY <1>0, <2>1, GrantedAssumption DEF CameraTypes
  <2>4. on' \in BOOLEAN
    BY <1>0, <2>2, Zenon DEF Truths
  <2>5. QED BY <2>3, <2>4
<1>6. left' \in 0 .. MaxEvents /\ failed' \in BOOLEAN
  BY <1>3, ChanceTyped DEF IInv, StreamOff
<1>7. cgo = c /\ Owned' /\ pc'[c] = "clear" /\ \A d \in Client \ {c} : pc'[d] \notin Inside
  BY <1>1, GoesOn DEF Inside
<1>8. CallInv'
  BY <1>2, <1>4, <1>7 DEF CallInv
<1>9. CameraInv'
  BY <1>4 DEF IInv, CameraInv, HasFrame
<1>10. PipelineInv'
  BY <1>1, <1>4, <1>7, ClientAssumption DEF IInv, PipelineInv
<1>11. Truths'
  <2>1. initialized' \in BOOLEAN /\ running' \in BOOLEAN
    BY <1>0, <1>4, Zenon DEF Truths
  <2>2. UNCHANGED <<active, run, callbacks, vpRunning, raced, up, memory, npuOn>>
    BY <1>1, <1>4
  <2>3. QED BY <1>0, <1>4, <1>5, <1>6, <2>1, <2>2, Zenon DEF Truths
<1>12. CameraTypes' /\ CallTypes' /\ PartTypes'
  BY <1>0, <1>1, <1>4, <1>5 DEF CameraTypes, CallTypes, PartTypes, StopIsp, Inside
<1>13. QED BY <1>6, <1>7, <1>8, <1>9, <1>10, <1>11, <1>12, TypesNext DEF IInv

LEMMA ClearKeeps ==
    ASSUME IInv, NEW c \in Client, Clear(c)
    PROVE  IInv'
<1> USE DEF At, Goto, Finish, Stopped, Leave
<1>0. Truths /\ CameraTypes /\ CallTypes /\ PartTypes
  BY Typed DEF IInv
<1>1. /\ pc[c] = "clear" /\ active' = FALSE /\ callbacks' = FALSE /\ NoFault
      /\ UNCHANGED <<camera, run, isp, mu, vpRunning, vpLdch, raced>> /\ PipelineRest
  BY DEF Clear, GoRest, go
<1>2. UNCHANGED <<initialized, streaming, running, callback, mapped, leaked, queued, on, thread,
                  up, run, memory, ready, npuOn, pLdch, ispLdch, npu, isp,
                  mu, vpRunning, vpLdch, raced>>
  BY <1>1 DEF camera, buffers, status, PipelineRest
<1>3. up /\ streaming = FALSE /\ thread = "none"
  <2>1. up /\ ~streaming
    BY <1>1, Zenon DEF IInv, CallInv, Inside
  <2>2. QED BY <1>0, <2>1, Zenon DEF IInv, CameraInv, Truths
<1>4. left' \in 0 .. MaxEvents /\ failed' \in BOOLEAN
  BY <1>1, ChanceTyped DEF IInv
<1>5. CameraInv' /\ CameraTypes' /\ PartTypes'
  BY <1>0, <1>2 DEF IInv, CameraInv, HasFrame, CameraTypes, PartTypes
<1>6. PipelineInv'
  BY <1>1, <1>2, <1>3 DEF IInv, PipelineInv
<1>7. Truths'
  <2>1. CameraTruths'
    <3>1. UNCHANGED <<initialized, streaming, running, callback, on>>
      BY <1>2
    <3>2. QED BY <1>0, <3>1, CameraTruthsKept
  <2>2. UNCHANGED <<up, run, memory, npuOn, vpRunning, raced>>
    BY <1>2
  <2>3. QED BY <1>0, <1>1, <1>4, <2>1, <2>2, Zenon DEF Truths, CameraTruths
<1>8. CASE mu = c
  <2>1. UNCHANGED <<cgo, op>> /\ pc' = [pc EXCEPT ![c] = "down"]
    BY <1>8 DEF Clear
  <2>2. Owned' /\ pc'[c] = "down" /\ \A d \in Client \ {c} : pc'[d] \notin Inside
    BY <1>1, <2>1, GoesOn DEF Inside
  <2>3. up' /\ ~active' /\ ~streaming'
    BY <1>1, <1>2, <1>3
  <2>4. CallInv'
    BY <2>2, <2>3 DEF CallInv
  <2>5. CallTypes'
    BY <1>0, <1>2, <2>1 DEF CallTypes, Inside
  <2>6. QED BY <1>4, <1>5, <1>6, <1>7, <2>2, <2>4, <2>5, TypesNext DEF IInv
<1>9. CASE mu # c
  <2>1. cgo' = NoClient /\ Stopped(c)
    BY <1>9 DEF Clear
  <2>2. PICK l \in {"idle", "lockagain"} : pc' = [pc EXCEPT ![c] = l]
    BY <2>1
  <2>3. Owned' /\ CallInv'
    BY <1>1, <2>1, <2>2, Leaves DEF Inside
  <2>4. op' = op \/ op' = [op EXCEPT ![c] = "none"]
    BY <2>1
  <2>5. CallTypes'
    BY <1>0, <1>2, <2>1, <2>2, <2>4 DEF CallTypes
  <2>6. QED BY <1>4, <1>5, <1>6, <1>7, <2>3, <2>5, TypesNext DEF IInv
<1>10. QED BY <1>8, <1>9

LEMMA PipelineShutdownKeeps ==
    ASSUME IInv, NEW c \in Client, PipelineShutdown(c)
    PROVE  IInv'
<1> USE DEF At, Goto, Finish, Unlock, Enter
<1>0. Truths /\ CameraTypes /\ CallTypes /\ PartTypes
  BY Typed DEF IInv
<1>1. /\ pc[c] = "enter" /\ cgo = NoClient /\ NoFault
      /\ UNCHANGED <<active, callbacks, isp, vpRunning, vpLdch, raced>> /\ PipelineRest
  BY DEF PipelineShutdown
<1>2. CASE up /\ active /\ Halt(c) /\ UNCHANGED mu
  BY <1>1, <1>2, HaltKeeps
<1>3. CASE UNCHANGED <<run, camera>>
  <2>1. UNCHANGED <<initialized, streaming, running, callback, mapped, leaked, queued, on, thread, active,
                    callbacks, up, run, memory, ready, npuOn, pLdch, ispLdch, npu, isp,
                    vpRunning, vpLdch, raced>>
    BY <1>1, <1>3 DEF camera, buffers, status, PipelineRest
  <2>2. left' \in 0 .. MaxEvents /\ failed' \in BOOLEAN
    BY <1>1, ChanceTyped DEF IInv
  <2>3. CameraInv' /\ CameraTypes' /\ PartTypes'
    BY <1>0, <2>1 DEF IInv, CameraInv, HasFrame, CameraTypes, PartTypes
  <2>4. PipelineInv'
    BY <1>1, <2>1 DEF IInv, PipelineInv
  <2>5. Truths'
    <3>1. CameraTruths'
      <4>1. UNCHANGED <<initialized, streaming, running, callback, on>>
        BY <2>1
      <4>2. QED BY <1>0, <4>1, CameraTruthsKept
    <3>2. UNCHANGED <<up, active, run, callbacks, memory, npuOn, vpRunning, raced>>
      BY <2>1
    <3>3. QED BY <1>0, <2>2, <3>1, <3>2, Zenon DEF Truths, CameraTruths
  <2>6. CASE mu' = NoClient /\ Finish(c) /\ UNCHANGED cgo
    <3>1. Owned' /\ CallInv'
      BY <1>1, <2>6, NobodyThere DEF Inside
    <3>2. CallTypes'
      BY <1>0, <2>6 DEF CallTypes
    <3>3. QED BY <2>2, <2>3, <2>4, <2>5, <3>1, <3>2, TypesNext DEF IInv
  <2>7. CASE up /\ ~active /\ Enter(c) /\ Goto(c, "down") /\ UNCHANGED mu
    <3>1. Owned' /\ pc'[c] = "down" /\ \A d \in Client \ {c} : pc'[d] \notin Inside
      BY <1>1, <2>7, Enters DEF Inside
    <3>2. ~streaming
      BY <1>1, <2>7, Zenon DEF IInv, PipelineInv
    <3>3. up' /\ ~active' /\ ~streaming'
      BY <2>1, <2>7, <3>2
    <3>4. CallInv'
      BY <3>1, <3>3 DEF CallInv
    <3>5. CallTypes'
      BY <1>0, <2>7 DEF CallTypes, Inside
    <3>6. QED BY <2>2, <2>3, <2>4, <2>5, <3>1, <3>4, <3>5, TypesNext DEF IInv
  <2>8. QED BY <1>2, <1>3, <2>6, <2>7 DEF PipelineShutdown
<1>4. \/ up /\ active /\ Halt(c) /\ UNCHANGED mu
      \/ UNCHANGED <<run, camera>>
  BY DEF PipelineShutdown
<1>5. QED BY <1>2, <1>3, <1>4

LEMMA DownHolds ==
    ASSUME IInv, NEW c \in Client, Down(c)
    PROVE  IInv'
<1> USE DEF At, Finish, Unlock, Leave
<1>0. Truths /\ CameraTypes /\ CallTypes /\ PartTypes
  BY Typed DEF IInv
<1>1. /\ pc[c] = "down" /\ ~streaming /\ npu' = "off" /\ isp' = "off"
      /\ memory' = FALSE /\ up' = FALSE /\ active' = FALSE /\ ready' = {}
      /\ mu' = NoClient /\ cgo' = NoClient /\ pc' = [pc EXCEPT ![c] = "idle"]
      /\ op' = [op EXCEPT ![c] = "none"] /\ NoFault
      /\ UNCHANGED <<run, callbacks, npuOn, pLdch, ispLdch, vpRunning, vpLdch, raced>>
  BY DEF Down, NpuDown, IspDown
<1>2. streaming = FALSE /\ thread = "none"
  BY <1>0, <1>1, Zenon DEF IInv, CameraInv, Truths
<1>3. /\ UNCHANGED <<streaming, running, callback, leaked, thread>>
      /\ initialized' = FALSE /\ mapped' \in 0 .. Granted /\ queued' \in 0 .. Granted
      /\ on' = FALSE \/ on' = on
  <2>0. Granted \in Nat /\ CloseCamera
    BY GrantedAssumption DEF Down
  <2>1. CASE initialized
    BY <2>0, <2>1 DEF CloseCamera, FreeBuffers
  <2>2. CASE ~initialized
    <3>1. UNCHANGED <<mapped, queued, on, initialized, streaming, running, callback, leaked, thread>>
      BY <2>0, <2>2 DEF CloseCamera
    <3>2. initialized' = FALSE
      BY <1>0, <2>2, <3>1, Zenon DEF Truths
    <3>3. QED BY <1>0, <3>1, <3>2 DEF CameraTypes
  <2>3. QED BY <2>1, <2>2
<1>4. left' \in 0 .. MaxEvents /\ failed' \in BOOLEAN
  BY <1>1, ChanceTyped DEF IInv
<1>5. Owned' /\ CallInv'
  BY <1>1, Leaves DEF Inside
<1>6. CameraInv'
  BY <1>2, <1>3 DEF CameraInv, HasFrame
<1>7. PipelineInv'
  BY <1>1, <1>2, <1>3 DEF PipelineInv
<1>8. Truths'
  <2>1. on' \in BOOLEAN /\ streaming' \in BOOLEAN
    BY <1>0, <1>3, Zenon DEF Truths
  <2>2. QED BY <1>0, <1>1, <1>3, <1>4, <2>1, Zenon DEF Truths
<1>9. CameraTypes' /\ CallTypes' /\ PartTypes'
  BY <1>0, <1>1, <1>3 DEF CameraTypes, CallTypes, PartTypes
<1>10. QED BY <1>4, <1>5, <1>6, <1>7, <1>8, <1>9, TypesNext DEF IInv

-----------------------------------------------------------------------------
(* The setters, and the capture thread. *)

LEMMA SetKeeps ==
    ASSUME IInv, NEW c \in Client, SetNpuEnabled(c) \/ SetLdch(c)
    PROVE  IInv'
<1> USE DEF At, Finish, Unlock, Visit
<1>0. Truths /\ CameraTypes /\ CallTypes /\ PartTypes
  BY Typed DEF IInv
<1>1. /\ cgo = NoClient /\ cgo' = NoClient /\ pc' = [pc EXCEPT ![c] = "idle"]
      /\ op' = [op EXCEPT ![c] = "none"] /\ NoFault
      /\ UNCHANGED <<camera, up, active, run, callbacks, memory, ready, isp, npu, vpRunning, vpLdch, raced>>
  BY DEF SetNpuEnabled, SetLdch, GoRest, go, parts
<1>2. mu' = mu \/ mu' = NoClient
  BY DEF SetNpuEnabled, SetLdch, GoRest, go
<1>3. npuOn' \in BOOLEAN
  <2>1. npuOn' \in BOOLEAN \/ npuOn' = npuOn
    BY DEF SetNpuEnabled, SetLdch
  <2>2. QED BY <1>0, <2>1, Zenon DEF Truths
<1>4. pLdch' \in Ldch /\ ispLdch' \in Ldch
  <2>1. CASE SetNpuEnabled(c)
    BY <1>0, <2>1 DEF SetNpuEnabled, PartTypes, parts
  <2>2. CASE SetLdch(c)
    <3>1. ispLdch' = ispLdch \/ ispLdch' = LdchOfIsp(vpLdch)
      BY <2>2 DEF SetLdch
    <3>2. LdchOfIsp(vpLdch) \in Ldch
      BY <1>0 DEF LdchOfIsp, Ldch, PartTypes
    <3>3. pLdch' = vpLdch
      BY <2>2 DEF SetLdch
    <3>4. QED BY <1>0, <3>1, <3>2, <3>3 DEF PartTypes
  <2>3. QED BY <2>1, <2>2
<1>5. UNCHANGED <<initialized, streaming, running, callback, mapped, leaked, queued, on, thread>>
  BY <1>1 DEF camera, buffers, status
<1>6. Owned' /\ CallInv'
  BY <1>1, NobodyThere DEF Inside
<1>7. CameraInv' /\ CameraTypes' /\ PartTypes'
  BY <1>0, <1>1, <1>4, <1>5 DEF IInv, CameraInv, HasFrame, CameraTypes, PartTypes
<1>8. PipelineInv'
  BY <1>1, <1>5 DEF IInv, PipelineInv
<1>9. left' \in 0 .. MaxEvents /\ failed' \in BOOLEAN
  BY <1>1, ChanceTyped DEF IInv
<1>10. Truths'
  <2>1. CameraTruths'
    <3>1. UNCHANGED <<initialized, streaming, running, callback, on>>
      BY <1>5
    <3>2. QED BY <1>0, <3>1, CameraTruthsKept
  <2>2. UNCHANGED <<up, active, run, callbacks, memory, vpRunning, raced>>
    BY <1>1
  <2>3. QED BY <1>0, <1>3, <1>9, <2>1, <2>2, Zenon DEF Truths, CameraTruths
<1>11. CallTypes'
  BY <1>0, <1>1, <1>2 DEF CallTypes
<1>12. QED BY <1>6, <1>7, <1>8, <1>9, <1>10, <1>11, TypesNext DEF IInv

LEMMA ThreadKeeps ==
    ASSUME IInv, ThreadStep
    PROVE  IInv'
<1> USE DEF ThreadWait, ThreadTimeout, ThreadDequeue, ThreadFails, ThreadRequeue, FrameArrives,
            FrameEncoded, FrameInferred, InCallback, Wait, Timeout, Dequeue, CaptureFails, Requeue, Step
<1>0. Truths /\ CameraTypes /\ CallTypes /\ PartTypes
  BY Typed DEF IInv
<1>1. /\ UNCHANGED <<mapped, leaked, on, status, running, callback>> /\ ThreadRest
      /\ NoFault \/ Fault
  BY DEF ThreadStep
<1>2. UNCHANGED <<initialized, streaming, running, callback, mapped, leaked, on,
                  mu, vpRunning, vpLdch, pc, op, cgo, up, active, run, callbacks, memory, ready,
                  npuOn, pLdch, isp, ispLdch, npu, raced>>
  BY <1>1 DEF status, ThreadRest, go, calls, pipeline, parts
<1>3. thread # "none" /\ thread' # "none"
  BY DEF ThreadStep
<1>4. /\ thread' \in {"wait", "select", "frame", "video", "detect", "requeue", "exited"}
      /\ thread' = "video" => callbacks
      /\ thread' = "detect" => callbacks /\ npu = "loaded"
  BY DEF ThreadStep, Infers
<1>5. queued' \in 0 .. Granted /\ (HasFrame' => queued' < Granted)
  <2>0. queued \in 0 .. Granted /\ Granted \in Nat /\ (HasFrame => queued < Granted)
    BY <1>0, GrantedAssumption DEF CameraTypes, IInv, CameraInv
  <2>1. CASE ThreadDequeue
    BY <2>0, <2>1 DEF HasFrame
  <2>2. CASE ThreadRequeue
    BY <2>0, <2>2 DEF HasFrame
  <2>3. CASE FrameArrives \/ FrameEncoded \/ FrameInferred
    BY <2>0, <2>3 DEF HasFrame
  <2>4. CASE ThreadWait \/ ThreadTimeout \/ ThreadFails
    BY <2>0, <2>4 DEF HasFrame
  <2>5. QED BY <2>1, <2>2, <2>3, <2>4 DEF ThreadStep
<1>6. left' \in 0 .. MaxEvents /\ failed' \in BOOLEAN
  BY <1>1, ChanceTyped DEF IInv
<1>7. Owned' /\ CallInv'
  BY <1>2, Zenon DEF IInv, Owned, CallInv
<1>8. CameraInv'
  BY <1>2, <1>3, <1>5 DEF IInv, CameraInv
<1>9. PipelineInv'
  BY <1>2, <1>4 DEF IInv, PipelineInv
<1>10. Truths'
  <2>1. UNCHANGED <<initialized, streaming, running, callback, on, vpRunning, up>>
    BY <1>2
  <2>2. UNCHANGED <<active, run, callbacks, memory, npuOn, raced>>
    BY <1>2
  <2>3. /\ initialized' \in BOOLEAN /\ streaming' \in BOOLEAN /\ running' \in BOOLEAN
        /\ callback' \in BOOLEAN /\ on' \in BOOLEAN /\ vpRunning' \in BOOLEAN /\ up' \in BOOLEAN
    BY <1>0, <2>1, Zenon DEF Truths
  <2>4. QED BY <1>0, <2>2, <2>3, <1>6, Zenon DEF Truths
<1>11. CameraTypes' /\ CallTypes' /\ PartTypes'
  BY <1>0, <1>2, <1>4, <1>5 DEF CameraTypes, CallTypes, PartTypes
<1>12. QED BY <1>6, <1>7, <1>8, <1>9, <1>10, <1>11, TypesNext DEF IInv

-----------------------------------------------------------------------------
(* The inductive invariant. *)

LEMMA StepIInv == IInv /\ [Next]_vars => IInv'
<1> SUFFICES ASSUME IInv, [Next]_vars PROVE IInv'
  OBVIOUS
<1>1. CASE ThreadStep
  BY <1>1, ThreadKeeps
<1>2. ASSUME NEW c \in Client, ClientCalls(c) PROVE IInv'
  BY <1>2, CallKeeps
<1>3. ASSUME NEW c \in Client, ClientStep(c) PROVE IInv'
  <2>1. CASE \/ LockInitialize(c) \/ LockStart(c) \/ LockShutdown(c)
             \/ LockStop(c) \/ LockAgain(c) \/ LockLdch(c)
    BY <2>1, LockKeeps
  <2>2. CASE PipelineInit(c)
    BY <2>2, InitKeeps
  <2>3. CASE PipelineStart(c) \/ StartCamera(c) \/ MarkStarted(c) \/ UnmarkStarted(c)
    BY <2>3, PipelineStartKeeps, StartCameraKeeps, MarkKeeps
  <2>4. CASE PipelineStop(c) \/ JoinCamera(c) \/ Clear(c)
    BY <2>4, PipelineStopKeeps, JoinKeeps, ClearKeeps
  <2>5. CASE PipelineShutdown(c) \/ Down(c)
    BY <2>5, PipelineShutdownKeeps, DownHolds
  <2>6. CASE SetNpuEnabled(c) \/ SetLdch(c)
    BY <2>6, SetKeeps
  <2>7. QED BY <1>3, <2>1, <2>2, <2>3, <2>4, <2>5, <2>6 DEF ClientStep
<1>4. CASE UNCHANGED vars
  <2>1. UNCHANGED <<initialized, streaming, running, callback, mapped, leaked, queued, on, thread,
                    left, failed, mu, vpRunning, vpLdch, pc, op, cgo, up, active, run, callbacks,
                    memory, ready, npuOn, pLdch, isp, ispLdch, npu, raced>>
    BY <1>4 DEF vars, camera, buffers, status, chance, go, calls, pipeline, parts
  <2>2. Truths /\ CameraTypes /\ CallTypes /\ PartTypes /\ left \in 0 .. MaxEvents
    BY Typed DEF IInv
  <2>3. Truths'
    <3>1. UNCHANGED <<initialized, streaming, running, callback, on, vpRunning, up>>
      BY <2>1
    <3>2. UNCHANGED <<active, run, callbacks, memory, npuOn, raced, failed>>
      BY <2>1
    <3>3. /\ initialized' \in BOOLEAN /\ streaming' \in BOOLEAN /\ running' \in BOOLEAN
          /\ callback' \in BOOLEAN /\ on' \in BOOLEAN /\ vpRunning' \in BOOLEAN /\ up' \in BOOLEAN
      BY <2>2, <3>1, Zenon DEF Truths
    <3>4. QED BY <2>2, <3>2, <3>3, Zenon DEF Truths
  <2>4. CameraTypes' /\ CallTypes' /\ PartTypes' /\ left' \in 0 .. MaxEvents
    BY <2>1, <2>2 DEF CameraTypes, CallTypes, PartTypes
  <2>5. Owned' /\ CallInv'
    BY <2>1, Zenon DEF IInv, Owned, CallInv
  <2>6. CameraInv'
    BY <2>1 DEF IInv, CameraInv, HasFrame
  <2>7. PipelineInv'
    BY <2>1 DEF IInv, PipelineInv
  <2>8. QED BY <2>3, <2>4, <2>5, <2>6, <2>7, TypesNext DEF IInv
<1>5. QED BY <1>1, <1>2, <1>3, <1>4 DEF Next

(* Whatever the clients call and whatever fails, a call in C finds the     *)
(* camera and the pipeline as the calls before it have left them, and the  *)
(* frame the capture thread has is one of the buffers.                     *)
THEOREM Inductive == Spec => []IInv
BY InitIInv, StepIInv, PTL DEF Spec

LEMMA BackedThen == IInv => FramesAreBacked
<1> SUFFICES ASSUME IInv PROVE FramesAreBacked
  OBVIOUS
<1>1. StoppedIsSilent
  BY Zenon DEF IInv, PipelineInv, CameraInv, StoppedIsSilent, InC
<1>2. HasFrame => thread # "none"
  BY DEF HasFrame
<1>3. FrameIsBacked
  BY <1>2, Zenon DEF IInv, PipelineInv, CameraInv, FrameIsBacked
<1>4. ShutdownFindsItStopped
  BY Zenon DEF IInv, CallInv, ShutdownFindsItStopped, At, Inside
<1>5. QED BY <1>1, <1>3, <1>4 DEF FramesAreBacked, IInv

(* Whatever is stopped or shut down meanwhile, a frame is worked on in     *)
(* memory that is there, a pipeline that is stopped has no thread left,    *)
(* and a shutdown does not wait for one that wants its mutex.              *)
THEOREM FramesBacked == Spec => []FramesAreBacked
BY Inductive, BackedThen, PTL

-----------------------------------------------------------------------------
(* The refinement. *)

Phase == IF ~up THEN "down" ELSE IF streaming THEN "serving" ELSE "ready"

LEMMA ServiceInit == Init => Service!Init
BY DEF Init, CameraInit, Service!Init, HasFrame

\* A step that leaves the three variables the service is made of is none of the service's.
LEMMA NoServiceStep ==
    ASSUME UNCHANGED <<up, streaming, thread>>
    PROVE  UNCHANGED <<Phase, HasFrame>>
BY DEF Phase, HasFrame

LEMMA ClientServes ==
    ASSUME IInv, NEW c \in Client, ClientCalls(c) \/ ClientStep(c)
    PROVE  Service!Next \/ UNCHANGED <<Phase, HasFrame>>
<1> USE DEF At, Goto, Finish, Lock, Stopped
<1>0. streaming \in BOOLEAN /\ up \in BOOLEAN /\ (streaming => up) /\ (streaming <=> thread # "none")
  BY DEF IInv, TypeOK, CameraTypeOK, CameraInv, PipelineInv
<1>1. CASE ClientCalls(c)
  <2>1. UNCHANGED <<camera, pipeline>>
    BY <1>1 DEF ClientCalls, CallInitialize, CallStart, CallStop, CallShutdown, CallSetNpuEnabled,
                CallSetLdch, Call, CRest
  <2>2. QED BY <2>1, NoServiceStep DEF camera, status, pipeline
<1>2. CASE \/ LockInitialize(c) \/ LockStart(c) \/ LockShutdown(c)
           \/ LockStop(c) \/ LockAgain(c) \/ LockLdch(c)
  <2>1. CRest
    BY <1>2 DEF LockInitialize, LockStart, LockShutdown, LockStop, LockAgain, LockLdch
  <2>2. QED BY <2>1, NoServiceStep DEF CRest, camera, status, pipeline
<1>3. CASE PipelineInit(c)
  <2>1. CASE UNCHANGED <<up, camera>>
    BY <2>1, NoServiceStep DEF camera, status
  <2>2. CASE /\ ~up /\ up' = TRUE
             /\ \E ok \in BOOLEAN : CameraOpens(ok)
    <3>1. ~streaming
      BY <1>0, <2>2, Zenon
    <3>2. UNCHANGED <<streaming, thread>>
      BY <2>2, <3>1, Opening
    <3>3. QED BY <1>0, <2>2, <3>1, <3>2 DEF Service!Next, Service!Open, Service!Move, HasFrame
  <2>3. QED
    BY <1>3, <2>1, <2>2 DEF PipelineInit, pipeline
<1>4. CASE PipelineStart(c) \/ MarkStarted(c) \/ UnmarkStarted(c)
  <2>1. UNCHANGED camera /\ PipelineRest
    BY <1>4 DEF PipelineStart, MarkStarted, UnmarkStarted
  <2>2. QED BY <2>1, NoServiceStep DEF PipelineRest, camera, status
<1>5. CASE StartCamera(c)
  <2>1. up /\ ~streaming /\ up' = up
    BY <1>5, Zenon DEF IInv, CallInv, Inside, StartCamera, PipelineRest
  <2>2. CASE StreamOn
    <3>1. thread = "none" /\ streaming' = TRUE /\ thread' = "wait"
      BY <1>0, <2>1, <2>2 DEF StreamOn
    <3>2. QED BY <2>1, <3>1 DEF Service!Next, Service!Serve, Service!Move, HasFrame
  <2>3. CASE UNCHANGED camera
    BY <2>1, <2>3, NoServiceStep DEF camera, status
  <2>4. CASE QueueRefused \/ StreamOnFails
    BY <2>1, <2>4, NoServiceStep DEF QueueRefused, StreamOnFails, status
  <2>5. QED BY <1>5, <2>2, <2>3, <2>4 DEF StartCamera
<1>6. CASE PipelineStop(c) \/ PipelineShutdown(c)
  <2>1. PipelineRest /\ (Halt(c) \/ UNCHANGED camera)
    BY <1>6 DEF PipelineStop, PipelineShutdown
  <2>2. UNCHANGED camera \/ LowerRunning
    BY <2>1 DEF Halt
  <2>3. QED BY <2>1, <2>2, NoServiceStep DEF PipelineRest, LowerRunning, camera, status
<1>7. CASE JoinCamera(c)
  <2>1. up /\ streaming /\ up' = up
    BY <1>7, Zenon DEF IInv, CallInv, Inside, JoinCamera, PipelineRest
  <2>2. thread = "exited" /\ StreamOff
    BY <1>7, <2>1 DEF JoinCamera
  <2>3. thread' = "none" /\ streaming' = FALSE
    BY <2>2 DEF StreamOff
  <2>4. QED BY <2>1, <2>2, <2>3 DEF Service!Next, Service!Stop, Service!Move, HasFrame
<1>8. CASE Clear(c)
  BY <1>8, NoServiceStep DEF Clear, PipelineRest, camera, status
<1>9. CASE Down(c)
  <2>1. up /\ ~streaming /\ up' = FALSE /\ UNCHANGED <<streaming, thread>>
    <3>1. up
      BY <1>9, Zenon DEF Down, IInv, CallInv, Inside
    <3>2. QED BY <1>9, <3>1 DEF Down, CloseCamera
  <2>2. thread = "none"
    BY <1>0, <2>1
  <2>3. QED BY <2>1, <2>2 DEF Service!Next, Service!Close, Service!Move, HasFrame
<1>10. CASE SetNpuEnabled(c) \/ SetLdch(c)
  <2>1. UNCHANGED <<up, camera>>
    BY <1>10 DEF SetNpuEnabled, SetLdch
  <2>2. QED BY <2>1, NoServiceStep DEF camera, status
<1>11. QED BY <1>1, <1>2, <1>3, <1>4, <1>5, <1>6, <1>7, <1>8, <1>9, <1>10 DEF ClientStep

LEMMA ThreadServes ==
    ASSUME IInv, ThreadStep
    PROVE  Service!Next \/ UNCHANGED <<Phase, HasFrame>>
<1> USE DEF ThreadWait, ThreadTimeout, ThreadDequeue, ThreadFails, ThreadRequeue, FrameArrives,
            FrameEncoded, FrameInferred, InCallback, Wait, Timeout, Dequeue, CaptureFails, Requeue, Step
<1>1. UNCHANGED <<streaming, up>>
  BY DEF ThreadStep, status, ThreadRest, pipeline
<1>2. up /\ streaming
  <2>1. thread # "none"
    BY DEF ThreadStep
  <2>2. QED BY <2>1, Zenon DEF IInv, CameraInv, PipelineInv
<1>3. CASE ThreadDequeue
  BY <1>1, <1>2, <1>3 DEF Service!Next, Service!Give, HasFrame
<1>4. CASE ThreadRequeue
  BY <1>1, <1>2, <1>4 DEF Service!Next, Service!TakeBack, HasFrame
<1>5. CASE ThreadWait \/ ThreadTimeout \/ ThreadFails \/ FrameArrives \/ FrameEncoded \/ FrameInferred
  <2>1. HasFrame' = HasFrame
    BY <1>5 DEF HasFrame
  <2>2. QED BY <1>1, <2>1 DEF Phase
<1>6. QED BY <1>3, <1>4, <1>5 DEF ThreadStep

LEMMA ServiceNext == IInv /\ [Next]_vars => [Service!Next]_Service!vars
<1> SUFFICES ASSUME IInv, [Next]_vars PROVE Service!Next \/ UNCHANGED <<Phase, HasFrame>>
  BY DEF Service!vars, Phase
<1>1. CASE Next
  BY <1>1, ClientServes, ThreadServes DEF Next
<1>2. CASE UNCHANGED vars
  BY <1>2, NoServiceStep DEF vars, camera, status, pipeline
<1>3. QED BY <1>1, <1>2

(* The camera serves frames as FrameService says: it neither stops nor     *)
(* closes while a frame is out, and gives one out only while it serves.    *)
THEOREM Refinement == Spec => ServesFrames
BY ServiceInit, ServiceNext, Inductive, PTL DEF Spec, ServesFrames, Service!Spec

-----------------------------------------------------------------------------
(* The accounts that Go, the pipeline and its parts keep.                  *)

\* VisionPipeline.mu is with the client that is in the middle of a call, but for a stop, which has
\* given it up, and for a shutdown while it stops the pipeline through Go.
Holds(c) ==
    \/ pc[c] = "enter" /\ op[c] # "npu"
    \/ pc[c] \in {"stream", "mark", "unmark", "down"}
HoldsRightly(c) ==
    /\ Holds(c) => mu = c
    /\ mu = c => Holds(c) \/ (op[c] = "shutdown" /\ pc[c] \in {"join", "clear"})
    /\ pc[c] \in {"stream", "mark", "unmark"} => op[c] = "start"
    /\ pc[c] \in {"lockagain", "down"} => op[c] = "shutdown"
HoldInv == \A c \in Client : HoldsRightly(c)

\* The parts, and what the status tells of them.
ReadyInv ==
    /\ ready = {p \in Parts : \/ p = "camera" /\ initialized
                              \/ p = "isp" /\ isp # "off"
                              \/ p = "npu" /\ npu # "off"}
    /\ ~up => ~active /\ ready = {}
    /\ up => isp # "off"

\* On its way out: it has seen to it that Go says it does not run.
Parting(c) ==
    \/ pc[c] \in {"enterstop", "join", "clear", "lockagain", "down"}
    \/ op[c] = "shutdown" /\ pc[c] = "enter"
Entering(c) == op[c] = "start" /\ (pc[c] \in {"enter", "stream", "mark", "unmark"})
GoInv ==
    /\ vpRunning => active
    /\ active /\ ~vpRunning => \E c \in Client : pc[c] \in {"enterstop", "join", "clear"}
    /\ \A c \in Client : Parting(c) => ~vpRunning
    /\ \A c, d \in Client : Entering(c) /\ c # d => ~Halfway(d)

\* Without a failure an open pipeline has its camera, a camera that does not stream has no buffer
\* queued, and one that is closed has none mapped.
Unhurt ==
    /\ up => initialized
    /\ ~streaming => queued = 0
    /\ ~initialized => mapped = 0
    /\ leaked = 0
    /\ \A c \in Client : pc[c] # "unmark"
    /\ isp = "running" => active \/ \E c \in Client : pc[c] = "mark"
ChanceInv == failed \/ Unhurt

\* The lens correction is passed on by the client that holds mu to change it.
Agreed == /\ pLdch = vpLdch /\ ispLdch.enabled = vpLdch.enabled
          /\ vpLdch.enabled => ispLdch.level = vpLdch.level
LdchInv == up => Agreed \/ \E c \in Client : mu = c /\ op[c] = "ldch"

\* The ISP is stopped before the pipeline says it is.
IspHalted == \A c \in Client : pc[c] = "clear" => isp # "running"

AgreeInv ==
    /\ HoldInv /\ ReadyInv /\ ChanceInv /\ LdchInv /\ IspHalted
    /\ ~raced => GoInv

\* A step of a client leaves the others where they are; it takes mu when it is free and gives up
\* its own.
Own(c) ==
    /\ \A d \in Client \ {c} : pc'[d] = pc[d] /\ op'[d] = op[d]
    /\ mu' = mu \/ (mu = NoClient /\ mu' = c) \/ (mu = c /\ mu' = NoClient)

\* The steps that lock, and those that enter C or leave it.
Locking(c) ==
    \/ LockInitialize(c) \/ LockStart(c) \/ LockShutdown(c)
    \/ LockStop(c) \/ LockAgain(c) \/ LockLdch(c)

LEMMA CallHolds ==
    ASSUME IInv, HoldInv, NEW c \in Client, ClientCalls(c)
    PROVE  Own(c) /\ HoldsRightly(c)'
<1>1. PICK o \in {"initialize", "start", "stop", "shutdown", "npu", "ldch"},
           l \in {"lock", "relock", "enter"} :
             Call(c, o, l) /\ (l = "enter" => o = "npu")
  BY Zenon DEF ClientCalls, CallInitialize, CallStart, CallStop, CallShutdown, CallSetNpuEnabled, CallSetLdch
<1>2. /\ pc[c] = "idle" /\ pc' = [pc EXCEPT ![c] = l] /\ op' = [op EXCEPT ![c] = o] /\ mu' = mu
  BY <1>1 DEF Call, At, go
<1>3. /\ pc'[c] = l /\ op'[c] = o
      /\ \A d \in Client \ {c} : pc'[d] = pc[d] /\ op'[d] = op[d]
  BY <1>2 DEF IInv, TypeOK
<1>4. mu # c
  BY <1>2 DEF HoldInv, HoldsRightly, Holds
<1>5. HoldsRightly(c)'
  BY <1>1, <1>2, <1>3, <1>4 DEF HoldsRightly, Holds
<1>6. QED BY <1>2, <1>3, <1>5 DEF Own

LEMMA LockHolds ==
    ASSUME IInv, HoldInv, NEW c \in Client, Locking(c)
    PROVE  Own(c) /\ HoldsRightly(c)'
<1> USE DEF At, Goto, Finish, Lock, Stopped
<1>1. pc \in [Client -> {"idle", "lock", "relock", "lockagain", "enter", "enterstop"} \cup Inside]
      /\ op \in [Client -> {"none", "initialize", "start", "stop", "shutdown", "npu", "ldch"}]
  BY Typed DEF IInv, CallTypes
<1>2. /\ HoldsRightly(c)
      /\ c # NoClient
  BY ClientAssumption DEF HoldInv
<1>3. CASE LockInitialize(c) \/ LockStart(c) \/ LockLdch(c)
  BY <1>1, <1>2, <1>3 DEF LockInitialize, LockStart, LockLdch, Own, HoldsRightly, Holds
<1>4. CASE LockShutdown(c) \/ LockAgain(c)
  BY <1>1, <1>2, <1>4 DEF LockShutdown, LockAgain, Own, HoldsRightly, Holds
<1>5. CASE LockStop(c)
  BY <1>1, <1>2, <1>5 DEF LockStop, Own, HoldsRightly, Holds
<1>6. QED BY <1>3, <1>4, <1>5 DEF Locking

LEMMA StepHolds ==
    ASSUME IInv, HoldInv, NEW c \in Client, ClientStep(c)
    PROVE  Own(c) /\ HoldsRightly(c)'
<1> USE DEF At, Goto, Finish, Unlock, Stopped
<1>1. pc \in [Client -> {"idle", "lock", "relock", "lockagain", "enter", "enterstop"} \cup Inside]
      /\ op \in [Client -> {"none", "initialize", "start", "stop", "shutdown", "npu", "ldch"}]
  BY Typed DEF IInv, CallTypes
<1>2. HoldsRightly(c) /\ c # NoClient
  BY ClientAssumption DEF HoldInv
<1>3. CASE Locking(c)
  BY <1>3, LockHolds
<1>4. CASE PipelineInit(c) \/ SetLdch(c)
  BY <1>1, <1>2, <1>4 DEF PipelineInit, SetLdch, Own, HoldsRightly, Holds
<1>5. CASE SetNpuEnabled(c)
  BY <1>1, <1>2, <1>5 DEF SetNpuEnabled, GoRest, go, Own, HoldsRightly, Holds
<1>6. CASE PipelineStart(c)
  BY <1>1, <1>2, <1>6 DEF PipelineStart, Own, HoldsRightly, Holds
<1>7. CASE StartCamera(c)
  <2>1. pc[c] = "stream" /\ UNCHANGED <<mu, op>>
        /\ (pc' = [pc EXCEPT ![c] = "mark"] \/ pc' = [pc EXCEPT ![c] = "unmark"])
    BY <1>7 DEF StartCamera, GoRest, go
  <2>2. QED BY <1>1, <1>2, <2>1 DEF Own, HoldsRightly, Holds
<1>8. CASE MarkStarted(c) \/ UnmarkStarted(c)
  BY <1>1, <1>2, <1>8 DEF MarkStarted, UnmarkStarted, Own, HoldsRightly, Holds
<1>9. CASE PipelineStop(c)
  BY <1>1, <1>2, <1>9 DEF PipelineStop, Halt, GoRest, go, Own, HoldsRightly, Holds
<1>10. CASE JoinCamera(c)
  BY <1>1, <1>2, <1>10 DEF JoinCamera, GoRest, go, Own, HoldsRightly, Holds
<1>11. CASE Clear(c)
  BY <1>1, <1>2, <1>11 DEF Clear, GoRest, go, Own, HoldsRightly, Holds
<1>12. CASE PipelineShutdown(c)
  BY <1>1, <1>2, <1>12 DEF PipelineShutdown, Halt, Own, HoldsRightly, Holds
<1>13. CASE Down(c)
  BY <1>1, <1>2, <1>13 DEF Down, Own, HoldsRightly, Holds
<1>14. QED BY <1>3, <1>4, <1>5, <1>6, <1>7, <1>8, <1>9, <1>10, <1>11, <1>12, <1>13
           DEF ClientStep, Locking

LEMMA HoldKeeps ==
    ASSUME HoldInv, NEW c \in Client, Own(c), HoldsRightly(c)'
    PROVE  HoldInv'
<1>1. ASSUME NEW d \in Client \ {c} PROVE HoldsRightly(d)'
  <2>1. HoldsRightly(d) /\ pc'[d] = pc[d] /\ op'[d] = op[d]
    BY DEF HoldInv, Own
  <2>2. mu' = d <=> mu = d
    BY ClientAssumption DEF Own
  <2>3. QED BY <2>1, <2>2 DEF HoldsRightly, Holds
<1>2. QED BY <1>1 DEF HoldInv

\* The steps that leave the parts alone, and the status that tells of them.
Quiet(c) ==
    \/ ClientCalls(c) \/ Locking(c) \/ PipelineStart(c) \/ UnmarkStarted(c)
    \/ PipelineStop(c) \/ PipelineShutdown(c) \/ SetNpuEnabled(c) \/ SetLdch(c)

LEMMA QuietLeaves ==
    ASSUME NEW c \in Client, Quiet(c)
    PROVE  UNCHANGED <<initialized, streaming, mapped, leaked, queued, up, active, ready, isp, npu, failed>>
<1> USE DEF camera, buffers, status, chance, pipeline, parts, PipelineRest, NoFault
<1>1. CASE ClientCalls(c)
  BY <1>1 DEF ClientCalls, CallInitialize, CallStart, CallStop, CallShutdown, CallSetNpuEnabled,
              CallSetLdch, Call, CRest
<1>2. CASE Locking(c)
  BY <1>2 DEF Locking, LockInitialize, LockStart, LockShutdown, LockStop, LockAgain, LockLdch, CRest
<1>3. CASE PipelineStart(c) \/ UnmarkStarted(c)
  BY <1>3 DEF PipelineStart, UnmarkStarted
<1>4. CASE PipelineStop(c) \/ PipelineShutdown(c)
  <2>1. UNCHANGED camera \/ LowerRunning
    BY <1>4 DEF PipelineStop, PipelineShutdown, Halt
  <2>2. UNCHANGED <<initialized, streaming, mapped, leaked, queued>>
    BY <2>1 DEF LowerRunning
  <2>3. QED BY <1>4, <2>2 DEF PipelineStop, PipelineShutdown
<1>5. CASE SetNpuEnabled(c) \/ SetLdch(c)
  BY <1>5 DEF SetNpuEnabled, SetLdch
<1>6. QED BY <1>1, <1>2, <1>3, <1>4, <1>5 DEF Quiet

\* The other ways an initialization ends.
LEMMA InitEnds ==
    ASSUME IInv, NEW c \in Client, PipelineInit(c)
    PROVE  \/ UNCHANGED <<initialized, streaming, mapped, leaked, queued, up, active, ready, isp, npu, failed>>
              /\ up /\ UNCHANGED <<pLdch, ispLdch>>
           \/ UNCHANGED <<initialized, streaming, mapped, leaked, queued, up, active, ready, isp, npu>>
              /\ ~up /\ failed'
           \/ /\ ~up /\ up' /\ UNCHANGED <<streaming, queued, active>>
              /\ pLdch' = vpLdch /\ ispLdch' = vpLdch /\ isp' = "initialized"
              /\ \E ok \in BOOLEAN :
                    /\ CameraOpens(ok)
                    /\ ready' = {"isp"} \cup {p \in {"camera"} : ok} \cup {p \in {"npu"} : npu' # "off"}
                    /\ failed' \/ (ok /\ failed' = failed)
<1> USE DEF camera, buffers, status, chance, pipeline, parts, NoFault, Fault
<1>1. CASE up
  BY <1>1 DEF PipelineInit
<1>2. CASE ~up /\ Fault /\ UNCHANGED <<camera, up, active, run, callbacks, memory, ready, npuOn, parts>>
  BY <1>2
<1>3. CASE /\ ~up /\ up' = TRUE /\ pLdch' = vpLdch /\ InitIsp
           /\ \E ok \in BOOLEAN, k \in {"off", "initialized", "loaded"} :
                /\ CameraOpens(ok) /\ InitNpu(k)
                /\ ready' = {"isp"} \cup {p \in {"camera"} : ok} \cup {p \in {"npu"} : k # "off"}
                /\ IF ok /\ k = "loaded" THEN NoFault ELSE Fault
           /\ UNCHANGED <<active, run, callbacks>>
  <2>1. PICK ok \in BOOLEAN, k \in {"off", "initialized", "loaded"} :
                /\ CameraOpens(ok) /\ InitNpu(k)
                /\ ready' = {"isp"} \cup {p \in {"camera"} : ok} \cup {p \in {"npu"} : k # "off"}
                /\ IF ok /\ k = "loaded" THEN NoFault ELSE Fault
    BY <1>3
  <2>2. ~streaming
    BY <1>3 DEF IInv, PipelineInv
  <2>3. UNCHANGED <<streaming, queued>>
    BY <2>1, <2>2, Opening
  <2>4. npu' = k /\ (failed' \/ (ok /\ failed' = failed))
    BY <2>1 DEF InitNpu
  <2>5. isp' = "initialized" /\ ispLdch' = vpLdch
    BY <1>3 DEF InitIsp
  <2>6. QED BY <1>3, <2>1, <2>3, <2>4, <2>5
<1>4. QED BY <1>1, <1>2, <1>3 DEF PipelineInit

\* What the loud steps do to the parts and the status.
LEMMA LoudSteps ==
    ASSUME IInv, NEW c \in Client
    PROVE  /\ MarkStarted(c) =>
                /\ pc[c] = "mark" /\ up /\ streaming /\ active'
                /\ UNCHANGED <<initialized, streaming, mapped, leaked, queued, up, ready, isp, npu, failed>>
           /\ Clear(c) =>
                /\ pc[c] = "clear" /\ up /\ ~active'
                /\ UNCHANGED <<initialized, streaming, mapped, leaked, queued, up, ready, isp, npu, failed>>
           /\ StartCamera(c) =>
                /\ pc[c] = "stream" /\ up /\ ~streaming /\ ~active
                /\ isp' = IF isp = "off" THEN "off" ELSE "running"
                /\ UNCHANGED <<initialized, mapped, leaked, up, active, ready, npu>>
           /\ JoinCamera(c) =>
                /\ pc[c] = "join" /\ up /\ active /\ pc'[c] = "clear"
                /\ isp' = IF isp = "running" THEN "initialized" ELSE isp
                /\ UNCHANGED <<initialized, mapped, leaked, up, active, ready, npu>>
                /\ (queued' = 0 /\ failed' = failed) \/ failed'
           /\ Down(c) =>
                /\ pc[c] = "down" /\ up /\ ~streaming /\ ~streaming' /\ ~up' /\ ~active' /\ ready' = {}
                /\ isp' = "off" /\ npu' = "off" /\ ~initialized' /\ failed' = failed
                /\ UNCHANGED leaked
                /\ IF initialized THEN mapped' = 0 /\ queued' = 0 ELSE UNCHANGED <<mapped, queued>>
<1> USE DEF At, Goto, camera, buffers, status, chance, NoFault, Fault, PipelineRest
<1>1. ASSUME MarkStarted(c)
      PROVE  /\ pc[c] = "mark" /\ up /\ streaming /\ active'
             /\ UNCHANGED <<initialized, streaming, mapped, leaked, queued, up, ready, isp, npu, failed>>
  BY <1>1, Zenon DEF MarkStarted, IInv, CallInv, Inside
<1>2. ASSUME Clear(c)
      PROVE  /\ pc[c] = "clear" /\ up /\ ~active'
             /\ UNCHANGED <<initialized, streaming, mapped, leaked, queued, up, ready, isp, npu, failed>>
  BY <1>2, Zenon DEF Clear, IInv, CallInv, Inside
<1>3. ASSUME StartCamera(c)
      PROVE  /\ pc[c] = "stream" /\ up /\ ~streaming /\ ~active
             /\ isp' = IF isp = "off" THEN "off" ELSE "running"
             /\ UNCHANGED <<initialized, mapped, leaked, up, active, ready, npu>>
  <2>1. pc[c] = "stream" /\ up /\ ~streaming /\ ~active
    BY <1>3, Zenon DEF StartCamera, IInv, CallInv, Inside
  <2>2. UNCHANGED <<initialized, mapped, leaked>>
    BY <1>3 DEF StartCamera, StreamOn, QueueRefused, StreamOnFails
  <2>3. QED BY <1>3, <2>1, <2>2 DEF StartCamera, StartIsp
<1>4. ASSUME JoinCamera(c)
      PROVE  /\ pc[c] = "join" /\ up /\ active /\ pc'[c] = "clear"
             /\ isp' = IF isp = "running" THEN "initialized" ELSE isp
             /\ UNCHANGED <<initialized, mapped, leaked, up, active, ready, npu>>
             /\ (queued' = 0 /\ failed' = failed) \/ failed'
  <2>1. pc[c] = "join" /\ up /\ active /\ streaming
    BY <1>4, Zenon DEF JoinCamera, IInv, CallInv, Inside
  <2>2. StreamOff
    BY <1>4, <2>1 DEF JoinCamera
  <2>3. pc'[c] = "clear"
    BY <1>4 DEF JoinCamera, IInv, TypeOK
  <2>4. /\ UNCHANGED <<initialized, mapped, leaked>>
        /\ (queued' = 0 /\ failed' = failed) \/ failed'
    BY <2>2 DEF StreamOff
  <2>5. QED BY <1>4, <2>1, <2>3, <2>4 DEF JoinCamera, StopIsp
<1>5. ASSUME Down(c)
      PROVE  /\ pc[c] = "down" /\ up /\ ~streaming /\ ~streaming' /\ ~up' /\ ~active' /\ ready' = {}
             /\ isp' = "off" /\ npu' = "off" /\ ~initialized' /\ failed' = failed
             /\ UNCHANGED leaked
             /\ IF initialized THEN mapped' = 0 /\ queued' = 0 ELSE UNCHANGED <<mapped, queued>>
  <2>1. pc[c] = "down" /\ up
    BY <1>5, Zenon DEF Down, IInv, CallInv, Inside
  <2>2. ~streaming /\ ~up' /\ ~active' /\ ready' = {} /\ isp' = "off" /\ npu' = "off" /\ failed' = failed
    BY <1>5 DEF Down, NpuDown, IspDown
  <2>3. CloseCamera
    BY <1>5 DEF Down
  <2>4. /\ ~streaming' /\ ~initialized' /\ UNCHANGED leaked
        /\ IF initialized THEN mapped' = 0 /\ queued' = 0 ELSE UNCHANGED <<mapped, queued>>
    BY <2>2, <2>3 DEF CloseCamera, FreeBuffers
  <2>5. QED BY <2>1, <2>2, <2>4
<1>6. QED BY <1>1, <1>2, <1>3, <1>4, <1>5

LEMMA StepKinds ==
    ASSUME NEW c \in Client, ClientCalls(c) \/ ClientStep(c)
    PROVE  \/ Quiet(c) \/ PipelineInit(c) \/ StartCamera(c) \/ MarkStarted(c)
           \/ JoinCamera(c) \/ Clear(c) \/ Down(c)
BY DEF ClientStep, Quiet, Locking

LEMMA ReadyKeeps ==
    ASSUME IInv, ReadyInv, NEW c \in Client, ClientCalls(c) \/ ClientStep(c)
    PROVE  ReadyInv'
<1>1. CASE Quiet(c)
  BY <1>1, QuietLeaves DEF ReadyInv
<1>2. CASE PipelineInit(c)
  <2>1. CASE UNCHANGED <<initialized, up, active, ready, isp, npu>>
    BY <2>1 DEF ReadyInv
  <2>2. CASE /\ ~up /\ up' /\ isp' = "initialized"
             /\ \E ok \in BOOLEAN :
                   /\ CameraOpens(ok)
                   /\ ready' = {"isp"} \cup {p \in {"camera"} : ok} \cup {p \in {"npu"} : npu' # "off"}
    <3>1. PICK ok \in BOOLEAN :
             /\ CameraOpens(ok)
             /\ ready' = {"isp"} \cup {p \in {"camera"} : ok} \cup {p \in {"npu"} : npu' # "off"}
      BY <2>2
    <3>2. ~initialized
      BY <2>2 DEF ReadyInv, Parts
    <3>3. initialized' <=> ok
      BY <3>1, <3>2 DEF CameraOpens, OpenCamera, OpenFails, status
    <3>4. QED BY <2>2, <3>1, <3>3 DEF ReadyInv, Parts
  <2>3. QED BY <1>2, <2>1, <2>2, InitEnds
<1>3. CASE StartCamera(c) \/ MarkStarted(c) \/ JoinCamera(c) \/ Clear(c)
  <2>1. UNCHANGED <<initialized, ready, npu, up>> /\ (isp' = "off" <=> isp = "off") /\ up
    BY <1>3, LoudSteps
  <2>2. QED BY <2>1 DEF ReadyInv
<1>4. CASE Down(c)
  <2>1. ~up' /\ ~active' /\ ready' = {} /\ isp' = "off" /\ npu' = "off" /\ ~initialized'
    BY <1>4, LoudSteps
  <2>2. QED BY <2>1 DEF ReadyInv, Parts
<1>5. QED BY <1>1, <1>2, <1>3, <1>4, StepKinds

\* The lens correction.
LEMMA LdchKeeps ==
    ASSUME IInv, HoldInv, ReadyInv, LdchInv, NEW c \in Client, Own(c), ClientCalls(c) \/ ClientStep(c)
    PROVE  LdchInv'
<1> USE DEF At, Goto, Finish, Lock, Unlock, Visit
<1>0. HoldsRightly(c)
  BY DEF HoldInv
<1>1. CASE LockLdch(c)
  <2>1. mu' = c /\ op' = op /\ op[c] = "ldch"
    BY <1>1 DEF LockLdch
  <2>2. QED BY <2>1 DEF LdchInv
<1>2. CASE SetLdch(c)
  <2>1. pLdch' = vpLdch' /\ vpLdch' = vpLdch /\ up' = up /\ isp' = isp
        /\ ispLdch' = IF isp = "off" THEN ispLdch ELSE LdchOfIsp(vpLdch)
    BY <1>2 DEF SetLdch
  <2>2. up' => Agreed'
    BY <2>1 DEF ReadyInv, LdchOfIsp, Agreed
  <2>3. QED BY <2>2 DEF LdchInv
<1>3. CASE PipelineInit(c) /\ ~up
  <2>1. ~up' \/ (pLdch' = vpLdch' /\ ispLdch' = vpLdch')
    <3>1. vpLdch' = vpLdch
      BY <1>3 DEF PipelineInit
    <3>2. QED BY <1>3, <3>1, InitEnds
  <2>2. QED BY <2>1 DEF LdchInv, Agreed
<1>4. CASE Down(c)
  BY <1>4, LoudSteps DEF LdchInv
<1>5. ASSUME ~(mu = c /\ op[c] = "ldch"), UNCHANGED <<up, pLdch, vpLdch, ispLdch>>
      PROVE  LdchInv'
  <2>1. ASSUME NEW d \in Client, mu = d, op[d] = "ldch" PROVE mu' = d /\ op'[d] = "ldch"
    BY <1>5, <2>1, ClientAssumption DEF Own
  <2>2. QED BY <1>5, <2>1 DEF LdchInv, Agreed
<1>6. ASSUME ~SetLdch(c) PROVE ~(mu = c /\ op[c] = "ldch")
  <2> SUFFICES ASSUME mu = c, op[c] = "ldch" PROVE FALSE
    OBVIOUS
  <2>1. pc[c] = "enter"
    BY <1>0 DEF HoldsRightly, Holds
  <2>2. QED BY <1>6, <2>1 DEF ClientCalls, CallInitialize, CallStart, CallStop, CallShutdown,
          CallSetNpuEnabled, CallSetLdch, Call, ClientStep, LockInitialize, LockStart, LockShutdown,
          LockStop, LockAgain, LockLdch, PipelineInit, PipelineStart, StartCamera, MarkStarted,
          UnmarkStarted, PipelineStop, JoinCamera, Clear, PipelineShutdown, Down, SetNpuEnabled
<1>7. ASSUME ~LockLdch(c), ~SetLdch(c), ~Down(c), ~PipelineInit(c) \/ up
      PROVE  UNCHANGED <<up, pLdch, vpLdch, ispLdch>>
  <2> USE DEF pipeline, parts, go, PipelineRest, GoRest
  <2>1. CASE ClientCalls(c)
    BY <2>1 DEF ClientCalls, CallInitialize, CallStart, CallStop, CallShutdown, CallSetNpuEnabled,
                CallSetLdch, Call, CRest
  <2>2. CASE Locking(c)
    BY <1>7, <2>2 DEF Locking, LockInitialize, LockStart, LockShutdown, LockStop, LockAgain, CRest
  <2>3. CASE PipelineInit(c)
    BY <1>7, <2>3 DEF PipelineInit
  <2>4. CASE \/ PipelineStart(c) \/ StartCamera(c) \/ MarkStarted(c) \/ UnmarkStarted(c)
    BY <2>4 DEF PipelineStart, StartCamera, MarkStarted, UnmarkStarted
  <2>5. CASE PipelineStop(c) \/ JoinCamera(c) \/ Clear(c) \/ PipelineShutdown(c)
    BY <2>5 DEF PipelineStop, JoinCamera, Clear, PipelineShutdown
  <2>6. CASE SetNpuEnabled(c)
    BY <2>6 DEF SetNpuEnabled
  <2>7. QED BY <1>7, <2>1, <2>2, <2>3, <2>4, <2>5, <2>6 DEF ClientStep, Locking
<1>8. QED BY <1>1, <1>2, <1>3, <1>4, <1>5, <1>6, <1>7

LEMMA QuietGoes ==
    ASSUME IInv, NEW c \in Client, Quiet(c)
    PROVE  pc'[c] \notin {"clear", "unmark", "mark"} /\ pc[c] # "mark"
<1> USE DEF At, Goto, Finish, Stopped, IInv, TypeOK
<1>1. CASE ClientCalls(c)
  BY <1>1 DEF ClientCalls, CallInitialize, CallStart, CallStop, CallShutdown,
              CallSetNpuEnabled, CallSetLdch, Call
<1>2. CASE Locking(c)
  BY <1>2 DEF Locking, LockInitialize, LockStart, LockShutdown, LockStop, LockAgain, LockLdch
<1>3. CASE PipelineStart(c) \/ UnmarkStarted(c)
  BY <1>3 DEF PipelineStart, UnmarkStarted
<1>4. CASE PipelineStop(c) \/ PipelineShutdown(c)
  BY <1>4 DEF PipelineStop, PipelineShutdown, Halt
<1>5. CASE SetNpuEnabled(c) \/ SetLdch(c)
  BY <1>5 DEF SetNpuEnabled, SetLdch
<1>6. QED BY <1>1, <1>2, <1>3, <1>4, <1>5 DEF Quiet

LEMMA MarkGoes ==
    ASSUME IInv, NEW c \in Client, MarkStarted(c) \/ Clear(c) \/ JoinCamera(c) \/ Down(c) \/ PipelineInit(c)
    PROVE  /\ MarkStarted(c) \/ Down(c) \/ PipelineInit(c) => pc'[c] = "idle"
           /\ Clear(c) => pc'[c] \in {"down", "lockagain", "idle"}
           /\ JoinCamera(c) => pc'[c] = "clear"
BY DEF At, Goto, Finish, Stopped, IInv, TypeOK, MarkStarted, Clear, JoinCamera, Down, PipelineInit

LEMMA HaltedKeeps ==
    ASSUME IInv, IspHalted, NEW c \in Client, Own(c), ClientCalls(c) \/ ClientStep(c)
    PROVE  IspHalted'
<1>1. CASE StartCamera(c)
  <2>1. pc[c] = "stream" /\ (pc'[c] = "mark" \/ pc'[c] = "unmark")
    BY <1>1 DEF StartCamera, At, Goto, IInv, TypeOK
  <2>2. \A d \in Client \ {c} : pc[d] \notin Inside
    BY <2>1 DEF IInv, Owned, Inside
  <2>3. QED BY <2>1, <2>2 DEF IspHalted, Own, Inside
<1>2. CASE JoinCamera(c)
  BY <1>2, LoudSteps DEF IspHalted
<1>3. ASSUME ~StartCamera(c), ~JoinCamera(c)
      PROVE  isp' # "running" \/ (isp' = isp /\ (pc'[c] = "clear" => pc[c] = "clear"))
  <2>1. CASE Quiet(c) \/ MarkStarted(c) \/ Clear(c)
    <3>1. isp' = isp
      BY <2>1, QuietLeaves, LoudSteps
    <3>2. pc'[c] # "clear"
      BY <2>1, QuietGoes, MarkGoes
    <3>3. QED BY <3>1, <3>2
  <2>2. CASE PipelineInit(c)
    <3>1. pc'[c] = "idle"
      BY <2>2 DEF PipelineInit, Finish, IInv, TypeOK
    <3>2. QED BY <2>2, <3>1, InitEnds
  <2>3. CASE Down(c)
    BY <2>3, LoudSteps
  <2>4. QED BY <1>3, <2>1, <2>2, <2>3, StepKinds
<1>4. QED BY <1>1, <1>2, <1>3 DEF IspHalted, Own

LEMMA ChanceKeeps ==
    ASSUME IInv, ChanceInv, IspHalted, NEW c \in Client, Own(c), ClientCalls(c) \/ ClientStep(c)
    PROVE  ChanceInv'
<1> SUFFICES ASSUME ~failed' PROVE Unhurt'
  BY DEF ChanceInv
<1>1. \A d \in Client \ {c} : pc'[d] = pc[d]
  BY DEF Own
<1>2. CASE Quiet(c)
  <2>1. UNCHANGED <<initialized, streaming, mapped, leaked, queued, up, active, isp, failed>>
    BY <1>2, QuietLeaves
  <2>2. Unhurt
    BY <2>1 DEF ChanceInv
  <2>3. \A d \in Client : pc'[d] # "unmark" /\ (pc[d] = "mark" => pc'[d] = "mark")
    BY <1>1, <1>2, <2>2, QuietGoes DEF Unhurt
  <2>4. QED BY <2>1, <2>2, <2>3 DEF Unhurt
<1>3. CASE PipelineInit(c)
  <2>1. pc'[c] = "idle" /\ pc[c] = "enter"
    BY <1>3, MarkGoes DEF PipelineInit, At
  <2>2. \A d \in Client : (pc[d] # "unmark" => pc'[d] # "unmark") /\ (pc[d] = "mark" => pc'[d] = "mark")
    BY <1>1, <2>1
  <2>3. CASE UNCHANGED <<initialized, streaming, mapped, leaked, queued, up, active, isp, failed>>
    <3>1. Unhurt
      BY <2>3 DEF ChanceInv
    <3>2. QED BY <2>2, <2>3, <3>1 DEF Unhurt
  <2>4. CASE /\ UNCHANGED <<streaming, queued, active>> /\ isp' = "initialized"
             /\ \E ok \in BOOLEAN : CameraOpens(ok) /\ (failed' \/ (ok /\ failed' = failed))
    <3>1. /\ failed' = failed
          /\ \/ initialized /\ UNCHANGED <<initialized, mapped, leaked>>
             \/ ~initialized /\ initialized' = TRUE /\ leaked' = leaked + mapped
      BY <2>4 DEF CameraOpens, OpenCamera, camera, buffers, status
    <3>2. Unhurt
      BY <3>1 DEF ChanceInv
    <3>3. initialized' /\ leaked' = 0
      BY <3>1, <3>2 DEF Unhurt
    <3>4. QED BY <2>2, <2>4, <3>2, <3>3 DEF Unhurt
  <2>5. QED BY <1>3, <2>3, <2>4, InitEnds
<1>4. CASE StartCamera(c)
  <2>1. /\ pc[c] = "stream" /\ up /\ ~streaming
        /\ UNCHANGED <<initialized, mapped, leaked, up, active>>
    BY <1>4, LoudSteps
  <2>2. failed' = failed
    BY <1>4 DEF StartCamera, NoFault, Fault, chance
  <2>3. Unhurt
    BY <2>2 DEF ChanceInv
  <2>4. initialized /\ queued = 0
    BY <2>1, <2>3 DEF Unhurt
  <2>5. StreamOn /\ pc'[c] = "mark"
    BY <1>4, <2>1, <2>4, GrantedAssumption DEF StartCamera, QueueRefused, Fault, At, Goto, IInv, TypeOK
  <2>6. streaming'
    BY <2>5 DEF StreamOn
  <2>7. QED BY <1>1, <2>1, <2>3, <2>5, <2>6 DEF Unhurt
<1>5. CASE MarkStarted(c)
  <2>1. /\ active' /\ UNCHANGED <<initialized, streaming, mapped, leaked, queued, up, isp, failed>>
        /\ pc'[c] = "idle"
    BY <1>5, LoudSteps, MarkGoes
  <2>2. QED BY <1>1, <2>1 DEF ChanceInv, Unhurt
<1>6. CASE JoinCamera(c)
  <2>1. /\ UNCHANGED <<initialized, mapped, leaked, up, active>> /\ isp' # "running"
        /\ queued' = 0 /\ failed' = failed /\ pc'[c] = "clear"
    BY <1>6, LoudSteps
  <2>2. QED BY <1>1, <2>1 DEF ChanceInv, Unhurt
<1>7. CASE Clear(c)
  <2>1. /\ UNCHANGED <<initialized, streaming, mapped, leaked, queued, up, isp, failed>>
        /\ pc[c] = "clear" /\ pc'[c] # "unmark"
    BY <1>7, LoudSteps, MarkGoes
  <2>2. isp # "running"
    BY <2>1 DEF IspHalted
  <2>3. QED BY <1>1, <2>1, <2>2 DEF ChanceInv, Unhurt
<1>8. CASE Down(c)
  <2>1. /\ ~streaming /\ ~up' /\ isp' = "off" /\ UNCHANGED <<leaked, failed>> /\ pc'[c] = "idle"
        /\ IF initialized THEN mapped' = 0 /\ queued' = 0 ELSE UNCHANGED <<mapped, queued>>
    BY <1>8, LoudSteps, MarkGoes
  <2>2. Unhurt
    BY <2>1 DEF ChanceInv
  <2>3. mapped' = 0 /\ queued' = 0
    BY <2>1, <2>2 DEF Unhurt
  <2>4. QED BY <1>1, <2>1, <2>2, <2>3 DEF Unhurt
<1>9. QED BY <1>2, <1>3, <1>4, <1>5, <1>6, <1>7, <1>8, StepKinds

\* A step that leaves Go's account and the pipeline's alone.
LEMMA GoUntouched ==
    ASSUME HoldInv, GoInv, NEW c \in Client, Own(c), UNCHANGED <<vpRunning, active>>,
           pc[c] \in {"enterstop", "join", "clear"} => pc'[c] \in {"enterstop", "join", "clear"} \/ ~active,
           Parting(c)' => ~vpRunning,
           Halfway(c)' => Halfway(c) \/ mu \in {NoClient, c},
           Entering(c)' => Entering(c) \/ \A d \in Client \ {c} : ~Halfway(d)
    PROVE  GoInv'
<1>1. \A d \in Client \ {c} : /\ pc'[d] = pc[d] /\ (Parting(d)' <=> Parting(d))
                              /\ (Halfway(d)' <=> Halfway(d)) /\ (Entering(d)' <=> Entering(d))
  BY DEF Own, Parting, Halfway, Entering, At
<1>2. vpRunning' => active'
  BY DEF GoInv
<1>3. active' /\ ~vpRunning' => \E d \in Client : pc'[d] \in {"enterstop", "join", "clear"}
  BY <1>1 DEF GoInv
<1>4. \A d \in Client : Parting(d)' => ~vpRunning'
  BY <1>1 DEF GoInv
<1>5. ASSUME NEW d \in Client, NEW e \in Client, Entering(d)', d # e PROVE ~Halfway(e)'
  <2>1. CASE d = c
    BY <1>1, <1>5, <2>1 DEF GoInv
  <2>2. CASE e = c
    <3>1. Entering(d) /\ ~Halfway(c)
      BY <1>1, <1>5, <2>2 DEF GoInv
    <3>2. mu = d
      BY <3>1 DEF HoldInv, HoldsRightly, Holds, Entering
    <3>3. QED BY <1>5, <2>2, <3>1, <3>2, ClientAssumption
  <2>3. CASE d # c /\ e # c
    BY <1>1, <1>5, <2>3 DEF GoInv
  <2>4. QED BY <2>1, <2>2, <2>3
<1>6. QED BY <1>2, <1>3, <1>4, <1>5 DEF GoInv

\* A start that finds the pipeline running, or has started it, tells Go.
LEMMA GoStarts ==
    ASSUME HoldInv, GoInv, NEW c \in Client, Own(c), Entering(c), pc'[c] = "idle", vpRunning', active'
    PROVE  GoInv'
<1>1. mu = c
  BY DEF HoldInv, HoldsRightly, Holds, Entering
<1>2. \A d \in Client \ {c} : ~Halfway(d) /\ ~Holds(d)
  BY <1>1 DEF GoInv, HoldInv, HoldsRightly
<1>3. \A d \in Client \ {c} : ~Parting(d)' /\ ~Halfway(d)' /\ (Entering(d)' => Holds(d))
  BY <1>2 DEF Own, Parting, Halfway, Holds, Entering, At
<1>4. ~Parting(c)' /\ ~Halfway(c)' /\ ~Entering(c)'
  BY DEF Parting, Halfway, Entering, At
<1>5. \A d \in Client : ~Parting(d)' /\ ~Halfway(d)'
  BY <1>3, <1>4
<1>6. QED BY <1>5 DEF GoInv

\* The pipeline is left not running by a client that has seen to it that Go knows.
LEMMA GoStops ==
    ASSUME HoldInv, GoInv, NEW c \in Client, Own(c), pc[c] \in {"clear", "down"}, UNCHANGED vpRunning, ~active',
           pc'[c] \in {"idle", "lockagain", "down"}, Halfway(c)' => Halfway(c)
    PROVE  GoInv'
<1>1. ~vpRunning'
  BY DEF GoInv, Parting
<1>2. \A d \in Client \ {c} : (Halfway(d)' <=> Halfway(d)) /\ (Entering(d)' <=> Entering(d))
  BY DEF Own, Halfway, Entering, At
<1>3. ~Entering(c)'
  BY DEF Entering
<1>4. \A d, e \in Client : Entering(d)' /\ d # e => ~Halfway(e)'
  BY <1>2, <1>3 DEF GoInv
<1>5. QED BY <1>1, <1>4 DEF GoInv

LEMMA GoKeeps ==
    ASSUME IInv, HoldInv, ~raced => GoInv, NEW c \in Client, Own(c), ClientCalls(c) \/ ClientStep(c)
    PROVE  ~raced' => GoInv'
<1> SUFFICES ASSUME ~raced' PROVE GoInv'
  OBVIOUS
<1> USE DEF At, Goto, Finish, Stopped, Lock
<1>0. /\ pc \in [Client -> {"idle", "lock", "relock", "lockagain", "enter", "enterstop"} \cup Inside]
      /\ op \in [Client -> {"none", "initialize", "start", "stop", "shutdown", "npu", "ldch"}]
      /\ HoldsRightly(c) /\ c # NoClient
  BY Typed, ClientAssumption DEF IInv, CallTypes, HoldInv
<1>1. GoInv
  <2>1. CASE LockStart(c)
    BY <2>1 DEF LockStart
  <2>2. CASE ~LockStart(c)
    <3>1. raced' = raced
      <4> USE DEF GoRest
      <4>1. CASE ClientCalls(c)
        BY <4>1 DEF ClientCalls, CallInitialize, CallStart, CallStop, CallShutdown,
                    CallSetNpuEnabled, CallSetLdch, Call
      <4>2. CASE Locking(c)
        BY <2>2, <4>2 DEF Locking, LockInitialize, LockShutdown, LockStop, LockAgain, LockLdch
      <4>3. CASE \/ PipelineInit(c) \/ PipelineStart(c) \/ StartCamera(c) \/ MarkStarted(c)
                 \/ UnmarkStarted(c) \/ PipelineStop(c)
        BY <4>3 DEF PipelineInit, PipelineStart, StartCamera, MarkStarted, UnmarkStarted, PipelineStop
      <4>4. CASE \/ JoinCamera(c) \/ Clear(c) \/ PipelineShutdown(c) \/ Down(c)
                 \/ SetNpuEnabled(c) \/ SetLdch(c)
        BY <4>4 DEF JoinCamera, Clear, PipelineShutdown, Down, SetNpuEnabled, SetLdch
      <4>5. QED BY <4>1, <4>2, <4>3, <4>4 DEF ClientStep, Locking
    <3>2. QED BY <3>1
  <2>3. QED BY <2>1, <2>2
<1>2. Parting(c) => ~vpRunning
  BY <1>1 DEF GoInv
<1>3. CASE ClientCalls(c)
  <2>1. pc[c] = "idle" /\ pc'[c] \in {"lock", "relock", "enter"} /\ UNCHANGED <<vpRunning, active>>
        /\ (pc'[c] = "relock" => op'[c] = "stop") /\ (pc'[c] = "enter" => op'[c] = "npu")
    BY <1>0, <1>3 DEF ClientCalls, CallInitialize, CallStart, CallStop, CallShutdown,
                CallSetNpuEnabled, CallSetLdch, Call, CRest, go, pipeline
  <2>2. QED BY <1>1, <2>1, GoUntouched DEF Parting, Halfway, Entering
<1>4. CASE LockStop(c) /\ vpRunning
  <2>1. mu = NoClient /\ ~vpRunning' /\ active' = active /\ pc'[c] = "enterstop" /\ mu' = mu
    BY <1>0, <1>4 DEF LockStop, CRest, pipeline
  <2>2. ASSUME NEW d \in Client PROVE ~Entering(d)'
    <3>1. ~Holds(d)
      BY <2>1, ClientAssumption DEF HoldInv, HoldsRightly
    <3>2. QED BY <2>1, <3>1 DEF Own, Holds, Entering
  <2>3. QED BY <2>1, <2>2 DEF GoInv
<1>5. CASE Locking(c) /\ ~(LockStop(c) /\ vpRunning)
  <2>1. UNCHANGED <<vpRunning, active>>
    BY <1>5 DEF Locking, LockInitialize, LockStart, LockShutdown, LockStop, LockAgain, LockLdch,
                CRest, pipeline
  <2>2. pc[c] \notin {"enterstop", "join", "clear"}
    BY <1>5 DEF Locking, LockInitialize, LockStart, LockShutdown, LockStop, LockAgain, LockLdch
  <2>3. Parting(c)' => ~vpRunning
    <3>1. CASE LockInitialize(c) \/ LockStart(c) \/ LockLdch(c)
      BY <1>0, <3>1 DEF LockInitialize, LockStart, LockLdch, Parting
    <3>2. CASE LockShutdown(c) \/ LockAgain(c)
      BY <1>0, <1>2, <3>2 DEF LockShutdown, LockAgain, Parting
    <3>3. CASE LockStop(c)
      BY <1>5, <3>3
    <3>4. QED BY <1>5, <3>1, <3>2, <3>3 DEF Locking
  <2>4. mu = NoClient
    BY <1>5 DEF Locking, LockInitialize, LockStart, LockShutdown, LockStop, LockAgain, LockLdch
  <2>5. Entering(c)' => \A d \in Client \ {c} : ~Halfway(d)
    <3>1. CASE LockStart(c)
      BY <3>1, <1>0 DEF LockStart, Entering
    <3>2. CASE LockInitialize(c) \/ LockLdch(c) \/ LockAgain(c)
      BY <3>2, <1>0 DEF LockInitialize, LockLdch, LockAgain, Entering, HoldsRightly
    <3>3. CASE LockShutdown(c) \/ LockStop(c)
      BY <3>3, <1>0 DEF LockShutdown, LockStop, Entering
    <3>4. QED BY <1>5, <3>1, <3>2, <3>3 DEF Locking
  <2>6. QED BY <1>1, <2>1, <2>2, <2>3, <2>4, <2>5, GoUntouched
<1>6. CASE PipelineInit(c) \/ SetNpuEnabled(c) \/ SetLdch(c)
  <2>1. pc[c] = "enter" /\ pc'[c] = "idle" /\ UNCHANGED <<vpRunning, active>>
    <3>1. CASE PipelineInit(c)
      BY <1>0, <3>1, InitEnds DEF PipelineInit
    <3>2. CASE SetNpuEnabled(c) \/ SetLdch(c)
      BY <1>0, <3>2 DEF SetNpuEnabled, SetLdch, GoRest, go
    <3>3. QED BY <1>6, <3>1, <3>2
  <2>2. QED BY <1>1, <2>1, GoUntouched DEF Parting, Halfway, Entering
<1>7. CASE PipelineStart(c)
  <2>1. Entering(c)
    BY <1>7 DEF PipelineStart, Entering
  <2>2. CASE pc'[c] = "idle" /\ vpRunning' /\ active'
    BY <1>1, <2>1, <2>2, GoStarts
  <2>3. CASE pc'[c] \in {"idle", "stream"} /\ UNCHANGED <<vpRunning, active>>
    <3>1. pc[c] = "enter"
      BY <1>7 DEF PipelineStart
    <3>2. QED BY <1>1, <2>1, <2>3, <3>1, GoUntouched DEF Parting, Halfway
  <2>4. QED
    <3>1. CASE ~up
      BY <1>0, <1>7, <2>3, <3>1 DEF PipelineStart
    <3>2. CASE up /\ active
      BY <1>0, <1>7, <2>2, <3>2 DEF PipelineStart
    <3>3. CASE up /\ ~active
      BY <1>0, <1>7, <2>3, <3>3 DEF PipelineStart
    <3>4. QED BY <3>1, <3>2, <3>3
<1>8. CASE StartCamera(c) \/ UnmarkStarted(c)
  <2>1. /\ pc[c] \in {"stream", "unmark"} /\ pc'[c] \in {"mark", "unmark", "idle"}
        /\ UNCHANGED <<vpRunning, active>>
    BY <1>0, <1>8 DEF StartCamera, UnmarkStarted, GoRest, go
  <2>2. Entering(c)
    BY <1>0, <2>1 DEF HoldsRightly, Entering
  <2>3. QED BY <1>1, <2>1, <2>2, GoUntouched DEF Parting, Halfway
<1>9. CASE MarkStarted(c)
  <2>1. pc[c] = "mark" /\ pc'[c] = "idle" /\ vpRunning' /\ active'
    BY <1>0, <1>9 DEF MarkStarted
  <2>2. Entering(c)
    BY <1>0, <2>1 DEF HoldsRightly, Entering
  <2>3. QED BY <1>1, <2>1, <2>2, GoStarts
<1>10. CASE PipelineStop(c)
  <2>1. /\ pc[c] = "enterstop" /\ UNCHANGED <<vpRunning, active>>
        /\ pc'[c] = "join" \/ (~active /\ pc'[c] \in {"lockagain", "idle"})
    BY <1>0, <1>10 DEF PipelineStop, Halt, GoRest, go
  <2>2. QED BY <1>1, <1>2, <2>1, GoUntouched DEF Parting, Halfway, Entering
<1>11. CASE JoinCamera(c)
  <2>1. pc[c] = "join" /\ pc'[c] = "clear" /\ UNCHANGED <<vpRunning, active>>
    BY <1>0, <1>11 DEF JoinCamera, GoRest, go
  <2>2. QED BY <1>1, <1>2, <2>1, GoUntouched DEF Parting, Halfway, Entering
<1>12. CASE Clear(c)
  <2>1. /\ pc[c] = "clear" /\ pc'[c] \in {"idle", "lockagain", "down"} /\ UNCHANGED vpRunning /\ ~active'
    BY <1>0, <1>12 DEF Clear, GoRest, go
  <2>2. QED BY <1>1, <2>1, GoStops DEF Halfway
<1>13. CASE PipelineShutdown(c)
  <2>1. /\ pc[c] = "enter" /\ op[c] = "shutdown" /\ pc'[c] \in {"idle", "join", "down"}
        /\ UNCHANGED <<vpRunning, active>>
    <3>1. CASE ~up
      BY <1>0, <1>13, <3>1 DEF PipelineShutdown
    <3>2. CASE up /\ active
      BY <1>0, <1>13, <3>2 DEF PipelineShutdown, Halt
    <3>3. CASE up /\ ~active
      BY <1>0, <1>13, <3>3 DEF PipelineShutdown
    <3>4. QED BY <3>1, <3>2, <3>3
  <2>2. mu = c
    BY <1>0, <2>1 DEF HoldsRightly, Holds
  <2>3. QED BY <1>1, <1>2, <2>1, <2>2, GoUntouched DEF Parting, Entering
<1>14. CASE Down(c)
  <2>1. /\ pc[c] = "down" /\ pc'[c] = "idle" /\ UNCHANGED vpRunning /\ ~active'
    BY <1>0, <1>14 DEF Down
  <2>2. QED BY <1>1, <2>1, GoStops DEF Halfway
<1>15. QED BY <1>3, <1>4, <1>5, <1>6, <1>7, <1>8, <1>9, <1>10, <1>11, <1>12, <1>13, <1>14
           DEF ClientStep, Locking

\* A step of the capture thread, or of nobody.
LEMMA ThreadAgrees ==
    ASSUME IInv, AgreeInv, ThreadStep \/ UNCHANGED vars
    PROVE  AgreeInv'
<1> USE DEF ThreadWait, ThreadTimeout, ThreadDequeue, ThreadFails, ThreadRequeue, FrameArrives,
            FrameEncoded, FrameInferred, InCallback, Wait, Timeout, Dequeue, CaptureFails, Requeue, Step
<1>1. UNCHANGED <<mapped, leaked, status>> /\ ThreadRest
  BY DEF ThreadStep, vars, camera, buffers, ThreadRest
<1>2. UNCHANGED <<initialized, streaming, mapped, leaked, mu, vpRunning, vpLdch, pc, op, up, active,
                  ready, pLdch, isp, ispLdch, npu, raced>>
  BY <1>1 DEF status, ThreadRest, go, calls, pipeline, parts
<1>3. HoldInv' /\ ReadyInv' /\ LdchInv' /\ IspHalted' /\ (~raced' => GoInv')
  <2>1. HoldInv'
    BY <1>2 DEF AgreeInv, HoldInv, HoldsRightly, Holds
  <2>2. ReadyInv' /\ LdchInv' /\ IspHalted'
    BY <1>2 DEF AgreeInv, ReadyInv, LdchInv, Agreed, IspHalted
  <2>3. ~raced' => GoInv'
    BY <1>2 DEF AgreeInv, GoInv, Parting, Entering, Halfway, At
  <2>4. QED BY <2>1, <2>2, <2>3
<1>4. ChanceInv'
  <2>1. failed' \/ failed' = failed
    BY DEF ThreadStep, vars, chance, NoFault, Fault
  <2>2. streaming \/ queued' = queued
    <3>1. CASE thread # "none"
      BY <3>1, Zenon DEF IInv, CameraInv
    <3>2. CASE UNCHANGED vars
      BY <3>2 DEF vars, camera, buffers
    <3>3. ThreadStep => thread # "none"
      BY DEF ThreadStep
    <3>4. QED BY <3>1, <3>2, <3>3
  <2>3. QED BY <1>2, <2>1, <2>2 DEF AgreeInv, ChanceInv, Unhurt
<1>5. QED BY <1>3, <1>4 DEF AgreeInv

LEMMA InitAgrees == Init => AgreeInv
<1> SUFFICES ASSUME Init PROVE AgreeInv
  OBVIOUS
<1>1. HoldInv /\ IspHalted
  BY ClientAssumption DEF Init, HoldInv, HoldsRightly, Holds, IspHalted
<1>2. ReadyInv /\ LdchInv
  BY DEF Init, CameraInit, ReadyInv, LdchInv, Parts
<1>3. ChanceInv
  BY DEF Init, CameraInit, ChanceInv, Unhurt
<1>4. GoInv
  BY DEF Init, GoInv, Parting, Entering
<1>5. QED BY <1>1, <1>2, <1>3, <1>4 DEF AgreeInv

LEMMA StepAgrees == IInv /\ AgreeInv /\ [Next]_vars => AgreeInv'
<1> SUFFICES ASSUME IInv, AgreeInv, [Next]_vars PROVE AgreeInv'
  OBVIOUS
<1>1. CASE ThreadStep \/ UNCHANGED vars
  BY <1>1, ThreadAgrees
<1>2. ASSUME NEW c \in Client, ClientCalls(c) \/ ClientStep(c) PROVE AgreeInv'
  <2>1. HoldInv /\ ReadyInv /\ ChanceInv /\ LdchInv /\ IspHalted /\ (~raced => GoInv)
    BY DEF AgreeInv
  <2>2. Own(c) /\ HoldsRightly(c)'
    BY <1>2, <2>1, CallHolds, StepHolds
  <2>3. HoldInv'
    BY <2>1, <2>2, HoldKeeps
  <2>4. ReadyInv' /\ LdchInv'
    BY <1>2, <2>1, <2>2, ReadyKeeps, LdchKeeps
  <2>5. ChanceInv' /\ IspHalted'
    BY <1>2, <2>1, <2>2, ChanceKeeps, HaltedKeeps
  <2>6. ~raced' => GoInv'
    BY <1>2, <2>1, <2>2, GoKeeps
  <2>7. QED BY <2>3, <2>4, <2>5, <2>6 DEF AgreeInv
<1>3. QED BY <1>1, <1>2 DEF Next

\* At rest the accounts agree.
LEMMA AgreedThen == IInv /\ AgreeInv => StatesAgree
<1> SUFFICES ASSUME IInv, AgreeInv PROVE StatesAgree
  OBVIOUS
<1>1. StatusTells
  <2>1. streaming \in BOOLEAN /\ active \in BOOLEAN /\ memory \in BOOLEAN /\ up \in BOOLEAN
    BY DEF IInv, TypeOK, CameraTypeOK
  <2>2. cgo = NoClient => active = streaming
    BY <2>1, Zenon DEF IInv, PipelineInv
  <2>3. memory = up
    <3>1. memory <=> up
      BY DEF IInv, PipelineInv
    <3>2. (memory = TRUE \/ memory = FALSE) /\ (up = TRUE \/ up = FALSE)
      BY <2>1
    <3>3. QED BY <3>1, <3>2
  <2>4. QED BY <2>2, <2>3 DEF AgreeInv, ReadyInv, StatusTells, InC
<1>2. GoKnows
  <2> SUFFICES ASSUME Idle, ~raced PROVE vpRunning = active
    BY DEF GoKnows
  <2>1. vpRunning <=> active
    BY DEF AgreeInv, GoInv, Idle, At
  <2>2. (vpRunning = TRUE \/ vpRunning = FALSE) /\ (active = TRUE \/ active = FALSE)
    BY DEF IInv, TypeOK
  <2>3. QED BY <2>1, <2>2
<1>3. IspIdle
  <2>1. ~InC => \A c \in Client : pc[c] # "mark"
    BY Alone DEF InC, Inside
  <2>2. QED BY <2>1 DEF AgreeInv, ChanceInv, Unhurt, IspIdle
<1>4. StartsAgain /\ MappingsOwned
  BY DEF AgreeInv, ChanceInv, Unhurt, StartsAgain, MappingsOwned, At
<1>5. LdchAgrees
  BY ClientAssumption DEF AgreeInv, LdchInv, Agreed, LdchAgrees
<1>6. QED BY <1>1, <1>2, <1>3, <1>4, <1>5 DEF StatesAgree

(* Go, the pipeline and its parts keep their own accounts.  Whatever the   *)
(* clients call, they agree whenever no call is in C, and a failure or a   *)
(* start that raced a stop is the only reason for a part left behind.      *)
THEOREM AccountsAgree == Spec => []StatesAgree
<1>1. Spec => [](IInv /\ AgreeInv)
  BY InitIInv, StepIInv, InitAgrees, StepAgrees, PTL DEF Spec
<1>2. QED BY <1>1, AgreedThen, PTL

-----------------------------------------------------------------------------
(* Induction.                                                              *)

(* A set of naturals that is not empty has a least element.                *)
LEMMA LeastExists == ASSUME NEW T, T \subseteq Nat, T # {} PROVE \E x \in T : \A y \in T : x <= y
<1>1. \E x \in T : \A y \in T : ~ (<<y, x>> \in OpToRel(<, Nat))
  BY NatLessThanWellFounded, WFMin
<1>2. \A x, y \in T : ~ (<<y, x>> \in OpToRel(<, Nat)) => x <= y
  BY DEF OpToRel
<1> QED
  BY <1>1, <1>2

(* A set that holds 0, and with a number the next one, holds them all.     *)
LEMMA NatsByInduction ==
  ASSUME NEW T, 0 \in T, \A k \in Nat : k \in T => k + 1 \in T
  PROVE  Nat \subseteq T
<1> SUFFICES ASSUME Nat \ T # {} PROVE FALSE
  OBVIOUS
<1>1. PICK x \in Nat \ T : \A y \in Nat \ T : x <= y
  BY LeastExists
<1>2. x # 0 /\ x \in Nat
  BY <1>1
<1>3. x - 1 \in Nat /\ ~(x <= x - 1) /\ (x - 1) + 1 = x
  BY <1>2
<1>4. x - 1 \in T
  BY <1>1, <1>3
<1> QED
  BY <1>1, <1>3, <1>4

(* Division, for any divisor.                                              *)
LEMMA Products ==
  ASSUME NEW a \in Int, NEW b \in Int, NEW c \in Nat, a <= b
  PROVE  a * c \in Int /\ b * c \in Int /\ a * c <= b * c
<1>1. (b - a) * c >= 0
  OBVIOUS
<1>2. (b - a) * c = b * c - a * c
  OBVIOUS
<1> QED
  BY <1>1, <1>2

LEMMA Division ==
  ASSUME NEW a \in Nat, NEW b \in Nat \ {0}
  PROVE  a \div b \in Nat /\ a % b \in 0 .. b - 1 /\ a = (a \div b) * b + (a % b)
OBVIOUS

LEMMA DivisionIsUnique ==
  ASSUME NEW q \in Nat, NEW b \in Nat \ {0}, NEW r \in 0 .. b - 1
  PROVE  (q * b + r) \div b = q /\ (q * b + r) % b = r
<1> DEFINE a == q * b + r
<1>1. a \in Nat
  BY Products
<1>2. a \div b \in Nat /\ a % b \in 0 .. b - 1 /\ a = (a \div b) * b + (a % b)
  BY <1>1, Division
<1> HIDE DEF a
<1>3. CASE a \div b < q
  <2>1. (a \div b + 1) * b <= q * b
    BY <1>2, <1>3, Products
  <2>2. (a \div b + 1) * b = (a \div b) * b + b
    BY <1>2
  <2> QED
    BY <1>2, <2>1, <2>2 DEF a
<1>4. CASE a \div b > q
  <2>1. (q + 1) * b <= (a \div b) * b
    <3>1. q + 1 \in Int /\ a \div b \in Int /\ q + 1 <= a \div b /\ b \in Nat
      BY <1>2, <1>4
    <3> QED
      BY <3>1, Products
  <2>2. (q + 1) * b = q * b + b
    OBVIOUS
  <2> QED
    BY <1>2, <2>1, <2>2 DEF a
<1>5. CASE a \div b = q
  BY <1>2, <1>5 DEF a
<1> QED
  BY <1>2, <1>3, <1>4, <1>5

LEMMA IntegerDivision ==
  ASSUME NEW a \in Int, NEW b \in Nat \ {0}
  PROVE  a \div b \in Int /\ (a \div b) * b \in Int /\ (a \div b) * b <= a /\ a < (a \div b) * b + b
<1>1. a \div b \in Int /\ a % b \in 0 .. b - 1 /\ a = b * (a \div b) + (a % b)
  OBVIOUS
<1>2. b * (a \div b) = (a \div b) * b
  BY <1>1
<1> QED
  BY <1>1, <1>2

LEMMA DivisionIsBounded ==
  ASSUME NEW a \in Nat, NEW b \in Nat \ {0}, NEW c \in Nat, a < c * b
  PROVE  a \div b \in 0 .. c - 1
<1>1. a \div b \in Nat /\ a % b \in 0 .. b - 1 /\ a = (a \div b) * b + (a % b)
  BY Division
<1>2. ASSUME a \div b >= c PROVE FALSE
  <2>1. c * b <= (a \div b) * b
    BY <1>1, <1>2, Products
  <2> QED
    BY <1>1, <2>1
<1> QED
  BY <1>1, <1>2

-----------------------------------------------------------------------------
(* Colours.                                                                *)

LEMMA ClampStaysNear ==
  ASSUME NEW a \in Int, NEW b \in Int, Distance(a, b) <= 2
  PROVE  Distance(Clamp(a), Clamp(b)) <= 2
BY DEF Distance, Clamp

(* Every pixel has the colours of the full-range standard, two steps off   *)
(* at most.                                                                *)
THEOREM ColoursOfBytes ==
  ASSUME NEW y \in 0 .. 255, NEW u \in 0 .. 255, NEW v \in 0 .. 255
  PROVE  IsStandard(y, u, v)
<1>1. Distance(Clamp(y + ((v - 128) * 359) \div 256), Clamp((1000 * y + 1402 * (v - 128)) \div 1000)) <= 2
  <2>1. Distance(y + ((v - 128) * 359) \div 256, (1000 * y + 1402 * (v - 128)) \div 1000) <= 2
    BY DEF Distance
  <2> QED
    BY <2>1, ClampStaysNear
<1>2. Distance(Clamp(y - ((u - 128) * 88 + (v - 128) * 183) \div 256),
               Clamp((1000 * y - 344 * (u - 128) - 714 * (v - 128)) \div 1000)) <= 2
  <2>1. Distance(y - ((u - 128) * 88 + (v - 128) * 183) \div 256,
                 (1000 * y - 344 * (u - 128) - 714 * (v - 128)) \div 1000) <= 2
    BY DEF Distance
  <2> QED
    BY <2>1, ClampStaysNear
<1>3. Distance(Clamp(y + ((u - 128) * 454) \div 256), Clamp((1000 * y + 1772 * (u - 128)) \div 1000)) <= 2
  <2>1. Distance(y + ((u - 128) * 454) \div 256, (1000 * y + 1772 * (u - 128)) \div 1000) <= 2
    BY DEF Distance
  <2> QED
    BY <2>1, ClampStaysNear
<1>4. u = 128 /\ v = 128 => Rgb(y, u, v) = <<y, y, y>>
  BY DEF Rgb, Clamp
<1> QED
  BY <1>1, <1>2, <1>3, <1>4 DEF IsStandard, Rgb

(* A pixel of a frame is in a row and a column of it.                      *)
LEMMA PixelIsInside ==
  ASSUME NEW w \in Nat \ {0}, NEW h \in Nat \ {0}, NEW p \in 0 .. w * h - 1
  PROVE  p \div w \in 0 .. h - 1 /\ p % w \in 0 .. w - 1 /\ p = (p \div w) * w + (p % w)
<1>1. p \in Nat /\ p < h * w
  OBVIOUS
<1> QED
  BY <1>1, Division, DivisionIsBounded

LEMMA IndexIsInside ==
  ASSUME NEW w \in Nat \ {0}, NEW h \in Nat \ {0}, NEW r \in 0 .. h - 1, NEW c \in 0 .. w - 1
  PROVE  r * w + c \in 0 .. w * h - 1 /\ (r * w + c) \div w = r /\ (r * w + c) % w = c
<1>1. r * w <= (h - 1) * w /\ (h - 1) * w = w * h - w /\ r * w \in Nat
  BY Products
<1>2. w * h \in Nat /\ r \in Nat /\ h \in Nat
  OBVIOUS
<1>3. r * w + c \in 0 .. w * h - 1
  BY <1>1, <1>2
<1> QED
  BY <1>3, <1>2, DivisionIsUnique

Halves(p, w) == <<(p \div w) \div 2, (p % w) \div 2>>

(* In a frame of even sides the u of a pixel, and the v after it, are      *)
(* behind the y and inside the frame; pixels share them by twos of rows    *)
(* and columns.                                                            *)
LEMMA ChromaIsInside ==
  ASSUME NEW a \in Nat \ {0}, NEW b \in Nat \ {0}, NEW p \in 0 .. (2 * a) * (2 * b) - 1
  PROVE  /\ ChromaOf(p, 2 * a, 2 * b) \in (2 * a) * (2 * b) .. ((2 * a) * (2 * b) * 3) \div 2 - 2
         /\ ChromaOf(p, 2 * a, 2 * b) % 2 = 0
<1> DEFINE w == 2 * a
           h == 2 * b
           k == (p \div w) \div 2
           m == (p % w) \div 2
<1>1. p \div w \in 0 .. h - 1 /\ p % w \in 0 .. w - 1
  <2>1. w \in Nat \ {0} /\ h \in Nat \ {0} /\ p \in 0 .. w * h - 1
    OBVIOUS
  <2> HIDE DEF w, h
  <2> QED
    BY <2>1, PixelIsInside
<1>2. k \in 0 .. b - 1 /\ m \in 0 .. a - 1
  BY <1>1
<1>3. ChromaOf(p, w, h) = w * h + k * w + m * 2
  BY DEF ChromaOf
<1> HIDE DEF k, m
<1>4. w * h = 4 * (a * b) /\ k * w = 2 * (k * a) /\ a * b \in Nat /\ k * a \in Nat
  BY <1>2
<1>5. k * a <= (b - 1) * a /\ (b - 1) * a = a * b - a
  BY <1>2, Products
<1>6. k \in Nat /\ m \in Nat /\ m <= a - 1
  BY <1>2
<1>7. (w * h * 3) \div 2 = 6 * (a * b)
  <2>1. w * h * 3 = 12 * (a * b)
    BY <1>4
  <2> QED
    BY <1>4, <2>1
<1> DEFINE A == a * b
           B == k * a
<1>8. ChromaOf(p, w, h) = 4 * A + 2 * B + 2 * m /\ A \in Nat /\ B \in Nat /\ B <= A - a
      /\ w * h = 4 * A /\ (w * h * 3) \div 2 = 6 * A
  <2>1. A \in Nat /\ B \in Nat /\ B <= A - a
    BY <1>4, <1>5
  <2>2. w * h = 4 * A /\ k * w = 2 * B /\ m * 2 = 2 * m
    BY <1>4, <1>6
  <2>3. (w * h * 3) \div 2 = 6 * A
    BY <1>7
  <2> HIDE DEF w, h, A, B
  <2> QED
    BY <1>3, <1>6, <2>1, <2>2, <2>3
<1> HIDE DEF A, B, w, h
<1>9. ChromaOf(p, w, h) \in w * h .. (w * h * 3) \div 2 - 2 /\ ChromaOf(p, w, h) % 2 = 0
  BY <1>6, <1>8
<1> QED
  BY <1>9 DEF w, h

LEMMA ChromaIsShared ==
  ASSUME NEW a \in Nat \ {0}, NEW b \in Nat \ {0},
         NEW p \in 0 .. (2 * a) * (2 * b) - 1, NEW q \in 0 .. (2 * a) * (2 * b) - 1
  PROVE  ChromaOf(q, 2 * a, 2 * b) = ChromaOf(p, 2 * a, 2 * b)
         <=> Halves(q, 2 * a) = Halves(p, 2 * a)
<1> DEFINE w == 2 * a
           h == 2 * b
           K(x) == (x \div w) \div 2
           M(x) == (x % w) \div 2
<1>1. \A x \in {p, q} : K(x) \in Nat /\ M(x) \in Nat /\ M(x) * 2 \in 0 .. w - 1
  <2> TAKE x \in {p, q}
  <2>1. x \div w \in 0 .. h - 1 /\ x % w \in 0 .. w - 1
    <3>1. w \in Nat \ {0} /\ h \in Nat \ {0} /\ x \in 0 .. w * h - 1
      OBVIOUS
    <3> HIDE DEF w, h
    <3> QED
      BY <3>1, PixelIsInside
  <2> QED
    BY <2>1
<1>2. \A x \in {p, q} : ChromaOf(x, w, h) = w * h + K(x) * w + M(x) * 2
  BY DEF ChromaOf
<1>3. \A x \in {p, q} : (K(x) * w + M(x) * 2) \div w = K(x) /\ (K(x) * w + M(x) * 2) % w = M(x) * 2
  <2> TAKE x \in {p, q}
  <2>1. w \in Nat \ {0} /\ K(x) \in Nat /\ M(x) * 2 \in 0 .. w - 1
    BY <1>1
  <2> HIDE DEF w, K, M
  <2> QED
    BY <2>1, DivisionIsUnique
<1>4. Halves(q, w) = Halves(p, w) <=> K(q) = K(p) /\ M(q) = M(p)
  BY DEF Halves
<1> HIDE DEF K, M
<1>5. ASSUME ChromaOf(q, w, h) = ChromaOf(p, w, h) PROVE K(q) = K(p) /\ M(q) = M(p)
  <2>1. w * h \in Int /\ K(p) * w + M(p) * 2 \in Int /\ K(q) * w + M(q) * 2 \in Int
    BY <1>1
  <2>2. w * h + (K(q) * w + M(q) * 2) = w * h + (K(p) * w + M(p) * 2)
    BY <1>1, <1>2, <1>5, <2>1
  <2>3. K(q) * w + M(q) * 2 = K(p) * w + M(p) * 2
    BY <2>1, <2>2
  <2>4. K(q) = K(p) /\ M(q) * 2 = M(p) * 2
    BY <1>3, <2>3
  <2> QED
    BY <1>1, <2>4
<1> QED
  BY <1>2, <1>4, <1>5

(* In a frame of any even size each pixel shares its chroma, read at       *)
(* ChromaOf, with three others: no two blocks of 2 x 2 read the same bytes. *)
THEOREM FourPixels ==
  ASSUME NEW a \in Nat \ {0}, NEW b \in Nat \ {0}, NEW p \in 0 .. (2 * a) * (2 * b) - 1
  PROVE  Cardinality({q \in 0 .. (2 * a) * (2 * b) - 1 :
                         ChromaOf(q, 2 * a, 2 * b) = ChromaOf(p, 2 * a, 2 * b)}) = 4
<1> DEFINE w == 2 * a
           h == 2 * b
           Pixel == 0 .. w * h - 1
           k == (p \div w) \div 2
           m == (p % w) \div 2
           Spot(r, c) == r * w + c
           S == {q \in Pixel : ChromaOf(q, w, h) = ChromaOf(p, w, h)}
<1>0. w \in Nat \ {0} /\ h \in Nat \ {0} /\ p \in Pixel
  OBVIOUS
<1>1. k \in 0 .. b - 1 /\ m \in 0 .. a - 1
  <2>1. p \div w \in 0 .. h - 1 /\ p % w \in 0 .. w - 1
    <3> HIDE DEF w, h
    <3> QED
      BY <1>0, PixelIsInside
  <2> QED
    BY <2>1
<1>2. \A r \in {2 * k, 2 * k + 1}, c \in {2 * m, 2 * m + 1} :
        Spot(r, c) \in Pixel /\ Spot(r, c) \div w = r /\ Spot(r, c) % w = c
  <2> TAKE r \in {2 * k, 2 * k + 1}, c \in {2 * m, 2 * m + 1}
  <2>1. r \in 0 .. h - 1 /\ c \in 0 .. w - 1
    BY <1>1
  <2> HIDE DEF w, h, k, m
  <2> QED
    BY <1>0, <2>1, IndexIsInside
<1>3. S = {q \in Pixel : (q \div w) \div 2 = k /\ (q % w) \div 2 = m}
  BY ChromaIsShared DEF Halves
<1>4. \A q \in Pixel : q \div w \in Nat /\ q % w \in Nat /\ q = Spot(q \div w, q % w)
  <2> HIDE DEF w, h
  <2> QED
    BY <1>0, PixelIsInside
<1> DEFINE F == {Spot(2 * k, 2 * m), Spot(2 * k, 2 * m + 1), Spot(2 * k + 1, 2 * m), Spot(2 * k + 1, 2 * m + 1)}
<1> HIDE DEF w, h, k, m, Pixel, S, Spot
<1>5. S \subseteq F
  <2> SUFFICES ASSUME NEW q \in S PROVE q \in F
    OBVIOUS
  <2>1. q \in Pixel /\ (q \div w) \div 2 = k /\ (q % w) \div 2 = m
    BY <1>3
  <2>2. q \div w \in Nat /\ q % w \in Nat /\ q = Spot(q \div w, q % w)
    BY <1>4, <2>1
  <2>3. \A x \in Nat : x = 2 * (x \div 2) \/ x = 2 * (x \div 2) + 1
    OBVIOUS
  <2>4. (q \div w = 2 * k \/ q \div w = 2 * k + 1) /\ (q % w = 2 * m \/ q % w = 2 * m + 1)
    BY <2>1, <2>2, <2>3
  <2> QED
    BY <2>2, <2>4
<1>6. F \subseteq S
  <2>1. \A r \in {2 * k, 2 * k + 1}, c \in {2 * m, 2 * m + 1} : r \div 2 = k /\ c \div 2 = m
    BY <1>1
  <2>2. \A r \in {2 * k, 2 * k + 1}, c \in {2 * m, 2 * m + 1} : Spot(r, c) \in S
    BY <1>2, <1>3, <2>1
  <2> QED
    BY <2>2
<1>7. /\ Spot(2 * k, 2 * m) # Spot(2 * k, 2 * m + 1)
      /\ Spot(2 * k + 1, 2 * m) \notin {Spot(2 * k, 2 * m), Spot(2 * k, 2 * m + 1)}
      /\ Spot(2 * k + 1, 2 * m + 1) \notin {Spot(2 * k, 2 * m), Spot(2 * k, 2 * m + 1), Spot(2 * k + 1, 2 * m)}
  <2>1. k \in Nat /\ m \in Nat /\ 2 * k # 2 * k + 1 /\ 2 * m # 2 * m + 1
    BY <1>1
  <2> QED
    BY <1>2, <2>1
<1>8. Cardinality(F) = 4
  <2> DEFINE e1 == Spot(2 * k, 2 * m)
             e2 == Spot(2 * k, 2 * m + 1)
             e3 == Spot(2 * k + 1, 2 * m)
             e4 == Spot(2 * k + 1, 2 * m + 1)
  <2>1. IsFiniteSet({}) /\ Cardinality({}) = 0
    BY FS_EmptySet
  <2>2. IsFiniteSet({e1}) /\ Cardinality({e1}) = 1
    BY FS_Singleton
  <2>3. IsFiniteSet({e1, e2}) /\ Cardinality({e1, e2}) = 2
    <3>1. {e1, e2} = {e1} \cup {e2}
      OBVIOUS
    <3> QED
      BY <1>7, <2>2, <3>1, FS_AddElement
  <2>4. IsFiniteSet({e1, e2, e3}) /\ Cardinality({e1, e2, e3}) = 3
    <3>1. {e1, e2, e3} = {e1, e2} \cup {e3}
      OBVIOUS
    <3> QED
      BY <1>7, <2>3, <3>1, FS_AddElement
  <2>5. {e1, e2, e3, e4} = {e1, e2, e3} \cup {e4}
    OBVIOUS
  <2> QED
    BY <1>7, <2>4, <2>5, FS_AddElement
<1>9. S = F
  BY <1>5, <1>6
<1> QED
  BY <1>8, <1>9 DEF S, Pixel, w, h

-----------------------------------------------------------------------------
(* Resizing, of pictures of every size.                                    *)

(* A weighted mean is between what it is made of.                          *)
LEMMA MeanIsBetween ==
  ASSUME NEW lo \in Int, NEW hi \in Int, NEW a \in lo .. hi, NEW b \in lo .. hi,
         NEW n \in Nat, NEW k \in 0 .. n
  PROVE  a * (n - k) + b * k \in lo * n .. hi * n
<1>1. lo * (n - k) <= a * (n - k) /\ a * (n - k) <= hi * (n - k) /\ a * (n - k) \in Int
  <2>1. n - k \in Nat
    OBVIOUS
  <2> QED
    BY <2>1, Products
<1>2. lo * k <= b * k /\ b * k <= hi * k /\ b * k \in Int
  BY Products
<1>3. lo * (n - k) + lo * k = lo * n /\ hi * (n - k) + hi * k = hi * n
  OBVIOUS
<1>4. lo * (n - k) \in Int /\ lo * k \in Int /\ hi * (n - k) \in Int /\ hi * k \in Int
  OBVIOUS
<1> QED
  BY <1>1, <1>2, <1>3, <1>4

(* A quotient rounded to the nearest number.                               *)
LEMMA RoundedIsBetween ==
  ASSUME NEW lo \in Int, NEW hi \in Int, NEW n \in Nat \ {0}, NEW sum \in lo * n .. hi * n
  PROVE  (2 * sum + n) \div (2 * n) \in lo .. hi
<1> DEFINE m == 2 * n
           q == (2 * sum + n) \div m
<1>1. q \in Int /\ m \in Nat \ {0} /\ q * m <= 2 * sum + n /\ 2 * sum + n < q * m + m
  <2>1. m \in Nat \ {0} /\ 2 * sum + n \in Int
    OBVIOUS
  <2> HIDE DEF m
  <2> QED
    BY <2>1, IntegerDivision
<1>2. 2 * sum <= (hi * n) * 2 /\ (lo * n) * 2 <= 2 * sum /\ lo * n \in Int /\ hi * n \in Int /\ sum \in Int
  OBVIOUS
<1>3. (hi * n) * 2 = hi * m /\ (lo * n) * 2 = lo * m /\ hi * m \in Int /\ lo * m \in Int
  OBVIOUS
<1>4. n < m
  OBVIOUS
<1> HIDE DEF q, m
<1>5. ASSUME q > hi PROVE FALSE
  <2>1. (hi + 1) * m <= q * m
    <3>1. hi + 1 <= q /\ hi + 1 \in Int /\ m \in Nat
      BY <1>1, <1>5
    <3> QED
      BY <1>1, <3>1, Products
  <2>2. (hi + 1) * m = hi * m + m
    BY <1>1
  <2>3. q * m \in Int
    BY <1>1
  <2> QED
    BY <1>1, <1>2, <1>3, <1>4, <2>1, <2>2, <2>3
<1>6. ASSUME q < lo PROVE FALSE
  <2>1. (q + 1) * m <= lo * m
    <3>1. q + 1 <= lo /\ q + 1 \in Int /\ m \in Nat
      BY <1>1, <1>6
    <3> QED
      BY <1>1, <3>1, Products
  <2>2. (q + 1) * m = q * m + m
    BY <1>1
  <2>3. q * m \in Int
    BY <1>1
  <2> QED
    BY <1>1, <1>2, <1>3, <2>1, <2>2, <2>3
<1>7. q \in lo .. hi
  BY <1>1, <1>5, <1>6
<1> QED
  BY <1>7 DEF q, m

(* Both neighbours of a pixel are inside.                                  *)
LEMMA NeighboursAreInside ==
  ASSUME NEW from \in Nat \ {0}, NEW to \in Nat \ {0}, NEW i \in 0 .. to - 1
  PROVE  LET x == Between(i, from, to)
         IN  x.lo \in 0 .. from - 1 /\ x.hi \in 0 .. from - 1 /\ x.part \in 0 .. to - 1
<1>1. i * from \in Nat /\ i * from <= (to - 1) * from
  BY Products
<1>2. (to - 1) * from = from * to - from /\ from * to \in Nat
  OBVIOUS
<1>3. i * from < from * to
  BY <1>1, <1>2
<1>4. (i * from) \div to \in 0 .. from - 1 /\ (i * from) % to \in 0 .. to - 1
  BY <1>1, <1>3, Division, DivisionIsBounded
<1> HIDE <1>1, <1>2, <1>3
<1> QED
  BY <1>4 DEF Between

(* A blend reads inside the picture, and is between the least and the      *)
(* greatest of what it reads.                                              *)
LEMMA BlendIsBetween ==
  ASSUME NEW w \in Nat \ {0}, NEW h \in Nat \ {0}, NEW dw \in Nat \ {0}, NEW dh \in Nat \ {0},
         NEW src, NEW x, NEW y, NEW lo \in Int, NEW hi \in Int,
         x.lo \in 0 .. w - 1, x.hi \in 0 .. w - 1, x.part \in 0 .. dw - 1,
         y.lo \in 0 .. h - 1, y.hi \in 0 .. h - 1, y.part \in 0 .. dh - 1,
         Around(src, w, x, y) \subseteq lo .. hi
  PROVE  Blend(src, w, x, y, dw, dh) \in lo .. hi
<1> DEFINE row(r) == src[r * w + x.lo] * (dw - x.part) + src[r * w + x.hi] * x.part
           sum == row(y.lo) * (dh - y.part) + row(y.hi) * y.part
           n == dw * dh
<1>1. \A r \in {y.lo, y.hi} : src[r * w + x.lo] \in lo .. hi /\ src[r * w + x.hi] \in lo .. hi
  BY DEF Around
<1>2. \A r \in {y.lo, y.hi} : row(r) \in lo * dw .. hi * dw
  <2> TAKE r \in {y.lo, y.hi}
  <2> DEFINE a == src[r * w + x.lo]
             b == src[r * w + x.hi]
  <2>1. a \in lo .. hi /\ b \in lo .. hi /\ dw \in Nat /\ x.part \in 0 .. dw
    BY <1>1
  <2> HIDE DEF a, b
  <2>2. a * (dw - x.part) + b * x.part \in lo * dw .. hi * dw
    BY <2>1, MeanIsBetween
  <2> QED
    BY <2>2 DEF a, b
<1>3. lo * dw \in Int /\ hi * dw \in Int /\ n \in Nat \ {0}
  <2>1. n >= 1 * dh
    BY Products
  <2> QED
    BY <2>1
<1> HIDE DEF row
<1>4. sum \in (lo * dw) * dh .. (hi * dw) * dh
  <2>1. dh \in Nat /\ y.part \in 0 .. dh
    OBVIOUS
  <2> QED
    BY <1>2, <1>3, <2>1, MeanIsBetween
<1>5. (lo * dw) * dh = lo * n /\ (hi * dw) * dh = hi * n
  OBVIOUS
<1> HIDE DEF sum, n
<1>6. (2 * sum + n) \div (2 * n) \in lo .. hi
  BY <1>3, <1>4, <1>5, RoundedIsBetween
<1>7. 2 * dw * dh = 2 * n
  BY DEF n
<1> QED
  BY <1>6, <1>7 DEF Blend, row, sum, n

Pictures(w, h) == [0 .. w * h - 1 -> Int]

LEMMA AroundIsInside ==
  ASSUME NEW w \in Nat \ {0}, NEW h \in Nat \ {0}, NEW src \in Pictures(w, h), NEW x, NEW y,
         x.lo \in 0 .. w - 1, x.hi \in 0 .. w - 1, y.lo \in 0 .. h - 1, y.hi \in 0 .. h - 1
  PROVE  \E a, b, c, d \in Int : Around(src, w, x, y) = {a, b, c, d}
<1>1. \A r \in {y.lo, y.hi}, c \in {x.lo, x.hi} : src[r * w + c] \in Int
  BY IndexIsInside DEF Pictures
<1>2. Around(src, w, x, y) =
        {src[y.lo * w + x.lo], src[y.lo * w + x.hi], src[y.hi * w + x.lo], src[y.hi * w + x.hi]}
  BY DEF Around
<1> QED
  BY <1>1, <1>2

LEMMA FewHaveBounds ==
  ASSUME NEW a \in Int, NEW b \in Int, NEW c \in Int, NEW d \in Int
  PROVE  LET S == {a, b, c, d}
         IN  S \subseteq Min(S) .. Max(S) /\ Min(S) \in S /\ Max(S) \in S
<1> DEFINE S == {a, b, c, d}
<1>1. \E z \in S : \A y \in S : z <= y
  OBVIOUS
<1>2. \E z \in S : \A y \in S : z >= y
  OBVIOUS
<1>3. Min(S) \in S /\ \A y \in S : Min(S) <= y
  BY <1>1 DEF Min
<1>4. Max(S) \in S /\ \A y \in S : Max(S) >= y
  BY <1>2 DEF Max
<1> QED
  BY <1>3, <1>4

(* ResizingIsInside, of pictures of every size and content.                *)
LEMMA ResizedIsInside ==
  ASSUME NEW w \in Nat \ {0}, NEW h \in Nat \ {0}, NEW d \in Nat \ {0}, NEW src \in Pictures(w, h),
         NEW p \in 0 .. d * d - 1
  PROVE  IsBetween(resize_rgb(src, w, h, d, d), src, w, h, d, p)
<1> DEFINE x == Between(p % d, w, d)
           y == Between(p \div d, h, d)
           near == Around(src, w, x, y)
<1>1. p % d \in 0 .. d - 1 /\ p \div d \in 0 .. d - 1
  BY PixelIsInside
<1>2. x.lo \in 0 .. w - 1 /\ x.hi \in 0 .. w - 1 /\ x.part \in 0 .. d - 1
  BY <1>1, NeighboursAreInside
<1>3. y.lo \in 0 .. h - 1 /\ y.hi \in 0 .. h - 1 /\ y.part \in 0 .. d - 1
  BY <1>1, NeighboursAreInside
<1>4. resize_rgb(src, w, h, d, d)[p] = Blend(src, w, x, y, d, d)
  BY DEF resize_rgb
<1> HIDE DEF x, y
<1>5. PICK a, b, c, e \in Int : near = {a, b, c, e}
  <2>1. x.lo \in 0 .. w - 1 /\ x.hi \in 0 .. w - 1
    BY <1>2
  <2>2. y.lo \in 0 .. h - 1 /\ y.hi \in 0 .. h - 1
    BY <1>3
  <2>3. \E a, b, c, e \in Int : Around(src, w, x, y) = {a, b, c, e}
    BY <2>1, <2>2, AroundIsInside
  <2> QED
    BY <2>3, Zenon
<1>6. near \subseteq Min(near) .. Max(near) /\ Min(near) \in Int /\ Max(near) \in Int
  <2> HIDE DEF near
  <2>1. near \subseteq Min(near) .. Max(near) /\ Min(near) \in near /\ Max(near) \in near
    BY <1>5, FewHaveBounds
  <2>2. near \subseteq Int
    BY <1>5
  <2> QED
    BY <2>1, <2>2
<1>7. Blend(src, w, x, y, d, d) \in Min(near) .. Max(near)
  BY <1>2, <1>3, <1>6, BlendIsBetween
<1> QED
  BY <1>4, <1>7 DEF x, y, IsBetween

(* A picture of the right size stays as it is.                             *)
THEOREM ResizingKeepsSize ==
  ASSUME NEW d \in Nat \ {0}, NEW src \in Pictures(d, d)
  PROVE  resize_rgb(src, d, d, d, d) = src
<1> SUFFICES ASSUME NEW p \in 0 .. d * d - 1 PROVE resize_rgb(src, d, d, d, d)[p] = src[p]
  BY DEF resize_rgb, Pictures
<1> DEFINE c == p % d
           r == p \div d
           x == Between(c, d, d)
           y == Between(r, d, d)
<1>1. c \in 0 .. d - 1 /\ r \in 0 .. d - 1 /\ p = r * d + c
  BY PixelIsInside
<1>2. src[p] \in Int
  BY DEF Pictures
<1> HIDE DEF c, r
<1>3. \A i \in 0 .. d - 1 : (i * d) \div d = i /\ (i * d) % d = 0
  <2> TAKE i \in 0 .. d - 1
  <2>1. i \in Nat /\ 0 \in 0 .. d - 1 /\ i * d + 0 = i * d
    OBVIOUS
  <2> QED
    BY <2>1, DivisionIsUnique
<1>4. x.lo = c /\ x.part = 0 /\ x.hi \in 0 .. d - 1 /\ y.lo = r /\ y.part = 0 /\ y.hi \in 0 .. d - 1
  <2>1. x.hi \in 0 .. d - 1 /\ y.hi \in 0 .. d - 1
    BY <1>1, NeighboursAreInside
  <2> QED
    BY <1>1, <1>3, <2>1 DEF Between
<1>5. resize_rgb(src, d, d, d, d)[p] = Blend(src, d, x, y, d, d)
  BY DEF resize_rgb, c, r
<1> HIDE DEF x, y
<1> DEFINE row(i) == src[i * d + x.lo] * (d - x.part) + src[i * d + x.hi] * x.part
           sum == row(y.lo) * (d - y.part) + row(y.hi) * y.part
<1>6. \A i \in 0 .. d - 1 : src[i * d + x.hi] \in Int /\ src[i * d + x.lo] \in Int
  BY <1>1, <1>4, IndexIsInside DEF Pictures
<1>7. row(y.lo) = src[p] * d /\ row(y.hi) \in Int
  <2>1. \A i \in 0 .. d - 1 : row(i) = src[i * d + x.lo] * d /\ row(i) \in Int
    BY <1>4, <1>6
  <2> HIDE DEF row
  <2> QED
    BY <1>1, <1>4, <2>1
<1> HIDE DEF row
<1>8. sum = (src[p] * d) * d
  BY <1>2, <1>4, <1>7
<1>9. (src[p] * d) * d = src[p] * (d * d) /\ d * d \in Nat \ {0} /\ src[p] * (d * d) \in Int
  <2>1. d * d >= 1 * d
    BY Products
  <2> QED
    BY <1>2, <2>1
<1> HIDE DEF sum
<1>10. (2 * sum + d * d) \div (2 * (d * d)) \in src[p] .. src[p]
  <2> DEFINE n == d * d
  <2>1. n \in Nat \ {0} /\ sum = src[p] * n /\ src[p] * n \in Int
    BY <1>8, <1>9
  <2> HIDE DEF n
  <2>2. (2 * sum + n) \div (2 * n) \in src[p] .. src[p]
    BY <1>2, <2>1, RoundedIsBetween
  <2> QED
    BY <2>2 DEF n
<1>11. 2 * d * d = 2 * (d * d)
  OBVIOUS
<1> QED
  BY <1>2, <1>5, <1>10, <1>11 DEF Blend, row, sum

(* What the network gets of one colour, resized or as it is, lies between  *)
(* the pixels around the place it is scaled from, for pictures of any size. *)
THEOREM InputIsBetween ==
  ASSUME NEW w \in Nat \ {0}, NEW h \in Nat \ {0}, NEW d \in Nat \ {0}, NEW src \in Pictures(w, h),
         NEW p \in 0 .. d * d - 1
  PROVE  IsBetween(NpuInput(src, w, h, d), src, w, h, d, p)
<1>1. NpuInput(src, w, h, d) = resize_rgb(src, w, h, d, d)
  BY ResizingKeepsSize DEF NpuInput
<1> QED
  BY <1>1, ResizedIsInside

-----------------------------------------------------------------------------
(* Filters.                                                                *)

(* What f, the function that Filtered defines, is.                         *)
Keeps(f, seq, kept, n) ==
    f = [i \in 0 .. n |-> IF i = 0 THEN <<>>
                          ELSE IF i \in kept THEN Append(f[i - 1], seq[i]) ELSE f[i - 1]]

LEMMA FilteredIsChosen ==
  ASSUME NEW seq, NEW kept
  PROVE  Filtered(seq, kept) = (CHOOSE f : Keeps(f, seq, kept, Len(seq)))[Len(seq)]
BY DEF Filtered, Keeps

LEMMA KeepsExists == ASSUME NEW seq, NEW kept, NEW n \in Nat PROVE \E f : Keeps(f, seq, kept, n)
<1> DEFINE K == {k \in Nat : \E f : Keeps(f, seq, kept, k)}
           next(i, s) == IF i \in kept THEN Append(s, seq[i]) ELSE s
<1>0. ASSUME NEW k, NEW f PROVE Keeps(f, seq, kept, k) <=>
        f = [i \in 0 .. k |-> IF i = 0 THEN <<>> ELSE next(i, f[i - 1])]
  BY DEF Keeps
<1> HIDE DEF next
<1>1. 0 \in K
  <2> DEFINE f == [i \in 0 .. 0 |-> <<>>]
  <2>1. \A i \in 0 .. 0 : i = 0
    OBVIOUS
  <2>2. f = [i \in 0 .. 0 |-> IF i = 0 THEN <<>> ELSE next(i, f[i - 1])]
    BY <2>1
  <2> HIDE DEF f
  <2> QED
    BY <1>0, <2>2
<1>2. ASSUME NEW k \in Nat, k \in K PROVE k + 1 \in K
  <2>1. PICK f : f = [i \in 0 .. k |-> IF i = 0 THEN <<>> ELSE next(i, f[i - 1])]
    BY <1>0, <1>2
  <2> DEFINE g == [i \in 0 .. k + 1 |-> IF i = 0 THEN <<>> ELSE next(i, f[i - 1])]
  <2>2. \A i \in 0 .. k : i \in 0 .. k + 1 /\ f[i] = IF i = 0 THEN <<>> ELSE next(i, f[i - 1])
    BY <2>1
  <2>3. \A i \in 0 .. k : g[i] = f[i]
    BY <2>2
  <2>4. g = [i \in 0 .. k + 1 |-> g[i]]
    OBVIOUS
  <2>5. \A i \in 0 .. k + 1 : g[i] = IF i = 0 THEN <<>> ELSE next(i, f[i - 1])
    OBVIOUS
  <2> HIDE DEF g
  <2>6. \A i \in 0 .. k + 1 : i # 0 => g[i - 1] = f[i - 1]
    BY <2>3
  <2>7. g = [i \in 0 .. k + 1 |-> IF i = 0 THEN <<>> ELSE next(i, g[i - 1])]
    BY <2>4, <2>5, <2>6
  <2>8. Keeps(g, seq, kept, k + 1)
    BY <1>0, <2>7
  <2>9. \E h : Keeps(h, seq, kept, k + 1)
    BY <2>8
  <2> QED
    BY <2>9
<1> HIDE DEF K
<1>3. Nat \subseteq K
  BY <1>1, <1>2, NatsByInduction
<1> QED
  BY <1>3 DEF K

(* Filtered keeps what it is to keep.                                      *)
LEMMA FilteredKeeps ==
  ASSUME NEW S, NEW seq \in Seq(S), NEW kept \in SUBSET DOMAIN seq
  PROVE  Filtered(seq, kept) \in Seq(S) /\ IsFiltered(Filtered(seq, kept), seq, kept)
<1> DEFINE n == Len(seq)
           f == CHOOSE g : Keeps(g, seq, kept, n)
           Right(k) == /\ f[k] \in Seq(S)
                       /\ IsFiltered(f[k], seq, kept \cap (1 .. k))
           K == {k \in Nat : k <= n => Right(k)}
<1>1. n \in Nat /\ DOMAIN seq = 1 .. n
  OBVIOUS
<1>2. Keeps(f, seq, kept, n)
  BY <1>1, KeepsExists
<1> HIDE DEF f
<1>3. \A i \in 0 .. n : f[i] = IF i = 0 THEN <<>>
                               ELSE IF i \in kept THEN Append(f[i - 1], seq[i]) ELSE f[i - 1]
  BY <1>2 DEF Keeps
<1>4. 0 \in K
  <2>1. f[0] = <<>> /\ kept \cap (1 .. 0) = {}
    BY <1>1, <1>3
  <2>2. IsFiltered(<<>>, seq, {})
    <3> DEFINE place == [i \in {} |-> 0]
    <3>1. place \in [DOMAIN <<>> -> {}]
      OBVIOUS
    <3> QED
      BY <3>1 DEF IsFiltered
  <2>3. <<>> \in Seq(S)
    OBVIOUS
  <2>4. Right(0)
    BY <2>1, <2>2, <2>3
  <2> HIDE DEF Right
  <2> QED
    BY <2>4
<1>5. ASSUME NEW k \in Nat, k \in K PROVE k + 1 \in K
  <2> SUFFICES ASSUME k + 1 <= n PROVE Right(k + 1)
    OBVIOUS
  <2>1. Right(k)
    BY <1>1, <1>5
  <2>2. f[k + 1] = IF k + 1 \in kept THEN Append(f[k], seq[k + 1]) ELSE f[k]
    <3>1. k + 1 \in 0 .. n /\ k + 1 # 0 /\ (k + 1) - 1 = k
      BY <1>1
    <3> QED
      BY <1>3, <3>1
  <2>3. CASE k + 1 \notin kept
    <3>1. kept \cap (1 .. k + 1) = kept \cap (1 .. k)
      BY <2>3
    <3> QED
      BY <2>1, <2>2, <2>3, <3>1
  <2>4. CASE k + 1 \in kept
    <3> DEFINE s == f[k]
               m == Len(s)
               old == kept \cap (1 .. k)
               new == kept \cap (1 .. k + 1)
    <3>1. s \in Seq(S) /\ m \in Nat /\ DOMAIN s = 1 .. m
      BY <2>1
    <3>2. PICK place \in [1 .. m -> old] :
            /\ {place[i] : i \in 1 .. m} = old
            /\ \A i, j \in 1 .. m : i < j => place[i] < place[j]
            /\ \A i \in 1 .. m : s[i] = seq[place[i]]
      BY <2>1, <3>1 DEF IsFiltered
    <3>3. f[k + 1] = Append(s, seq[k + 1]) /\ seq[k + 1] \in S
      BY <1>1, <2>2, <2>4
    <3> DEFINE to == [i \in 1 .. m + 1 |-> IF i = m + 1 THEN k + 1 ELSE place[i]]
    <3>4. new = old \cup {k + 1}
      BY <2>4
    <3> HIDE DEF s, m, old, new
    <3>5. /\ f[k + 1] \in Seq(S) /\ DOMAIN f[k + 1] = 1 .. m + 1
          /\ f[k + 1][m + 1] = seq[k + 1] /\ \A i \in 1 .. m : f[k + 1][i] = s[i]
      <4>1. m = Len(s)
        BY DEF m
      <4> QED
        BY <3>1, <3>3, <4>1, AppendProperties
    <3>6. to \in [1 .. m + 1 -> new]
      <4>1. \A i \in 1 .. m + 1 : i = m + 1 \/ i \in 1 .. m
        BY <3>1
      <4> QED
        BY <3>2, <3>4, <4>1
    <3>7. \A i \in 1 .. m : to[i] = place[i] /\ to[i] \in old
      BY <3>1, <3>2
    <3>8. to[m + 1] = k + 1
      BY <3>1
    <3>9. \A i \in 1 .. m + 1 : i = m + 1 \/ i \in 1 .. m
      BY <3>1
    <3> HIDE DEF to
    <3>10. {to[i] : i \in 1 .. m + 1} = new
      <4>1. ASSUME NEW x \in old PROVE \E i \in 1 .. m + 1 : to[i] = x
        <5>1. PICK i \in 1 .. m : place[i] = x
          BY <3>2
        <5>2. i \in 1 .. m + 1
          BY <3>1
        <5> QED
          BY <3>7, <5>1, <5>2
      <4>2. m + 1 \in 1 .. m + 1
        BY <3>1
      <4> QED
        BY <3>4, <3>6, <3>8, <4>1, <4>2
    <3>11. \A i, j \in 1 .. m + 1 : i < j => to[i] < to[j]
      <4> SUFFICES ASSUME NEW i \in 1 .. m + 1, NEW j \in 1 .. m + 1, i < j PROVE to[i] < to[j]
        OBVIOUS
      <4>1. i \in 1 .. m
        BY <3>1, <3>9
      <4>2. CASE j \in 1 .. m
        BY <3>2, <3>7, <4>1, <4>2
      <4>3. CASE j = m + 1
        <5>1. to[i] \in 1 .. k
          BY <3>7, <4>1 DEF old
        <5> QED
          BY <3>8, <4>3, <5>1
      <4> QED
        BY <3>9, <4>2, <4>3
    <3>12. \A i \in 1 .. m + 1 : f[k + 1][i] = seq[to[i]]
      BY <3>2, <3>5, <3>7, <3>8, <3>9
    <3>13. IsFiltered(f[k + 1], seq, new)
      BY <3>5, <3>6, <3>10, <3>11, <3>12 DEF IsFiltered
    <3> QED
      BY <3>5, <3>13 DEF new
  <2> QED
    BY <2>3, <2>4
<1>6. Right(n)
  <2> HIDE DEF K, Right
  <2>1. Nat \subseteq K
    BY <1>4, <1>5, NatsByInduction
  <2> QED
    BY <1>1, <2>1 DEF K
<1>7. kept \cap (1 .. n) = kept
  BY <1>1
<1> QED
  BY <1>6, <1>7, FilteredIsChosen DEF f

-----------------------------------------------------------------------------
(* Frames of one colour.                                                   *)

LEMMA PlainStaysPlain ==
  ASSUME NEW a \in Nat \ {0}, NEW b \in Nat \ {0}, NEW y, NEW u, NEW v,
         NEW p \in 0 .. (2 * a) * (2 * b) - 1
  PROVE  nv12_to_rgb(Plain(2 * a, 2 * b, y, u, v), 2 * a, 2 * b)[p] = Rgb(y, u, v)
<1> DEFINE w == 2 * a
           h == 2 * b
           n == w * h
           m == (w * h * 3) \div 2
           c == ChromaOf(p, w, h)
           f == Plain(w, h, y, u, v)
<1>1. c \in n .. m - 2 /\ c % 2 = 0
  BY ChromaIsInside
<1>2. n \in Nat /\ m \in Nat /\ n <= m
  <2>1. w * h = 4 * (a * b) /\ a * b \in Nat
    OBVIOUS
  <2>2. w * h * 3 = (w * h) * 3
    OBVIOUS
  <2> HIDE DEF w, h
  <2> QED
    BY <2>1, <2>2
<1>3. f = [i \in 0 .. m - 1 |-> IF i < n THEN y ELSE IF i % 2 = 0 THEN u ELSE v]
  BY DEF Plain
<1>4. nv12_to_rgb(f, w, h) = [q \in 0 .. n - 1 |->
         Rgb(f[q], f[ChromaOf(q, w, h)], f[ChromaOf(q, w, h) + 1])]
  BY DEF nv12_to_rgb
<1>5. p \in 0 .. n - 1
  OBVIOUS
<1> HIDE DEF n, m, c, f
<1>6. f[p] = y /\ f[c] = u /\ f[c + 1] = v
  <2>1. p \in 0 .. m - 1 /\ p < n
    BY <1>2, <1>5
  <2>2. c \in 0 .. m - 1 /\ c + 1 \in 0 .. m - 1 /\ ~(c < n) /\ ~(c + 1 < n) /\ (c + 1) % 2 # 0
    BY <1>1, <1>2
  <2> QED
    BY <1>1, <1>3, <2>1, <2>2
<1> QED
  BY <1>4, <1>5, <1>6 DEF c, f

LEMMA RgbIsNumbers ==
  ASSUME NEW y \in Int, NEW u \in Int, NEW v \in Int, NEW colour \in 1 .. 3
  PROVE  Rgb(y, u, v)[colour] \in Int
<1>1. \A x \in Int : Clamp(x) \in Int
  BY DEF Clamp
<1>2. /\ y + ((v - 128) * 359) \div 256 \in Int
      /\ y - ((u - 128) * 88 + (v - 128) * 183) \div 256 \in Int
      /\ y + ((u - 128) * 454) \div 256 \in Int
  OBVIOUS
<1> HIDE DEF Clamp
<1> QED
  BY <1>1, <1>2 DEF Rgb

(* A picture of one colour is resized to that colour.                      *)
LEMMA ResizedPlain ==
  ASSUME NEW w \in Nat \ {0}, NEW h \in Nat \ {0}, NEW d \in Nat \ {0}, NEW c \in Int,
         NEW src, src = [q \in 0 .. w * h - 1 |-> c], NEW p \in 0 .. d * d - 1
  PROVE  NpuInput(src, w, h, d)[p] = c
<1>1. src \in Pictures(w, h)
  BY DEF Pictures
<1>2. CASE w = d /\ h = d
  BY <1>2 DEF NpuInput
<1>3. CASE ~(w = d /\ h = d)
  <2> DEFINE x == Between(p % d, w, d)
             y == Between(p \div d, h, d)
             near == Around(src, w, x, y)
  <2>1. resize_rgb(src, w, h, d, d)[p] \in Min(near) .. Max(near)
    BY <1>1, ResizedIsInside DEF IsBetween
  <2>2. p % d \in 0 .. d - 1 /\ p \div d \in 0 .. d - 1
    BY PixelIsInside
  <2>3. x.lo \in 0 .. w - 1 /\ x.hi \in 0 .. w - 1 /\ y.lo \in 0 .. h - 1 /\ y.hi \in 0 .. h - 1
    BY <2>2, NeighboursAreInside
  <2> HIDE DEF x, y
  <2>4. \A r \in {y.lo, y.hi}, i \in {x.lo, x.hi} : src[r * w + i] = c
    BY <2>3, IndexIsInside
  <2>5. near = {c}
    BY <2>4 DEF Around
  <2>6. Min({c}) = c /\ Max({c}) = c
    BY DEF Min, Max
  <2> HIDE DEF near
  <2>7. resize_rgb(src, w, h, d, d)[p] = c
    BY <2>1, <2>5, <2>6
  <2> QED
    BY <1>3, <2>7 DEF NpuInput
<1> QED
  BY <1>2, <1>3

(* A frame of one colour, of any even size, is to the network that colour  *)
(* at every pixel of its input: no byte outside the frame is read.         *)
THEOREM InputIsPlain ==
  ASSUME NEW a \in Nat \ {0}, NEW b \in Nat \ {0}, NEW y \in Int, NEW u \in Int, NEW v \in Int,
         NEW side \in Nat \ {0}, NEW colour \in 1 .. 3, NEW i \in 0 .. side * side - 1
  PROVE  npu_inference_nv12(Plain(2 * a, 2 * b, y, u, v), 2 * a, 2 * b, side)[colour][i]
         = Rgb(y, u, v)[colour]
<1> DEFINE w == 2 * a
           h == 2 * b
           f == Plain(w, h, y, u, v)
           c == Rgb(y, u, v)[colour]
           src == [p \in 0 .. w * h - 1 |-> nv12_to_rgb(f, w, h)[p][colour]]
<1>1. npu_inference_nv12(f, w, h, side)[colour] = NpuInput(src, w, h, side)
  BY DEF npu_inference_nv12
<1>2. src = [p \in 0 .. w * h - 1 |-> c]
  BY PlainStaysPlain
<1>3. c \in Int
  BY RgbIsNumbers
<1>4. w \in Nat \ {0} /\ h \in Nat \ {0}
  OBVIOUS
<1> HIDE DEF src, w, h, f, c
<1>5. NpuInput(src, w, h, side)[i] = c
  BY <1>2, <1>3, <1>4, ResizedPlain
<1> QED
  BY <1>1, <1>5 DEF w, h, f, c

-----------------------------------------------------------------------------
(* Detections.                                                             *)

LEMMA ClassNames == Len(COCO_CLASSES) = 17 /\ \A i \in 1 .. 17 : COCO_CLASSES[i] # "unknown"
<1>1. Len(COCO_CLASSES) = 17
  BY DEF COCO_CLASSES
<1>2. /\ \A i \in {1, 2, 3, 4, 5, 6, 7, 8} : COCO_CLASSES[i] # "unknown"
      /\ \A i \in {9, 10, 11, 12, 13, 14, 15, 16, 17} : COCO_CLASSES[i] # "unknown"
  BY DEF COCO_CLASSES
<1>3. 1 .. 17 = {1, 2, 3, 4, 5, 6, 7, 8} \cup {9, 10, 11, 12, 13, 14, 15, 16, 17}
  OBVIOUS
<1> QED
  BY <1>1, <1>2, <1>3

LEMMA ClassesHaveNames == ASSUME NEW id \in 0 .. 79 PROVE npu_get_class_name(id) # "unknown"
<1>1. CASE id \in 0 .. 16
  <2>1. npu_get_class_name(id) = COCO_CLASSES[id + 1]
    BY <1>1, ClassNames DEF npu_get_class_name
  <2> QED
    BY <1>1, <2>1, ClassNames
<1>2. CASE id \in 17 .. 79
  <2>1. npu_get_class_name(id) = "another"
    BY <1>2, ClassNames DEF npu_get_class_name
  <2> QED
    BY <2>1
<1> QED
  BY <1>1, <1>2

(* Go has the names that C has, or none.                                   *)
THEOREM NamesAlwaysAgree == ASSUME NEW id \in Int PROVE GetClassName(id) \in {npu_get_class_name(id), "unknown"}
<1> SUFFICES ASSUME id \in 0 .. 8 \cup {15, 16} PROVE COCOClassNames[id] = npu_get_class_name(id)
  BY DEF GetClassName, COCOClassNames
<1>1. npu_get_class_name(id) = COCO_CLASSES[id + 1]
  BY ClassNames DEF npu_get_class_name
<1>2. COCO_CLASSES[1] = "person" /\ COCO_CLASSES[2] = "bicycle" /\ COCO_CLASSES[3] = "car"
      /\ COCO_CLASSES[4] = "motorcycle" /\ COCO_CLASSES[5] = "airplane" /\ COCO_CLASSES[6] = "bus"
      /\ COCO_CLASSES[7] = "train" /\ COCO_CLASSES[8] = "truck" /\ COCO_CLASSES[9] = "boat"
      /\ COCO_CLASSES[16] = "cat" /\ COCO_CLASSES[17] = "dog"
  BY DEF COCO_CLASSES
<1>3. id \in {0, 1, 2, 3, 4, 5, 6, 7, 8, 15, 16}
  OBVIOUS
<1> QED
  BY <1>1, <1>2, <1>3 DEF COCOClassNames

(* What is reported is as sure as the threshold that was last accepted.    *)
THEOREM ReportedIsSure ==
  ASSUME NEW threshold \in Int, NEW max
  PROVE  \A i \in DOMAIN yolo_postprocess(max, threshold) :
            yolo_postprocess(max, threshold)[i].confidence >= threshold
BY DEF yolo_postprocess

Detections == [class : 0 .. 79, confidence : 0 .. 100, x : 0 .. 1000, y : 0 .. 1000]

LEMMA PlacedOnItsSide ==
  ASSUME NEW d \in Detections, NEW fov \in [horizontal : Nat \ {0}, vertical : Nat \ {0}]
  PROVE  OnItsSide(Placed(d, fov), fov) /\ Box(Placed(d, fov)) = d
<1> DEFINE fh == fov.horizontal
           fv == fov.vertical
           X == d.x - 500
           Y == 500 - d.y
<1>1. fh \in Nat \ {0} /\ fv \in Nat \ {0} /\ X \in -500 .. 500 /\ Y \in -500 .. 500
  BY DEF Detections
<1>2. Placed(d, fov).azimuth = X * fh /\ Placed(d, fov).elevation = Y * fv
  BY DEF Placed, isp_calculate_azimuth, isp_calculate_elevation
<1>3. Box(Placed(d, fov)) = d
  BY DEF Box, Placed, Detections
<1>4. X < 0 <=> d.x < 500
  BY DEF Detections
<1>5. Y > 0 <=> d.y < 500
  BY DEF Detections
<1> HIDE DEF fh, fv, X, Y
<1>6. ASSUME NEW z \in -500 .. 500, NEW f \in Nat \ {0}
      PROVE  z * f \in -500 * f .. 500 * f /\ (z * f < 0 <=> z < 0) /\ (z * f > 0 <=> z > 0)
  <2>1. -500 * f <= z * f /\ z * f <= 500 * f /\ z * f \in Int
    BY Products
  <2>2. z > 0 => 1 * f <= z * f
    BY Products
  <2>3. z < 0 => z * f <= (-1) * f
    BY Products
  <2>4. z = 0 => z * f = 0
    OBVIOUS
  <2> QED
    BY <2>1, <2>2, <2>3, <2>4
<1>7. X * fh \in -500 * fh .. 500 * fh /\ (X * fh < 0 <=> X < 0)
  BY <1>1, <1>6
<1>8. Y * fv \in -500 * fv .. 500 * fv /\ (Y * fv > 0 <=> Y > 0)
  BY <1>1, <1>6
<1>9. Placed(d, fov).x = d.x /\ Placed(d, fov).y = d.y
  BY DEF Placed
<1> DEFINE a == Placed(d, fov)
<1>10. /\ a.azimuth \in -500 * fov.horizontal .. 500 * fov.horizontal
       /\ a.elevation \in -500 * fov.vertical .. 500 * fov.vertical
       /\ (a.azimuth < 0) = (a.x < 500)
       /\ (a.elevation > 0) = (a.y < 500)
  BY <1>2, <1>4, <1>5, <1>7, <1>8, <1>9 DEF fh, fv
<1> QED
  BY <1>3, <1>10 DEF OnItsSide

(* Of any number of detections and for any field of view, those wanted are *)
(* reported in their order, each on its side of the optical axis.          *)
THEOREM ReportIsPlaced ==
  ASSUME NEW found \in Seq(Detections), NEW fov \in [horizontal : Nat \ {0}, vertical : Nat \ {0}],
         NEW personOnly \in BOOLEAN
  PROVE  IsPlaced(Report(found, fov, personOnly), found, fov, personOnly)
<1> DEFINE all == [i \in 1 .. Len(found) |-> Placed(found[i], fov)]
           P == {Placed(d, fov) : d \in Detections}
           kept == Wanted(found, personOnly)
           report == Filtered(all, kept)
<1>1. Len(found) \in Nat /\ DOMAIN found = 1 .. Len(found) /\ \A i \in DOMAIN found : found[i] \in Detections
  OBVIOUS
<1>2. all \in Seq(P) /\ DOMAIN all = DOMAIN found
  <2>1. all \in [1 .. Len(found) -> P]
    BY <1>1
  <2> QED
    BY <1>1, <2>1
<1>3. kept \in SUBSET DOMAIN all
  BY <1>2 DEF Wanted
<1>4. \A i \in DOMAIN found : Box(all[i]) = found[i]
  BY <1>1, PlacedOnItsSide
<1> HIDE DEF all, P, kept
<1>5. report \in Seq(P) /\ IsFiltered(report, all, kept)
  BY <1>2, <1>3, FilteredKeeps
<1> HIDE DEF report
<1>6. IsFiltered([i \in DOMAIN report |-> Box(report[i])], found, kept)
  <2>1. PICK place \in [DOMAIN report -> kept] :
          /\ {place[i] : i \in DOMAIN report} = kept
          /\ \A i, j \in DOMAIN report : i < j => place[i] < place[j]
          /\ \A i \in DOMAIN report : report[i] = all[place[i]]
    BY <1>5 DEF IsFiltered
  <2>2. \A i \in DOMAIN report : Box(report[i]) = found[place[i]]
    BY <1>2, <1>3, <1>4, <2>1
  <2> DEFINE boxes == [i \in DOMAIN report |-> Box(report[i])]
  <2>3. DOMAIN boxes = DOMAIN report /\ \A i \in DOMAIN report : boxes[i] = found[place[i]]
    BY <2>2
  <2> HIDE DEF boxes
  <2>4. IsFiltered(boxes, found, kept)
    BY <2>1, <2>3 DEF IsFiltered
  <2> QED
    BY <2>4 DEF boxes
<1>7. ASSUME NEW i \in DOMAIN report
      PROVE  OnItsSide(report[i], fov) /\ npu_get_class_name(report[i].class) # "unknown"
  <2>1. report[i] \in P
    BY <1>5
  <2>2. PICK d \in Detections : report[i] = Placed(d, fov)
    BY <2>1 DEF P
  <2>3. report[i].class = d.class /\ d.class \in 0 .. 79
    BY <2>2 DEF Placed, Detections
  <2> QED
    BY <2>2, <2>3, PlacedOnItsSide, ClassesHaveNames
<1>8. Report(found, fov, personOnly) = report
  BY DEF Report, report, all, kept
<1>9. IsPlaced(report, found, fov, personOnly)
  BY <1>6, <1>7 DEF IsPlaced, kept
<1> QED
  BY <1>8, <1>9

-----------------------------------------------------------------------------
(* The sensor's controls.                                                  *)

(* Whichever of a knob's ioctls the driver refuses, a call that returns 0  *)
(* has set what was asked for, and one that fails no value.                *)
THEOREM KnobTells ==
  ASSUME NEW V, NEW knob \in [auto : BOOLEAN, value : V], NEW auto \in BOOLEAN, NEW value \in V,
         NEW accepted \in SUBSET {"mode", "value"}
  PROVE  TellsOf(SetKnob(knob, auto, value, accepted), knob, auto, value)
<1>1. CASE "mode" \notin accepted
  <2>1. SetKnob(knob, auto, value, accepted) = Refused(knob)
    BY <1>1 DEF SetKnob
  <2> QED
    BY <2>1 DEF Refused, TellsOf
<1>2. CASE "mode" \in accepted /\ auto = TRUE
  <2>1. SetKnob(knob, auto, value, accepted) = Done([knob EXCEPT !.auto = TRUE])
    BY <1>2 DEF SetKnob
  <2>2. [knob EXCEPT !.auto = TRUE] = [auto |-> TRUE, value |-> knob.value]
    <3> DEFINE r == [knob EXCEPT !.auto = TRUE]
               s == [auto |-> TRUE, value |-> knob.value]
    <3>1. r \in [auto : BOOLEAN, value : V] /\ s \in [auto : BOOLEAN, value : V]
      OBVIOUS
    <3>2. r.auto = s.auto /\ r.value = s.value
      OBVIOUS
    <3> HIDE DEF r, s
    <3>3. r = s
      BY <3>1, <3>2
    <3> QED
      BY <3>3 DEF r, s
  <2> QED
    BY <1>2, <2>1, <2>2 DEF Done, TellsOf
<1>3. CASE accepted = {"mode"} /\ auto = FALSE
  <2>1. SetKnob(knob, auto, value, accepted) = Refused([knob EXCEPT !.auto = FALSE])
    BY <1>3 DEF SetKnob
  <2> QED
    BY <2>1 DEF Refused, TellsOf
<1>4. CASE "mode" \in accepted /\ auto = FALSE /\ accepted # {"mode"}
  <2>1. SetKnob(knob, auto, value, accepted) = Done([auto |-> FALSE, value |-> value])
    BY <1>4 DEF SetKnob
  <2>2. [auto |-> FALSE, value |-> value]
        = [auto |-> auto, value |-> IF auto THEN knob.value ELSE value]
    BY <1>4
  <2> QED
    BY <2>1, <2>2 DEF Done, TellsOf
<1>5. auto = TRUE \/ auto = FALSE
  OBVIOUS
<1> QED
  BY <1>1, <1>2, <1>3, <1>4, <1>5

\* Cameras with any values of their knobs.
Orientations == [{"mirror", "flip"} -> BOOLEAN]
Knobs(V) == [auto : BOOLEAN, value : V]
Cameras(V) == [open : BOOLEAN, exposure : Knobs(V), gain : Knobs(V),
               device : Orientations, config : Orientations]

(* After an orientation that returned 0 the device is as the configuration *)
(* says, whatever was refused before; the configuration says what was      *)
(* asked for even if it was refused.                                       *)
THEOREM OrientationTells ==
  ASSUME NEW V, NEW sensor \in Cameras(V), NEW asked \in Orientations,
         NEW accepted \in SUBSET {"mirror", "flip"}
  PROVE  LET set == camera_set_orientation(sensor, asked, accepted)
         IN  /\ set.ok => set.held.device = asked /\ set.held.config = asked
             /\ ~set.ok => set.held.config = (IF sensor.open THEN asked ELSE sensor.config)
             /\ set.held.exposure = sensor.exposure /\ set.held.gain = sensor.gain
<1>1. CASE ~sensor.open
  BY <1>1 DEF camera_set_orientation, Refused, Cameras, Knobs
<1>2. CASE sensor.open
  <2> DEFINE set == camera_set_orientation(sensor, asked, accepted)
             held == [sensor EXCEPT !.device = Turned(@, asked, accepted), !.config = asked]
  <2>1. set = [ok |-> {"mirror", "flip"} \subseteq accepted, held |-> held]
    BY <1>2 DEF camera_set_orientation
  <2>2. /\ held.device = Turned(sensor.device, asked, accepted)
        /\ held.config = asked /\ held.exposure = sensor.exposure /\ held.gain = sensor.gain
    BY DEF Cameras, Knobs
  <2>3. {"mirror", "flip"} \subseteq accepted => Turned(sensor.device, asked, accepted) = asked
    BY DEF Turned, Orientations
  <2> HIDE DEF set, held
  <2>4. set.ok = ({"mirror", "flip"} \subseteq accepted) /\ set.held = held
    BY <2>1
  <2>5. /\ set.ok => set.held.device = asked /\ set.held.config = asked
        /\ ~set.ok => set.held.config = (IF sensor.open THEN asked ELSE sensor.config)
        /\ set.held.exposure = sensor.exposure /\ set.held.gain = sensor.gain
    BY <1>2, <2>2, <2>3, <2>4
  <2> QED
    BY <2>5 DEF set
<1> QED
  BY <1>1, <1>2

(* A knob is turned alone, and a closed camera keeps everything.           *)
THEOREM KnobsAreTurnedAlone ==
  ASSUME NEW V, NEW sensor \in Cameras(V), NEW auto \in BOOLEAN, NEW value \in V,
         NEW accepted \in SUBSET {"mode", "value"}
  PROVE  /\ [camera_set_exposure(sensor, auto, value, accepted).held EXCEPT !.exposure = sensor.exposure]
            = sensor
         /\ [camera_set_gain(sensor, auto, value, accepted).held EXCEPT !.gain = sensor.gain] = sensor
<1>1. [camera_set_exposure(sensor, auto, value, accepted).held EXCEPT !.exposure = sensor.exposure] = sensor
  <2>1. \A x : [[sensor EXCEPT !.exposure = x] EXCEPT !.exposure = sensor.exposure] = sensor
    BY DEF Cameras, Knobs
  <2>2. [sensor EXCEPT !.exposure = sensor.exposure] = sensor
    BY DEF Cameras, Knobs
  <2>3. \/ camera_set_exposure(sensor, auto, value, accepted).held = sensor
        \/ \E x : camera_set_exposure(sensor, auto, value, accepted).held = [sensor EXCEPT !.exposure = x]
    BY DEF camera_set_exposure, Refused
  <2> QED
    BY <2>1, <2>2, <2>3
<1>2. [camera_set_gain(sensor, auto, value, accepted).held EXCEPT !.gain = sensor.gain] = sensor
  <2>1. \A x : [[sensor EXCEPT !.gain = x] EXCEPT !.gain = sensor.gain] = sensor
    BY DEF Cameras, Knobs
  <2>2. [sensor EXCEPT !.gain = sensor.gain] = sensor
    BY DEF Cameras, Knobs
  <2>3. \/ camera_set_gain(sensor, auto, value, accepted).held = sensor
        \/ \E x : camera_set_gain(sensor, auto, value, accepted).held = [sensor EXCEPT !.gain = x]
    BY DEF camera_set_gain, Refused
  <2> QED
    BY <2>1, <2>2, <2>3
<1> QED
  BY <1>1, <1>2

-----------------------------------------------------------------------------
(* The ISP's modes.                                                        *)

\* The modes with any meshes, and the ISP with those.
AllModes(Mesh) == [auto_exposure : BOOLEAN, auto_white_balance : BOOLEAN, ldch_mesh_path : Mesh]
Isps(Mesh) == [initialized : BOOLEAN, config : AllModes(Mesh)]
ModeNames == {"auto_exposure", "auto_white_balance", "ldch_mesh_path"}

\* The calls with any modes and any mesh.
AllCalls(Mesh) == [f : {"init"}, v : AllModes(Mesh)] \cup [f : {"shutdown"}, v : {0}]
            \cup [f : {"auto_exposure", "auto_white_balance"}, v : BOOLEAN]
            \cup [f : {"ldch_mesh_path"}, v : Mesh]

\* What a mode is when those calls decide it.
Given(steps, mode, deciding) ==
    LET last == CHOOSE k \in deciding : \A j \in deciding : j <= k
    IN  CASE deciding = {} -> IspOff.config[mode]
          [] deciding # {} /\ steps[last].f = "init" -> steps[last].v[mode]
          [] OTHER -> steps[last].v

(* What f, the function that IspAfter defines, is.                         *)
Applies(f, steps, n) ==
    f = [i \in 0 .. n |-> IF i = 0 THEN IspOff ELSE Apply(f[i - 1], steps[i])]

LEMMA IspAfterIsChosen ==
  ASSUME NEW steps
  PROVE  IspAfter(steps) = (CHOOSE f : Applies(f, steps, Len(steps)))[Len(steps)]
BY DEF IspAfter, Applies

LEMMA AppliesExists == ASSUME NEW steps, NEW n \in Nat PROVE \E f : Applies(f, steps, n)
<1> DEFINE K == {k \in Nat : \E f : Applies(f, steps, k)}
           next(i, s) == Apply(s, steps[i])
<1>0. ASSUME NEW k, NEW f PROVE Applies(f, steps, k) <=>
        f = [i \in 0 .. k |-> IF i = 0 THEN IspOff ELSE next(i, f[i - 1])]
  BY DEF Applies
<1> HIDE DEF next
<1>1. 0 \in K
  <2> DEFINE f == [i \in 0 .. 0 |-> IspOff]
  <2>1. \A i \in 0 .. 0 : i = 0
    OBVIOUS
  <2>2. f = [i \in 0 .. 0 |-> IF i = 0 THEN IspOff ELSE next(i, f[i - 1])]
    BY <2>1
  <2> HIDE DEF f
  <2> QED
    BY <1>0, <2>2
<1>2. ASSUME NEW k \in Nat, k \in K PROVE k + 1 \in K
  <2>1. PICK f : f = [i \in 0 .. k |-> IF i = 0 THEN IspOff ELSE next(i, f[i - 1])]
    BY <1>0, <1>2
  <2> DEFINE g == [i \in 0 .. k + 1 |-> IF i = 0 THEN IspOff ELSE next(i, f[i - 1])]
  <2>2. \A i \in 0 .. k : i \in 0 .. k + 1 /\ f[i] = IF i = 0 THEN IspOff ELSE next(i, f[i - 1])
    BY <2>1
  <2>3. \A i \in 0 .. k : g[i] = f[i]
    BY <2>2
  <2>4. g = [i \in 0 .. k + 1 |-> g[i]]
    OBVIOUS
  <2>5. \A i \in 0 .. k + 1 : g[i] = IF i = 0 THEN IspOff ELSE next(i, f[i - 1])
    OBVIOUS
  <2> HIDE DEF g
  <2>6. \A i \in 0 .. k + 1 : i # 0 => g[i - 1] = f[i - 1]
    BY <2>3
  <2>7. g = [i \in 0 .. k + 1 |-> IF i = 0 THEN IspOff ELSE next(i, g[i - 1])]
    BY <2>4, <2>5, <2>6
  <2>8. Applies(g, steps, k + 1)
    BY <1>0, <2>7
  <2>9. \E h : Applies(h, steps, k + 1)
    BY <2>8
  <2> QED
    BY <2>9
<1> HIDE DEF K
<1>3. Nat \subseteq K
  BY <1>1, <1>2, NatsByInduction
<1> QED
  BY <1>3 DEF K

LEMMA Configs ==
  ASSUME NEW Mesh, NEW c \in AllModes(Mesh)
  PROVE  /\ \A e \in BOOLEAN :
               /\ [c EXCEPT !.auto_exposure = e] \in AllModes(Mesh)
               /\ [c EXCEPT !.auto_exposure = e]["auto_exposure"] = e
               /\ \A mode \in ModeNames \ {"auto_exposure"} :
                     [c EXCEPT !.auto_exposure = e][mode] = c[mode]
         /\ \A e \in BOOLEAN :
               /\ [c EXCEPT !.auto_white_balance = e] \in AllModes(Mesh)
               /\ [c EXCEPT !.auto_white_balance = e]["auto_white_balance"] = e
               /\ \A mode \in ModeNames \ {"auto_white_balance"} :
                     [c EXCEPT !.auto_white_balance = e][mode] = c[mode]
         /\ \A e \in Mesh :
               /\ [c EXCEPT !.ldch_mesh_path = e] \in AllModes(Mesh)
               /\ [c EXCEPT !.ldch_mesh_path = e]["ldch_mesh_path"] = e
               /\ \A mode \in ModeNames \ {"ldch_mesh_path"} :
                     [c EXCEPT !.ldch_mesh_path = e][mode] = c[mode]
BY DEF AllModes, ModeNames

(* What a setter that gives a mode does to an ISP.                         *)
LEMMA SetterDoes ==
  ASSUME NEW Mesh, NEW i \in Isps(Mesh), NEW name \in ModeNames, NEW call, call.f = name,
         NEW c \in AllModes(Mesh), c[name] = call.v,
         \A mode \in ModeNames \ {name} : c[mode] = i.config[mode],
         NEW r, r = IF i.initialized THEN [initialized |-> i.initialized, config |-> c] ELSE i
  PROVE  /\ r \in Isps(Mesh)
         /\ r.initialized <=> i.initialized
         /\ \A mode \in ModeNames : r.config[mode] =
               IF call.f = mode /\ i.initialized THEN call.v ELSE i.config[mode]
<1>1. CASE i.initialized
  <2>1. r = [initialized |-> i.initialized, config |-> c]
    BY <1>1
  <2>2. r \in Isps(Mesh) /\ r.initialized = i.initialized /\ r.config = c
    BY <2>1 DEF Isps
  <2> QED
    BY <1>1, <2>2
<1>2. CASE ~i.initialized
  BY <1>2
<1> QED
  BY <1>1, <1>2

(* What one call does to an ISP: whether it is up then, and each mode.     *)
LEMMA ApplyDoes ==
  ASSUME NEW Mesh, NEW i \in Isps(Mesh), NEW call \in AllCalls(Mesh)
  PROVE  /\ Apply(i, call) \in Isps(Mesh)
         /\ Apply(i, call).initialized
            <=> call.f = "init" \/ (call.f # "shutdown" /\ i.initialized)
         /\ \A mode \in ModeNames : Apply(i, call).config[mode] =
               IF call.f = "init"
               THEN IF i.initialized THEN i.config[mode] ELSE call.v[mode]
               ELSE IF call.f = mode /\ i.initialized THEN call.v ELSE i.config[mode]
<1>1. CASE call \in [f : {"init"}, v : AllModes(Mesh)]
  <2>1. Apply(i, call) = isp_init(i, call.v).held
    BY <1>1 DEF Apply
  <2>2. Apply(i, call) = IF i.initialized THEN i ELSE [initialized |-> TRUE, config |-> call.v]
    BY <2>1 DEF isp_init, Done
  <2>3. call.f = "init" /\ call.v \in AllModes(Mesh)
    BY <1>1
  <2> QED
    BY <2>2, <2>3 DEF Isps
<1>2. CASE call \in [f : {"shutdown"}, v : {0}]
  <2>1. Apply(i, call) = [i EXCEPT !.initialized = FALSE] /\ call.f = "shutdown"
    BY <1>2 DEF Apply, isp_shutdown, Done
  <2> QED
    BY <2>1 DEF Isps, ModeNames
<1>3. CASE call.f = "auto_exposure" /\ call.v \in BOOLEAN
  <2>1. Apply(i, call) = IF i.initialized THEN [i EXCEPT !.config.auto_exposure = call.v] ELSE i
    BY <1>3 DEF Apply, isp_set_exposure, Done, Refused
  <2>2. [i EXCEPT !.config.auto_exposure = call.v]
        = [initialized |-> i.initialized, config |-> [i.config EXCEPT !.auto_exposure = call.v]]
    BY DEF Isps
  <2>3. i.config \in AllModes(Mesh) /\ i.initialized \in BOOLEAN
    BY DEF Isps
  <2> DEFINE c == [i.config EXCEPT !.auto_exposure = call.v]
             r == Apply(i, call)
  <2>4. /\ c \in AllModes(Mesh) /\ c["auto_exposure"] = call.v
        /\ \A mode \in ModeNames \ {"auto_exposure"} : c[mode] = i.config[mode]
    BY <1>3, <2>3, Configs
  <2>5. r = IF i.initialized THEN [initialized |-> i.initialized, config |-> c] ELSE i
    BY <2>1, <2>2
  <2>6. "auto_exposure" \in ModeNames /\ "auto_exposure" # "init" /\ "auto_exposure" # "shutdown"
    BY DEF ModeNames
  <2> HIDE DEF c, r
  <2>7. /\ r \in Isps(Mesh)
        /\ r.initialized <=> i.initialized
        /\ \A mode \in ModeNames : r.config[mode] =
              IF call.f = mode /\ i.initialized THEN call.v ELSE i.config[mode]
    BY <1>3, <2>4, <2>5, <2>6, SetterDoes
  <2> QED
    BY <1>3, <2>6, <2>7 DEF r
<1>4. CASE call.f = "auto_white_balance" /\ call.v \in BOOLEAN
  <2>1. Apply(i, call) = IF i.initialized THEN [i EXCEPT !.config.auto_white_balance = call.v] ELSE i
    BY <1>4 DEF Apply, isp_set_white_balance, Done, Refused
  <2>2. [i EXCEPT !.config.auto_white_balance = call.v]
        = [initialized |-> i.initialized, config |-> [i.config EXCEPT !.auto_white_balance = call.v]]
    BY DEF Isps
  <2>3. i.config \in AllModes(Mesh) /\ i.initialized \in BOOLEAN
    BY DEF Isps
  <2> DEFINE c == [i.config EXCEPT !.auto_white_balance = call.v]
             r == Apply(i, call)
  <2>4. /\ c \in AllModes(Mesh) /\ c["auto_white_balance"] = call.v
        /\ \A mode \in ModeNames \ {"auto_white_balance"} : c[mode] = i.config[mode]
    BY <1>4, <2>3, Configs
  <2>5. r = IF i.initialized THEN [initialized |-> i.initialized, config |-> c] ELSE i
    BY <2>1, <2>2
  <2>6. "auto_white_balance" \in ModeNames /\ "auto_white_balance" # "init" /\ "auto_white_balance" # "shutdown"
    BY DEF ModeNames
  <2> HIDE DEF c, r
  <2>7. /\ r \in Isps(Mesh)
        /\ r.initialized <=> i.initialized
        /\ \A mode \in ModeNames : r.config[mode] =
              IF call.f = mode /\ i.initialized THEN call.v ELSE i.config[mode]
    BY <1>4, <2>4, <2>5, <2>6, SetterDoes
  <2> QED
    BY <1>4, <2>6, <2>7 DEF r
<1>5. CASE call.f = "ldch_mesh_path" /\ call.v \in Mesh
  <2>1. Apply(i, call) = IF i.initialized THEN [i EXCEPT !.config.ldch_mesh_path = call.v] ELSE i
    BY <1>5 DEF Apply, isp_set_ldch_mesh, Done, Refused
  <2>2. [i EXCEPT !.config.ldch_mesh_path = call.v]
        = [initialized |-> i.initialized, config |-> [i.config EXCEPT !.ldch_mesh_path = call.v]]
    BY DEF Isps
  <2>3. i.config \in AllModes(Mesh) /\ i.initialized \in BOOLEAN
    BY DEF Isps
  <2> DEFINE c == [i.config EXCEPT !.ldch_mesh_path = call.v]
             r == Apply(i, call)
  <2>4. /\ c \in AllModes(Mesh) /\ c["ldch_mesh_path"] = call.v
        /\ \A mode \in ModeNames \ {"ldch_mesh_path"} : c[mode] = i.config[mode]
    BY <1>5, <2>3, Configs
  <2>5. r = IF i.initialized THEN [initialized |-> i.initialized, config |-> c] ELSE i
    BY <2>1, <2>2
  <2>6. "ldch_mesh_path" \in ModeNames /\ "ldch_mesh_path" # "init" /\ "ldch_mesh_path" # "shutdown"
    BY DEF ModeNames
  <2> HIDE DEF c, r
  <2>7. /\ r \in Isps(Mesh)
        /\ r.initialized <=> i.initialized
        /\ \A mode \in ModeNames : r.config[mode] =
              IF call.f = mode /\ i.initialized THEN call.v ELSE i.config[mode]
    BY <1>5, <2>4, <2>5, <2>6, SetterDoes
  <2> QED
    BY <1>5, <2>6, <2>7 DEF r
<1> QED
  BY <1>1, <1>2, <1>3, <1>4, <1>5 DEF AllCalls

(* Whether the next call finds the ISP up.                                 *)
LEMMA UpAfter ==
  ASSUME NEW steps, NEW k \in Nat
  PROVE  FindsItUp(steps, k + 2) <=>
            steps[k + 1].f = "init" \/ (steps[k + 1].f # "shutdown" /\ FindsItUp(steps, k + 1))
<1> DEFINE Up(n) == \E j \in 1 .. n : steps[j].f = "init" /\ \A l \in j .. n : steps[l].f # "shutdown"
<1>1. FindsItUp(steps, k + 2) <=> Up(k + 1)
  <2>1. (k + 2) - 1 = k + 1
    OBVIOUS
  <2> QED
    BY <2>1 DEF FindsItUp
<1>2. FindsItUp(steps, k + 1) <=> Up(k)
  <2>1. (k + 1) - 1 = k
    OBVIOUS
  <2> QED
    BY <2>1 DEF FindsItUp
<1>3. ASSUME steps[k + 1].f = "init" PROVE Up(k + 1)
  <2>1. k + 1 \in 1 .. k + 1 /\ \A l \in k + 1 .. k + 1 : l = k + 1
    OBVIOUS
  <2> QED
    BY <1>3, <2>1
<1>4. ASSUME steps[k + 1].f # "shutdown", Up(k) PROVE Up(k + 1)
  <2>1. PICK j \in 1 .. k : steps[j].f = "init" /\ \A l \in j .. k : steps[l].f # "shutdown"
    BY <1>4
  <2>2. j \in 1 .. k + 1 /\ \A l \in j .. k + 1 : l \in j .. k \/ l = k + 1
    OBVIOUS
  <2> QED
    BY <1>4, <2>1, <2>2
<1>5. ASSUME Up(k + 1) PROVE steps[k + 1].f = "init" \/ (steps[k + 1].f # "shutdown" /\ Up(k))
  <2>1. PICK j \in 1 .. k + 1 : steps[j].f = "init" /\ \A l \in j .. k + 1 : steps[l].f # "shutdown"
    BY <1>5
  <2>2. CASE j = k + 1
    BY <2>1, <2>2
  <2>3. CASE j \in 1 .. k
    <3>1. k + 1 \in j .. k + 1 /\ \A l \in j .. k : l \in j .. k + 1
      OBVIOUS
    <3> QED
      BY <2>1, <2>3, <3>1
  <2> QED
    BY <2>2, <2>3
<1> HIDE DEF Up
<1> QED
  BY <1>1, <1>2, <1>3, <1>4, <1>5

LEMMA ModeIsGiven ==
  ASSUME NEW steps, NEW mode
  PROVE  ModeAfter(steps, mode) = Given(steps, mode, Decides(steps, mode))
BY DEF ModeAfter, Given

(* After each call every mode is what the last that decides it gave.       *)
LEMMA LastGives ==
  ASSUME NEW steps, NEW mode, NEW n \in Nat, NEW D \in SUBSET (1 .. n - 1)
  PROVE  Given(steps, mode, D \cup {n}) = IF steps[n].f = "init" THEN steps[n].v[mode] ELSE steps[n].v
<1> DEFINE E == D \cup {n}
           last == CHOOSE k \in E : \A j \in E : j <= k
<1>1. n \in E /\ \A j \in E : j <= n /\ j \in Int
  OBVIOUS
<1>2. \A k \in E : (\A j \in E : j <= k) => k = n
  BY <1>1
<1>3. last = n
  BY <1>1, <1>2
<1>4. E # {}
  BY <1>1
<1> HIDE DEF E
<1> QED
  BY <1>3, <1>4 DEF Given, E

(* Every mode of the ISP is, after any number of calls, what the last call *)
(* that found it in a state to take it said (isp.c).                       *)
THEOREM ModesAreGiven ==
  ASSUME NEW Mesh, IspOff \in Isps(Mesh), NEW steps \in Seq(AllCalls(Mesh)), NEW mode \in ModeNames
  PROVE  IspAfter(steps).config[mode] = ModeAfter(steps, mode)
<1> DEFINE n == Len(steps)
           f == CHOOSE g : Applies(g, steps, n)
           D == Decides(steps, mode)
           Right(k) == /\ f[k] \in Isps(Mesh)
                       /\ f[k].initialized <=> FindsItUp(steps, k + 1)
                       /\ f[k].config[mode] = Given(steps, mode, D \cap (1 .. k))
           K == {k \in Nat : k <= n => Right(k)}
<1>1. n \in Nat /\ DOMAIN steps = 1 .. n /\ \A k \in 1 .. n : steps[k] \in AllCalls(Mesh)
  OBVIOUS
<1>2. Applies(f, steps, n)
  BY <1>1, AppliesExists
<1>3. D = {k \in 1 .. n : IF steps[k].f = "init" THEN ~FindsItUp(steps, k)
                          ELSE steps[k].f = mode /\ FindsItUp(steps, k)}
  BY <1>1 DEF Decides
<1> HIDE DEF f, D
<1>4. \A i \in 0 .. n : f[i] = IF i = 0 THEN IspOff ELSE Apply(f[i - 1], steps[i])
  BY <1>2 DEF Applies
<1>5. 0 \in K
  <2>1. f[0] = IspOff /\ D \cap (1 .. 0) = {}
    BY <1>1, <1>4
  <2>2. IspOff \in Isps(Mesh) /\ ~IspOff.initialized
    BY DEF IspOff
  <2>3. ~FindsItUp(steps, 0 + 1)
    BY DEF FindsItUp
  <2>4. Given(steps, mode, {}) = IspOff.config[mode]
    BY DEF Given
  <2>5. Right(0)
    BY <2>1, <2>2, <2>3, <2>4
  <2> HIDE DEF Right
  <2> QED
    BY <2>5
<1>6. ASSUME NEW k \in Nat, k \in K PROVE k + 1 \in K
  <2> SUFFICES ASSUME k + 1 <= n PROVE Right(k + 1)
    OBVIOUS
  <2> DEFINE i == f[k]
             call == steps[k + 1]
             d == D \cap (1 .. k)
  <2>1. /\ i \in Isps(Mesh) /\ (i.initialized <=> FindsItUp(steps, k + 1))
        /\ i.config[mode] = Given(steps, mode, d)
    BY <1>1, <1>6
  <2>2. k + 1 \in 0 .. n /\ k + 1 # 0 /\ (k + 1) - 1 = k /\ k + 1 \in 1 .. n /\ (k + 1) + 1 = k + 2
    BY <1>1
  <2>3. f[k + 1] = Apply(i, call) /\ call \in AllCalls(Mesh)
    BY <1>1, <1>4, <2>2
  <2>4. /\ f[k + 1] \in Isps(Mesh)
        /\ f[k + 1].initialized <=> call.f = "init" \/ (call.f # "shutdown" /\ i.initialized)
        /\ f[k + 1].config[mode] =
              IF call.f = "init"
              THEN IF i.initialized THEN i.config[mode] ELSE call.v[mode]
              ELSE IF call.f = mode /\ i.initialized THEN call.v ELSE i.config[mode]
    <3> DEFINE r == Apply(i, call)
    <3>1. i \in Isps(Mesh) /\ call \in AllCalls(Mesh)
      BY <2>1, <2>3
    <3> HIDE DEF i, call, d, n, Right, K
    <3>2. /\ r \in Isps(Mesh)
          /\ r.initialized <=> call.f = "init" \/ (call.f # "shutdown" /\ i.initialized)
          /\ r.config[mode] =
                IF call.f = "init"
                THEN IF i.initialized THEN i.config[mode] ELSE call.v[mode]
                ELSE IF call.f = mode /\ i.initialized THEN call.v ELSE i.config[mode]
      BY <3>1, ApplyDoes
    <3>3. r = f[k + 1]
      BY <2>3
    <3> HIDE DEF r
    <3> QED
      BY <3>2, <3>3
  <2>5. f[k + 1].initialized <=> FindsItUp(steps, k + 2)
    BY <2>1, <2>4, UpAfter
  <2>6. k + 1 \in D <=> IF call.f = "init" THEN ~FindsItUp(steps, k + 1)
                        ELSE call.f = mode /\ FindsItUp(steps, k + 1)
    BY <1>3, <2>2
  <2>7. f[k + 1].config[mode] = Given(steps, mode, D \cap (1 .. k + 1))
    <3>1. CASE k + 1 \in D
      <4>1. D \cap (1 .. k + 1) = d \cup {k + 1} /\ d \subseteq 1 .. (k + 1) - 1
        BY <2>2, <3>1
      <4> DEFINE m == k + 1
      <4>2. m \in Nat /\ d \in SUBSET (1 .. m - 1)
        BY <4>1
      <4>3. Given(steps, mode, d \cup {m}) = IF steps[m].f = "init" THEN steps[m].v[mode] ELSE steps[m].v
        <5> HIDE DEF m, d
        <5> QED
          BY <4>2, LastGives, Zenon
      <4> HIDE DEF d, i, call
      <4> QED
        BY <2>1, <2>4, <2>6, <3>1, <4>1, <4>3 DEF call
    <3>2. CASE k + 1 \notin D
      <4>1. D \cap (1 .. k + 1) = d
        BY <3>2
      <4> HIDE DEF d, i, call
      <4> QED
        BY <2>1, <2>4, <2>6, <3>2, <4>1
    <3> QED
      BY <3>1, <3>2
  <2> QED
    BY <2>2, <2>4, <2>5, <2>7
<1>7. Right(n)
  <2> HIDE DEF K, Right
  <2>1. Nat \subseteq K
    BY <1>5, <1>6, NatsByInduction
  <2> QED
    BY <1>1, <2>1 DEF K
<1>8. D \cap (1 .. n) = D
  BY <1>3
<1>9. IspAfter(steps) = f[n]
  BY IspAfterIsChosen DEF f
<1> QED
  BY <1>7, <1>8, <1>9, ModeIsGiven DEF D
=============================================================================
