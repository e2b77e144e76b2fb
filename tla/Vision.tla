------------------------------- MODULE Vision -------------------------------
(***************************************************************************)
(* The vision pipeline of the native process: vision_pipeline.c with its   *)
(* camera, ISP (isp.c) and NPU (npu.c), and the Go object the clients      *)
(* call, VisionPipeline.  The Go object's mutex orders the clients, but is *)
(* given up in the middle of Stop and Shutdown; cgoLock lets one call at a *)
(* time into C; the capture thread runs the frame callback beside it, and  *)
(* shares the pipeline's mutex with it.  What a frame holds is abstracted: *)
(* the pipeline's own conversions are stubs, and the functions that npu.c, *)
(* camera.c and isp.c have beside them (Inference, Controls) are, where    *)
(* these modules say so, called by nobody.                                 *)
(***************************************************************************)
EXTENDS Camera, Inference, Controls

CONSTANTS Client, NoClient,
          Level        \* levels of the lens correction

ASSUME ClientAssumption == NoClient \notin Client
ASSUME LevelAssumption == Level # {}

VARIABLES
    mu,          \* who holds VisionPipeline.mu
    vpRunning,   \* VisionPipeline.running
    vpLdch,      \* VisionPipeline.config: the lens correction
    pc, op,      \* where each client is, and in which call
    cgo,         \* who holds cgoLock
    up,          \* g_pipeline.status.initialized
    active,      \* g_pipeline.status.running
    run,         \* g_pipeline.running
    callbacks,   \* the video and detection callbacks are set
    memory,      \* the frame buffers are allocated
    ready,       \* g_pipeline.status: which parts are ready
    npuOn,       \* npu_enabled
    pLdch,       \* g_pipeline.config: the lens correction
    isp,         \* "off", "initialized", "running"
    ispLdch,     \* its lens correction
    npu,         \* "off", "initialized", "loaded"
    raced        \* history: a start began while a stop or a shutdown had given mu up

Parts == {"camera", "isp", "npu"}
Ldch == [enabled : BOOLEAN, level : Level]

go == <<mu, vpRunning, vpLdch>>
calls == <<pc, op>>
pipeline == <<up, active, run, callbacks, memory, ready, npuOn, pLdch>>
parts == <<isp, ispLdch, npu>>
vars == <<camera, chance, go, calls, cgo, pipeline, parts, raced>>

TypeOK ==
    /\ CameraTypeOK
    /\ mu \in Client \cup {NoClient} /\ cgo \in Client \cup {NoClient}
    /\ vpRunning \in BOOLEAN /\ vpLdch \in Ldch
    /\ pc \in [Client -> {"idle", "lock", "relock", "lockagain", "enter", "enterstop",
                          "stream", "mark", "unmark", "join", "clear", "down"}]
    /\ op \in [Client -> {"none", "initialize", "start", "stop", "shutdown", "npu", "ldch"}]
    /\ up \in BOOLEAN /\ active \in BOOLEAN /\ run \in BOOLEAN /\ callbacks \in BOOLEAN
    /\ memory \in BOOLEAN /\ npuOn \in BOOLEAN /\ pLdch \in Ldch /\ ready \subseteq Parts
    /\ isp \in {"off", "initialized", "running"} /\ ispLdch \in Ldch
    /\ npu \in {"off", "initialized", "loaded"}
    /\ raced \in BOOLEAN

Init ==
    /\ CameraInit
    /\ mu = NoClient /\ cgo = NoClient /\ vpRunning = FALSE /\ vpLdch \in Ldch
    /\ pc = [c \in Client |-> "idle"] /\ op = [c \in Client |-> "none"]
    /\ up = FALSE /\ active = FALSE /\ run = FALSE /\ callbacks = FALSE
    /\ memory = FALSE /\ ready = {} /\ npuOn = TRUE /\ pLdch = vpLdch
    /\ isp = "off" /\ ispLdch = vpLdch /\ npu = "off"
    /\ raced = FALSE

At(c, l) == pc[c] = l
Goto(c, l) == pc' = [pc EXCEPT ![c] = l] /\ UNCHANGED op
Finish(c) == pc' = [pc EXCEPT ![c] = "idle"] /\ op' = [op EXCEPT ![c] = "none"]

Lock(c) == mu = NoClient /\ mu' = c
Unlock == mu' = NoClient
Enter(c) == cgo = NoClient /\ cgo' = c
Leave == cgo' = NoClient
\* A call that begins and ends in one step.
Visit == cgo = NoClient /\ UNCHANGED cgo

\* The pipeline's mutex: a shutdown holds it while it waits for the camera.
MutexFree == \A c \in Client : ~(At(c, "down") /\ streaming)

-----------------------------------------------------------------------------
(* The Go object.                                                          *)

CRest == UNCHANGED <<camera, cgo, pipeline, parts>>

Call(c, o, l) ==
    /\ At(c, "idle") /\ Spend
    /\ pc' = [pc EXCEPT ![c] = l] /\ op' = [op EXCEPT ![c] = o]
    /\ UNCHANGED <<go, failed, raced>> /\ CRest

CallInitialize(c) == Call(c, "initialize", "lock")
CallStart(c) == Call(c, "start", "lock")
CallStop(c) == Call(c, "stop", "relock")
CallShutdown(c) == Call(c, "shutdown", "lock")
CallSetNpuEnabled(c) == Call(c, "npu", "enter")
CallSetLdch(c) == Call(c, "ldch", "lock")

\* A client that has given mu up and has not finished with C.
Halfway(c) ==
    \/ pc[c] \in {"enterstop", "join", "clear", "lockagain"}
    \/ op[c] = "shutdown" /\ At(c, "relock")

LockInitialize(c) ==
    /\ At(c, "lock") /\ op[c] = "initialize" /\ Lock(c)
    /\ Goto(c, "enter")
    /\ UNCHANGED <<vpRunning, vpLdch, raced>> /\ NoFault /\ CRest

LockStart(c) ==
    /\ At(c, "lock") /\ op[c] = "start" /\ mu = NoClient
    /\ IF vpRunning
       THEN Finish(c) /\ UNCHANGED <<mu, raced>>
       ELSE /\ Lock(c) /\ Goto(c, "enter")
            /\ raced' = (raced \/ \E d \in Client \ {c} : Halfway(d))
    /\ UNCHANGED <<vpRunning, vpLdch>> /\ NoFault /\ CRest

\* Mutant: a shutdown does not stop the pipeline first, in Go.
LockShutdownOnly(c) ==
    /\ At(c, "lock") /\ op[c] = "shutdown" /\ Lock(c) /\ Goto(c, "enter")
    /\ UNCHANGED <<vpRunning, vpLdch, raced>> /\ NoFault /\ CRest

\* A pipeline that runs is stopped first, with mu given up.
LockShutdown(c) ==
    /\ At(c, "lock") /\ op[c] = "shutdown" /\ mu = NoClient
    /\ IF vpRunning
       THEN Goto(c, "relock") /\ UNCHANGED mu
       ELSE Lock(c) /\ Goto(c, "enter")
    /\ UNCHANGED <<vpRunning, vpLdch, raced>> /\ NoFault /\ CRest

\* VisionPipeline.Stop returns to its caller, which may be Shutdown.
Stopped(c) == IF op[c] = "shutdown" THEN Goto(c, "lockagain") ELSE Finish(c)

\* VisionPipeline.Stop: not running any more, for Go, before C is asked.
LockStop(c) ==
    /\ At(c, "relock") /\ mu = NoClient
    /\ IF vpRunning THEN vpRunning' = FALSE /\ Goto(c, "enterstop")
                    ELSE UNCHANGED vpRunning /\ Stopped(c)
    /\ UNCHANGED <<mu, vpLdch, raced>> /\ NoFault /\ CRest

\* Whether it runs again is not looked at.
LockAgain(c) ==
    /\ At(c, "lockagain") /\ Lock(c)
    /\ Goto(c, "enter")
    /\ UNCHANGED <<vpRunning, vpLdch, raced>> /\ NoFault /\ CRest

LockLdch(c) ==
    /\ At(c, "lock") /\ op[c] = "ldch" /\ Lock(c)
    /\ vpLdch' \in Ldch
    /\ Goto(c, "enter")
    /\ UNCHANGED <<vpRunning, raced>> /\ NoFault /\ CRest

-----------------------------------------------------------------------------
(* vision_pipeline_init.                                                   *)

\* isp_init never fails.
InitIsp == isp' = "initialized" /\ ispLdch' = vpLdch

\* npu_init, and the model it loads.
InitNpu(n) == npu' = n

CameraOpens(ok) ==
    CASE initialized -> ok /\ UNCHANGED camera
      [] ~initialized /\ ok -> OpenCamera
      [] ~initialized /\ ~ok -> OpenFails

\* What is missing is missing: only the frame buffers must be there.
PipelineInit(c) ==
    /\ At(c, "enter") /\ op[c] = "initialize" /\ Visit
    /\ Unlock /\ Finish(c)
    /\ \/ up /\ NoFault /\ UNCHANGED <<camera, pipeline, parts>>
       \/ /\ ~up /\ Fault
          /\ pLdch' = vpLdch
          /\ UNCHANGED <<camera, up, active, run, callbacks, memory, ready, npuOn, parts>>
       \/ /\ ~up /\ memory' = TRUE /\ up' = TRUE /\ npuOn' = TRUE /\ pLdch' = vpLdch
          /\ InitIsp
          /\ \E ok \in BOOLEAN, n \in {"off", "initialized", "loaded"} :
               /\ CameraOpens(ok) /\ InitNpu(n)
               /\ ready' = {"isp"} \cup {p \in {"camera"} : ok} \cup {p \in {"npu"} : n # "off"}
               /\ IF ok /\ n = "loaded" THEN NoFault ELSE Fault
          /\ UNCHANGED <<active, run, callbacks>>
    /\ UNCHANGED <<vpRunning, vpLdch, raced>>

-----------------------------------------------------------------------------
(* vision_pipeline_start.                                                  *)

GoRest == UNCHANGED <<go, raced>>
PipelineRest == UNCHANGED <<up, memory, ready, npuOn, pLdch, ispLdch, npu>>

PipelineStart(c) ==
    /\ At(c, "enter") /\ op[c] = "start" /\ cgo = NoClient
    /\ CASE ~up -> Unlock /\ Finish(c) /\ UNCHANGED <<cgo, vpRunning, run, callbacks>>
         [] up /\ active -> /\ vpRunning' = TRUE /\ Unlock /\ Finish(c)
                            /\ UNCHANGED <<cgo, run, callbacks>>
         [] OTHER -> /\ callbacks' = TRUE /\ run' = TRUE
                     /\ Enter(c) /\ Goto(c, "stream") /\ UNCHANGED <<mu, vpRunning>>
    /\ NoFault /\ UNCHANGED <<camera, active, isp, vpLdch, raced>> /\ PipelineRest

\* isp_start; one that is off refuses, and nothing is done about it.
StartIsp == isp' = IF isp = "off" THEN "off" ELSE "running"

\* isp_start, then camera_start_streaming.
StartCamera(c) ==
    /\ At(c, "stream")
    /\ StartIsp
    /\ \/ ~initialized /\ NoFault /\ UNCHANGED camera /\ Goto(c, "unmark")
       \/ initialized /\ streaming /\ NoFault /\ UNCHANGED camera /\ Goto(c, "mark")
       \/ initialized /\ ~streaming /\ StreamOn /\ NoFault /\ Goto(c, "mark")
       \/ initialized /\ ~streaming /\ QueueRefused /\ NoFault /\ Goto(c, "unmark")
       \/ initialized /\ ~streaming /\ StreamOnFails /\ Fault /\ Goto(c, "unmark")
    /\ UNCHANGED <<cgo, active, run, callbacks>> /\ GoRest /\ PipelineRest

MarkStarted(c) ==
    /\ At(c, "mark") /\ active' = TRUE
    /\ vpRunning' = TRUE /\ Leave /\ Unlock /\ Finish(c)
    /\ NoFault /\ UNCHANGED <<camera, run, callbacks, isp, vpLdch, raced>> /\ PipelineRest

\* The start has failed: the ISP and the callbacks stay.
UnmarkStarted(c) ==
    /\ At(c, "unmark") /\ run' = FALSE
    /\ Leave /\ Unlock /\ Finish(c)
    /\ NoFault /\ UNCHANGED <<camera, active, callbacks, isp, vpRunning, vpLdch, raced>> /\ PipelineRest

-----------------------------------------------------------------------------
(* vision_pipeline_stop; a shutdown calls it too.                          *)

\* It begins: the frames are refused, the camera's thread is told to end.
Halt(c) ==
    /\ run' = FALSE
    /\ IF streaming THEN LowerRunning ELSE UNCHANGED camera
    /\ Enter(c) /\ Goto(c, "join")

PipelineStop(c) ==
    /\ At(c, "enterstop") /\ cgo = NoClient
    /\ IF active THEN Halt(c) ELSE Stopped(c) /\ UNCHANGED <<cgo, run, camera>>
    /\ NoFault /\ UNCHANGED <<active, callbacks, isp>> /\ GoRest /\ PipelineRest

\* Mutant: isp_stop is left out.
StopIspNot == UNCHANGED isp

StopIsp == isp' = IF isp = "running" THEN "initialized" ELSE isp

\* Mutant: the thread is not waited for.
JoinNot(c) ==
    /\ At(c, "join")
    /\ IF streaming
       THEN /\ streaming' = FALSE /\ callback' = FALSE /\ queued' = 0 /\ on' = FALSE
            /\ NoFault /\ UNCHANGED <<initialized, mapped, leaked, running, thread>>
       ELSE UNCHANGED camera /\ NoFault
    /\ StopIsp /\ Goto(c, "clear")
    /\ UNCHANGED <<cgo, active, run, callbacks>> /\ GoRest /\ PipelineRest

\* The thread has been joined; the camera and the ISP are stopped.
JoinCamera(c) ==
    /\ At(c, "join")
    /\ IF streaming THEN thread = "exited" /\ StreamOff ELSE UNCHANGED camera /\ NoFault
    /\ StopIsp /\ Goto(c, "clear")
    /\ UNCHANGED <<cgo, active, run, callbacks>> /\ GoRest /\ PipelineRest

\* A stop of Go leaves C with mu free; the stop inside a shutdown goes on with it.
Clear(c) ==
    /\ At(c, "clear") /\ active' = FALSE /\ callbacks' = FALSE
    /\ IF mu = c THEN Goto(c, "down") /\ UNCHANGED cgo ELSE Stopped(c) /\ Leave
    /\ NoFault /\ UNCHANGED <<camera, run, isp>> /\ GoRest /\ PipelineRest

-----------------------------------------------------------------------------
(* vision_pipeline_shutdown.                                               *)

\* Mutant: the pipeline is not stopped first, in C.
PipelineShutdownOnly(c) ==
    /\ At(c, "enter") /\ op[c] = "shutdown" /\ cgo = NoClient
    /\ IF ~up
       THEN Unlock /\ Finish(c) /\ UNCHANGED cgo
       ELSE Enter(c) /\ Goto(c, "down") /\ UNCHANGED mu
    /\ UNCHANGED <<run, camera>>
    /\ NoFault /\ UNCHANGED <<active, callbacks, isp, vpRunning, vpLdch, raced>> /\ PipelineRest

PipelineShutdown(c) ==
    /\ At(c, "enter") /\ op[c] = "shutdown" /\ cgo = NoClient
    /\ CASE ~up -> Unlock /\ Finish(c) /\ UNCHANGED <<cgo, run, camera>>
         [] up /\ active -> Halt(c) /\ UNCHANGED mu
         [] OTHER -> Enter(c) /\ Goto(c, "down") /\ UNCHANGED <<mu, run, camera>>
    /\ NoFault /\ UNCHANGED <<active, callbacks, isp, vpRunning, vpLdch, raced>> /\ PipelineRest

NpuDown == npu' = "off"
IspDown == isp' = "off"

\* Mutant: the status of the parts is not cleared.
DownKeeps(c) ==
    /\ At(c, "down") /\ ~streaming
    /\ NpuDown /\ IspDown /\ CloseCamera
    /\ memory' = FALSE /\ up' = FALSE /\ active' = FALSE
    /\ Unlock /\ Leave /\ Finish(c)
    /\ NoFault /\ UNCHANGED <<ready, run, callbacks, npuOn, pLdch, ispLdch, vpRunning, vpLdch, raced>>

\* npu_shutdown, isp_shutdown and camera_shutdown, then the buffers and the status.  A camera
\* that streams would be waited for with the pipeline's mutex held, which its thread may want:
\* the model stops there, and ShutdownFindsItStopped says that it never gets there.
Down(c) ==
    /\ At(c, "down") /\ ~streaming
    /\ NpuDown /\ IspDown /\ CloseCamera
    /\ memory' = FALSE /\ up' = FALSE /\ active' = FALSE /\ ready' = {}
    /\ Unlock /\ Leave /\ Finish(c)
    /\ NoFault /\ UNCHANGED <<run, callbacks, npuOn, pLdch, ispLdch, vpRunning, vpLdch, raced>>

-----------------------------------------------------------------------------
(* The setters.                                                            *)

SetNpuEnabled(c) ==
    /\ At(c, "enter") /\ op[c] = "npu" /\ Visit
    /\ npuOn' \in BOOLEAN /\ Finish(c)
    /\ NoFault /\ UNCHANGED <<camera, up, active, run, callbacks, memory, ready, pLdch, parts>> /\ GoRest

\* Mutant: the level is set when it was enabled before.
LevelLate(new) ==
    [enabled |-> new.enabled, level |-> IF ispLdch.enabled THEN new.level ELSE ispLdch.level]

\* isp_set_ldch_enabled, then, if it is to be enabled, isp_set_ldch_level.
LdchOfIsp(new) ==
    [enabled |-> new.enabled, level |-> IF new.enabled THEN new.level ELSE ispLdch.level]

\* vision_pipeline_set_ldch: an ISP that is off refuses it; the pipeline's copy is written anyway.
SetLdch(c) ==
    /\ At(c, "enter") /\ op[c] = "ldch" /\ Visit
    /\ ispLdch' = IF isp = "off" THEN ispLdch ELSE LdchOfIsp(vpLdch)
    /\ pLdch' = vpLdch
    /\ Unlock /\ Finish(c)
    /\ NoFault /\ UNCHANGED <<camera, up, active, run, callbacks, memory, ready, npuOn, isp, npu,
                              vpRunning, vpLdch, raced>>

-----------------------------------------------------------------------------
(* The frame callback, in the capture thread.                              *)

ThreadRest == UNCHANGED <<go, calls, cgo, pipeline, parts, raced>>
InCallback(l, m) == thread = l /\ MutexFree /\ Step(m) /\ NoFault /\ UNCHANGED queued /\ ThreadRest

\* Refused unless it runs; otherwise encoded, and the video callback is called without the mutex.
FrameArrives == InCallback("frame", IF run /\ callbacks THEN "video" ELSE "requeue")

\* npu_inference wants a model.
Infers == npuOn /\ callbacks /\ npu = "loaded"

\* The video callback has returned: the conversion for the network, which is a stub (rga_nv12_to_rgb)
\* that leaves the buffer as it is, the inference on that buffer, and the detection callback without
\* the mutex.
FrameEncoded == InCallback("video", IF Infers THEN "detect" ELSE "requeue")
FrameInferred == InCallback("detect", "requeue")

ThreadWait == Wait /\ ThreadRest
ThreadTimeout == Timeout /\ ThreadRest
ThreadDequeue == Dequeue /\ ThreadRest
ThreadFails == CaptureFails /\ ThreadRest
ThreadRequeue == Requeue /\ ThreadRest

-----------------------------------------------------------------------------
ClientCalls(c) ==
    \/ CallInitialize(c) \/ CallStart(c) \/ CallStop(c) \/ CallShutdown(c)
    \/ CallSetNpuEnabled(c) \/ CallSetLdch(c)

ClientStep(c) ==
    \/ LockInitialize(c) \/ LockStart(c) \/ LockShutdown(c) \/ LockStop(c) \/ LockAgain(c) \/ LockLdch(c)
    \/ PipelineInit(c) \/ PipelineStart(c) \/ StartCamera(c) \/ MarkStarted(c) \/ UnmarkStarted(c)
    \/ PipelineStop(c) \/ JoinCamera(c) \/ Clear(c)
    \/ PipelineShutdown(c) \/ Down(c)
    \/ SetNpuEnabled(c) \/ SetLdch(c)

ThreadStep ==
    \/ ThreadWait \/ ThreadTimeout \/ ThreadDequeue \/ ThreadFails \/ ThreadRequeue
    \/ FrameArrives \/ FrameEncoded \/ FrameInferred

Next == ThreadStep \/ \E c \in Client : ClientCalls(c) \/ ClientStep(c)

Spec == Init /\ [][Next]_vars

\* Every thread is scheduled, and the sensor delivers frames while the driver streams;
\* nobody has to call, and nothing has to fail.
Fairness ==
    /\ \A c \in Client : WF_vars(ClientStep(c))
    /\ WF_vars(NoFault /\ ThreadStep)
    /\ SF_vars(ThreadDequeue)

FairSpec == Spec /\ Fairness

-----------------------------------------------------------------------------
(* Properties.                                                             *)

Idle == \A c \in Client : At(c, "idle")
InC == cgo # NoClient

\* Whenever no call is in C, the status a client reads tells of the parts what they are, though
\* each part keeps its own and starts may fail half-way; a pipeline that is down has nothing open.
StatusTells ==
    ~InC => /\ active = streaming
            /\ ready = {p \in Parts : \/ p = "camera" /\ initialized
                                      \/ p = "isp" /\ isp # "off"
                                      \/ p = "npu" /\ npu # "off"}
            /\ memory = up /\ (~up => ~active /\ ready = {})

\* When the pipeline is stopped no capture thread is left, not even one about to end.
StoppedIsSilent == ~InC /\ ~active => thread = "none"

\* The frame a callback works on is in a mapped buffer, the buffers it fills are allocated, the
\* callbacks it calls are set and the model it runs is loaded: whatever is stopped or shut down
\* meanwhile.
FrameIsBacked ==
    /\ HasFrame => mapped = Granted /\ memory
    /\ thread \in {"video", "detect"} => callbacks
    /\ thread = "detect" => npu = "loaded"

\* VisionPipeline.running is written outside the call into C it stands for.  When all calls have
\* returned it agrees with C, unless a start began while a stop or a shutdown had given mu up.
GoKnows == Idle /\ ~raced => vpRunning = active

\* The ISP works only for a pipeline that runs, unless a start has failed.
IspIdle == ~InC /\ isp = "running" => active \/ failed

\* Stopping and shutting down put everything back: the next start of a pipeline that is up fails
\* only if something has failed.
StartsAgain == (\E c \in Client : At(c, "unmark")) => failed

\* No mapping of the camera's buffers is forgotten, unless something has failed.
MappingsOwned == leaked = 0 \/ failed

\* The three copies of the lens correction agree while the pipeline is up.
LdchAgrees ==
    up /\ mu = NoClient =>
        /\ pLdch = vpLdch /\ ispLdch.enabled = vpLdch.enabled
        /\ vpLdch.enabled => ispLdch.level = vpLdch.level

\* A shutdown finds the camera stopped: it never joins the capture thread with the mutex held that
\* the thread's frame callback wants.
ShutdownFindsItStopped == \A c \in Client : At(c, "down") => ~streaming

\* The camera serves frames as FrameService says.
Service == INSTANCE FrameService
    WITH phase <- IF ~up THEN "down" ELSE IF streaming THEN "serving" ELSE "ready",
         frame <- HasFrame
ServesFrames == Service!Spec

\* Every call returns: a stop waits for a thread that looks at the flag it lowered.
CallsReturn == \A c \in Client : pc[c] # "idle" ~> pc[c] = "idle"

\* While the pipeline runs and nothing fails frames keep coming: every buffer goes back.
FramesFlow == <>[](active /\ ~failed) => []<>(thread = "video")

\* Whatever is stopped or shut down meanwhile, a frame is worked on in memory that is there, and
\* nobody waits for the thread that works on it with the mutex it wants; types.
FramesAreBacked == TypeOK /\ StoppedIsSilent /\ FrameIsBacked /\ ShutdownFindsItStopped

\* Go, the pipeline and each of its parts keep their own account of what is up, running and
\* corrected.  The accounts agree whenever no call is in C, and a failure or a race is the only
\* reason for a part left behind.
StatesAgree ==
    StatusTells /\ GoKnows /\ IspIdle /\ StartsAgain /\ MappingsOwned /\ LdchAgrees
=============================================================================
