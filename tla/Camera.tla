------------------------------- MODULE Camera -------------------------------
(***************************************************************************)
(* The SC3336 camera of the native process: cgo/camera.c.  The calls of    *)
(* the pipeline are parts of its steps, here as operators; the capture     *)
(* thread's steps that leave the pipeline alone are actions.  A frame is a *)
(* buffer taken from the driver; it is queued again after the callback.    *)
(***************************************************************************)
EXTENDS Integers, FiniteSetsExt

CONSTANTS Granted,     \* the buffers the driver grants
          MaxEvents    \* bound: calls of the clients and failures, together

ASSUME GrantedAssumption == Granted \in Nat /\ Granted >= 2
ASSUME BoundAssumption == MaxEvents \in Nat

VARIABLES
    initialized, streaming,   \* g_camera.status
    running,                  \* the thread's loop goes on
    callback,                 \* the frame callback is set
    mapped, leaked,           \* buffers mapped; mappings whose address was overwritten
    queued,                   \* buffers the driver has
    on,                       \* the driver streams
    thread,                   \* where the capture thread is
    left, failed              \* what is left of the bound; history: something has failed

buffers == <<mapped, leaked, queued, on>>
status == <<initialized, streaming>>
chance == <<left, failed>>
camera == <<buffers, status, running, callback, thread>>

Spend == left > 0 /\ left' = left - 1
Fault == Spend /\ failed' = TRUE
NoFault == UNCHANGED chance

\* The thread holds a frame: its buffer is not the driver's.
HasFrame == thread \in {"frame", "video", "detect", "requeue"}

CameraTypeOK ==
    /\ initialized \in BOOLEAN /\ streaming \in BOOLEAN
    /\ running \in BOOLEAN /\ callback \in BOOLEAN
    /\ mapped \in 0 .. Granted /\ leaked \in Nat /\ queued \in 0 .. Granted
    /\ on \in BOOLEAN
    /\ thread \in {"none", "wait", "select", "frame", "video", "detect", "requeue", "exited"}
    /\ left \in 0 .. MaxEvents /\ failed \in BOOLEAN

CameraInit ==
    /\ initialized = FALSE /\ streaming = FALSE /\ running = FALSE /\ callback = FALSE
    /\ mapped = 0 /\ leaked = 0 /\ queued = 0 /\ on = FALSE
    /\ thread = "none"
    /\ left = MaxEvents /\ failed = FALSE

-----------------------------------------------------------------------------
(* The calls.                                                              *)

\* camera_init, when it succeeds: the buffers are mapped where the old ones were.
OpenCamera ==
    /\ initialized' = TRUE /\ streaming' = FALSE
    /\ mapped' = Granted /\ leaked' = leaked + mapped
    /\ UNCHANGED <<queued, on, running, callback, thread>>

\* When it fails: the MIPI device is not there or does not take the format (a sensor that does not
\* is passed over),
FormatRefused == UNCHANGED <<mapped, leaked>>

\* or the driver grants no buffers, or k of them are mapped and kept.
BuffersMissing ==
    \E k \in 0 .. Granted :
        /\ mapped' = Max({mapped, k})
        /\ leaked' = leaked + Min({mapped, k})

OpenFails ==
    /\ FormatRefused \/ BuffersMissing
    /\ UNCHANGED <<status, queued, on, running, callback, thread>>

\* camera_queue_buffers, STREAMON, pthread_create.
StreamOn ==
    /\ queued = 0
    /\ callback' = TRUE /\ queued' = Granted /\ on' = TRUE
    /\ running' = TRUE /\ thread' = "wait" /\ streaming' = TRUE
    /\ UNCHANGED <<initialized, mapped, leaked>>

\* A buffer that is queued cannot be queued: the first one, or, while the driver
\* still streams, the first it has not taken.
QueueRefused ==
    /\ queued > 0
    /\ callback' = TRUE
    /\ queued' \in (IF on THEN queued .. Granted ELSE {queued})
    /\ UNCHANGED <<status, mapped, leaked, on, running, thread>>

\* The k-th buffer is not queued or STREAMON fails: the others stay queued.  Or
\* pthread_create fails, and STREAMOFF gives them back.
StreamOnFails ==
    /\ queued = 0
    /\ callback' = TRUE
    /\ \/ queued' \in 0 .. Granted /\ UNCHANGED <<on, running>>
       \/ queued' = 0 /\ on' = FALSE /\ running' = FALSE
    /\ UNCHANGED <<status, mapped, leaked, thread>>

\* Mutant: the thread is not told.
LowerRunningNot == UNCHANGED <<running, buffers, status, callback, thread>>

\* camera_stop_streaming up to the join.
LowerRunning == running' = FALSE /\ UNCHANGED <<buffers, status, callback, thread>>

\* Mutant: the driver is left streaming.
StreamOffNot ==
    /\ thread' = "none" /\ streaming' = FALSE /\ callback' = FALSE
    /\ NoFault
    /\ UNCHANGED <<initialized, mapped, leaked, queued, on, running>>

\* ... and after it.  STREAMOFF gives the buffers back; when it fails, nothing is done about it.
StreamOff ==
    /\ thread' = "none" /\ streaming' = FALSE /\ callback' = FALSE
    /\ \/ NoFault /\ queued' = 0 /\ on' = FALSE
       \/ Fault /\ UNCHANGED <<queued, on>>
    /\ UNCHANGED <<initialized, mapped, leaked, running>>

\* camera_free_buffers.
FreeBuffers == mapped' = 0

\* Mutant: the devices are closed, the buffers stay mapped.
CloseKeeps ==
    /\ queued' = 0 /\ on' = FALSE /\ initialized' = FALSE
    /\ UNCHANGED <<mapped, streaming, running, callback, leaked, thread>>

\* camera_shutdown once it does not stream: unmap, close.
CloseCamera ==
    /\ IF initialized
       THEN FreeBuffers /\ queued' = 0 /\ on' = FALSE /\ initialized' = FALSE
       ELSE UNCHANGED <<mapped, queued, on, initialized>>
    /\ UNCHANGED <<streaming, running, callback, leaked, thread>>

-----------------------------------------------------------------------------
(* The capture thread, outside the frame callback.                         *)

Step(s) == thread' = s /\ UNCHANGED <<mapped, leaked, on, status, running, callback>>

\* The head of the loop.
Wait == thread = "wait" /\ Step(IF running THEN "select" ELSE "exited") /\ NoFault /\ UNCHANGED queued

\* select times out after a second, or is interrupted.
Timeout == thread = "select" /\ Step("wait") /\ NoFault /\ UNCHANGED queued

\* DQBUF: a frame; the callback is called with it.
Dequeue ==
    /\ thread = "select" /\ on /\ queued > 0
    /\ queued' = queued - 1
    /\ Step(IF callback THEN "frame" ELSE "requeue") /\ NoFault

\* select or DQBUF fails: the thread ends, and the status says it streams.
CaptureFails == thread = "select" /\ Fault /\ Step("exited") /\ UNCHANGED queued

\* Mutant: the buffer is not queued again.
RequeueNot == thread = "requeue" /\ Step("wait") /\ NoFault /\ UNCHANGED queued

\* Mutant: the buffer is queued twice.
RequeueTwice ==
    /\ thread = "requeue"
    /\ NoFault /\ queued' = queued + 2 /\ Step("wait")

\* After the callback the buffer is queued again; when that fails the thread ends.
Requeue ==
    /\ thread = "requeue"
    /\ \/ NoFault /\ queued' = queued + 1 /\ Step("wait")
       \/ Fault /\ UNCHANGED queued /\ Step("exited")
=============================================================================
