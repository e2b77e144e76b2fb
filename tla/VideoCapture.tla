---------------------------- MODULE VideoCapture ----------------------------
(***************************************************************************)
(* The HDMI capture of the native process: cgo/video.c.  Two callers enter *)
(* it.  Go calls start, stop, the quality setter and (for sleep) the       *)
(* status, one call at a time under cgoLock; the format thread follows the *)
(* HDMI signal and restarts the stream, under no lock at all.  Both work   *)
(* on the same flag, the same "stopped" mark and the same pthread handle.  *)
(* Each stream thread takes blocks from a pool of three, drives the        *)
(* capture queue and owns the encoder channel with its reader thread.      *)
(***************************************************************************)
EXTENDS Encoding, FiniteSets

CONSTANTS Thread,      \* stream threads (an id is used again once joined)
          NoThread,    \* the NULL handle
          Mode,        \* HDMI timings, as <<width, height>>
          NoSignal,
          Factor,      \* quality factors
          MaxEvents    \* bound: calls of Go, changes of the HDMI signal and failures of the
                       \* driver or the encoder, together

Blocks == 3                      \* input_buffer_count
Caller == {"go", "fmt"}
Widths == {m[1] : m \in Mode}
Heights == {m[2] : m \in Mode}

ASSUME ThreadAssumption == IsFiniteSet(Thread) /\ NoThread \notin Thread
ASSUME ModeAssumption == Mode \subseteq (Nat \ {0}) \X (Nat \ {0}) /\ NoSignal \notin Mode
ASSUME BoundAssumption == MaxEvents \in Nat

VARIABLES
    flag,        \* streaming_flag
    stopped,     \* streaming_stopped
    handle,      \* streaming_thread
    dangling,    \* the handle was freed and is not NULL yet
    pc, op,      \* where each caller is, and in which call
    target,      \* the thread a caller is blocked joining
    spc,         \* where each stream thread is
    held,        \* the memory blocks of each stream thread
    size, rate,  \* what each stream thread captures and encodes; nothing after that
    pool, lost,  \* blocks in the pool, blocks nobody will give back
    width, height, signal,      \* detected_width, detected_height, detected_signal
    change,      \* the timings the format thread restarts the stream for
    quality,     \* quality_factor
    channel,     \* the encoder channel
    encoding,    \* venc_running
    reader,      \* venc_read_thread
    asleep,      \* the receiver's sleep mode file holds 1
    hdmi, event, \* the signal at the connector; a source change is queued
    left,        \* what is left of the bound
    failed,      \* history: something has failed
    crashed,     \* the process used a handle it must not
    wanted,      \* history: the last of Go's start and stop calls was a start
    overlapped   \* history: Go was in a call while the format thread was in one

control == <<flag, stopped, handle, dangling>>
callers == <<pc, op, target>>
detected == <<width, height, signal, change>>
memory == <<held, pool, lost>>
encoder == <<channel, encoding, reader>>
outside == <<hdmi, event>>
chance == <<left, failed>>
streams == <<spc, size, rate>>
history == <<wanted, overlapped>>
vars == <<control, callers, detected, memory, encoder, outside, streams,
          quality, asleep, chance, crashed, history>>

\* The thread has the capture queue of /dev/video0: REQBUFS of another is EBUSY.
OwnsQueue(t) == spc[t] \in {"buffers", "venc", "capture"}

Spend == left > 0 /\ left' = left - 1
Fault == Spend /\ failed' = TRUE
NoFault == UNCHANGED chance

TypeOK ==
    /\ flag \in BOOLEAN /\ stopped \in BOOLEAN /\ dangling \in BOOLEAN
    /\ handle \in Thread \cup {NoThread}
    /\ pc \in [Caller -> {"idle", "wake", "query", "height", "event", "gone",
                          "start", "raise", "create", "assign", "stop", "lower",
                          "join", "joining", "free", "null", "status", "status2",
                          "rewait", "inactive", "doze"}]
    /\ op \in [Caller -> {"none", "start", "stop", "restart", "sleep"}]
    /\ target \in [Caller -> Thread \cup {NoThread}]
    /\ spc \in [Thread -> {"none", "begin", "loop", "width", "height", "request", "buffers",
                           "venc", "capture", "cleanup", "join", "release", "exited"}]
    /\ held \in [Thread -> 0 .. Blocks]
    /\ size \in [Thread -> (Widths \cup {0}) \X (Heights \cup {0})]
    /\ rate \in [Thread -> Factor \cup {0}]
    /\ pool \in 0 .. Blocks /\ lost \in 0 .. Blocks
    /\ width \in Widths \cup {0} /\ height \in Heights \cup {0}
    /\ signal \in BOOLEAN
    /\ change \in Mode \cup {NoSignal}
    /\ hdmi \in Mode \cup {NoSignal}
    /\ quality \in Factor
    /\ channel \in {"none", "created", "receiving"}
    /\ reader \in {"none", "reading", "exited", "unmade"}
    /\ encoding \in BOOLEAN /\ asleep \in BOOLEAN /\ event \in BOOLEAN /\ crashed \in BOOLEAN
    /\ wanted \in BOOLEAN /\ overlapped \in BOOLEAN
    /\ left \in 0 .. MaxEvents /\ failed \in BOOLEAN

\* After video_init: the pool is made, the format thread starts, nothing streams.
Init ==
    /\ flag = FALSE /\ stopped = TRUE /\ handle = NoThread /\ dangling = FALSE
    /\ pc = [a \in Caller |-> IF a = "go" THEN "idle" ELSE "wake"]
    /\ op = [a \in Caller |-> "none"]
    /\ target = [a \in Caller |-> NoThread]
    /\ spc = [t \in Thread |-> "none"]
    /\ held = [t \in Thread |-> 0]
    /\ size = [t \in Thread |-> <<0, 0>>]
    /\ quality \in Factor /\ rate = [t \in Thread |-> 0]
    /\ pool = Blocks /\ lost = 0
    /\ width = 0 /\ height = 0 /\ signal = FALSE /\ change = NoSignal
    /\ channel = "none" /\ encoding = FALSE /\ reader = "none"
    /\ asleep = FALSE
    /\ hdmi \in Mode \cup {NoSignal} /\ event = FALSE
    /\ left = MaxEvents /\ failed = FALSE
    /\ crashed = FALSE /\ wanted = FALSE /\ overlapped = FALSE

-----------------------------------------------------------------------------
(* The callers: start, stop, restart and status.                           *)

At(a, l) == ~crashed /\ pc[a] = l
Goto(a, l) == pc' = [pc EXCEPT ![a] = l]
\* The call returns: Go is free, the format thread goes on to wait for an event.
Return(a) == pc' = [pc EXCEPT ![a] = IF a = "go" THEN "idle" ELSE "event"]
             /\ op' = [op EXCEPT ![a] = "none"]
Crash == crashed' = TRUE /\ UNCHANGED <<control, callers>>

CallerRest == UNCHANGED <<detected, memory, encoder, outside, quality, asleep, chance, history>>

\* Mutant: a start while a stream thread is there makes another.
StartAgain(a) ==
    /\ At(a, "start")
    /\ Goto(a, "raise")
    /\ UNCHANGED <<control, op, target, streams, crashed>> /\ CallerRest

Start(a) ==
    /\ At(a, "start")
    /\ IF handle # NoThread THEN Return(a) ELSE Goto(a, "raise") /\ UNCHANGED op
    /\ UNCHANGED <<control, target, streams, crashed>> /\ CallerRest

Raise(a) ==
    /\ At(a, "raise")
    /\ flag' = TRUE /\ Goto(a, "create")
    /\ UNCHANGED <<stopped, handle, dangling, op, target, streams, crashed>> /\ CallerRest

\* pthread_create; the handle is assigned a step later.
Create(a) ==
    /\ At(a, "create")
    /\ \E t \in Thread :
         /\ spc[t] = "none"
         /\ spc' = [spc EXCEPT ![t] = "begin"]
         /\ target' = [target EXCEPT ![a] = t]
    /\ Goto(a, "assign")
    /\ UNCHANGED <<control, op, size, rate, crashed>> /\ CallerRest

\* Without memory for the handle, or without the thread: the flag is lowered if it was raised.
StartFails(a) ==
    /\ Fault
    /\ \/ At(a, "raise") /\ UNCHANGED flag
       \/ At(a, "create") /\ flag' = FALSE
    /\ Return(a)
    /\ UNCHANGED <<stopped, handle, dangling, target, streams, crashed>>
    /\ UNCHANGED <<detected, memory, encoder, outside, quality, asleep, history>>

Assign(a) ==
    /\ At(a, "assign")
    /\ handle' = target[a] /\ target' = [target EXCEPT ![a] = NoThread]
    /\ dangling' = FALSE
    /\ Return(a)
    /\ UNCHANGED <<flag, stopped, streams, crashed>> /\ CallerRest

\* What follows video_stop_streaming in the call that made it.
AfterStop(a) ==
    CASE op[a] = "restart" -> Goto(a, "rewait") /\ UNCHANGED op
      [] op[a] = "sleep" -> Goto(a, "inactive") /\ UNCHANGED op
      [] OTHER -> Return(a)

Stop(a) ==
    /\ At(a, "stop")
    /\ IF handle = NoThread THEN AfterStop(a) ELSE Goto(a, "lower") /\ UNCHANGED op
    /\ UNCHANGED <<control, target, streams, crashed>> /\ CallerRest

\* Mutant: stop does not lower the flag.
LowerNot(a) ==
    /\ At(a, "lower")
    /\ Goto(a, "join")
    /\ UNCHANGED <<control, op, target, streams, crashed>> /\ CallerRest

Lower(a) ==
    /\ At(a, "lower")
    /\ flag' = FALSE /\ Goto(a, "join")
    /\ UNCHANGED <<stopped, handle, dangling, op, target, streams, crashed>> /\ CallerRest

BadHandle == handle = NoThread \/ dangling
Joins(b, t) == pc[b] = "joining" /\ target[b] = t

\* wait_for_streaming_stopped has returned, stopped or after its three seconds;
\* its answer is not looked at.  pthread_join reads the handle now: NULL and a
\* freed one are fatal, a thread that another caller is joining is refused,
\* one already joined may be either.
Join(a) ==
    /\ At(a, "join")
    /\ \/ BadHandle /\ Crash
       \/ ~BadHandle /\ spc[handle] = "none" /\ Crash
       \/ /\ ~BadHandle
          /\ (spc[handle] = "none" \/ \E b \in Caller : Joins(b, handle))
          /\ Goto(a, "free") /\ UNCHANGED <<control, op, target, crashed>>
       \/ /\ ~BadHandle
          /\ spc[handle] # "none" /\ \A b \in Caller : ~Joins(b, handle)
          /\ target' = [target EXCEPT ![a] = handle]
          /\ Goto(a, "joining") /\ UNCHANGED <<control, op, crashed>>
    /\ UNCHANGED streams /\ CallerRest

\* The thread is over: its id may be used again.
Joined(a) ==
    /\ At(a, "joining") /\ spc[target[a]] = "exited"
    /\ spc' = [spc EXCEPT ![target[a]] = "none"]
    /\ target' = [target EXCEPT ![a] = NoThread]
    /\ Goto(a, "free")
    /\ UNCHANGED <<control, op, size, rate, crashed>> /\ CallerRest

Free(a) ==
    /\ At(a, "free")
    /\ IF dangling
       THEN Crash
       ELSE /\ dangling' = (handle # NoThread)
            /\ Goto(a, "null")
            /\ UNCHANGED <<flag, stopped, handle, op, target, crashed>>
    /\ UNCHANGED streams /\ CallerRest

\* Mutant: the freed handle is not cleared.
NullNot(a) ==
    /\ At(a, "null")
    /\ AfterStop(a)
    /\ UNCHANGED <<control, target, streams, crashed>> /\ CallerRest

Null(a) ==
    /\ At(a, "null")
    /\ handle' = NoThread /\ dangling' = FALSE
    /\ AfterStop(a)
    /\ UNCHANGED <<flag, stopped, target, streams, crashed>> /\ CallerRest

\* video_get_streaming_status reads the flag and the mark one after the other.
StatusFlag(a) ==
    /\ At(a, "status")
    /\ Goto(a, IF flag THEN "stop" ELSE "status2")
    /\ UNCHANGED <<control, op, target, streams, crashed>> /\ CallerRest

\* Mutant: a restart starts the stream that was stopped.
StatusRevives(a) ==
    /\ At(a, "status2")
    /\ CASE op[a] = "sleep" -> Goto(a, IF stopped THEN "doze" ELSE "inactive") /\ UNCHANGED op
         [] op[a] # "sleep" /\ stopped -> Goto(a, "start") /\ UNCHANGED op
         [] OTHER -> Goto(a, "stop") /\ UNCHANGED op
    /\ UNCHANGED <<control, target, streams, crashed>> /\ CallerRest

StatusStopped(a) ==
    /\ At(a, "status2")
    /\ CASE op[a] = "sleep" -> Goto(a, IF stopped THEN "doze" ELSE "inactive") /\ UNCHANGED op
         [] op[a] # "sleep" /\ stopped -> Return(a)
         [] OTHER -> Goto(a, "stop") /\ UNCHANGED op
    /\ UNCHANGED <<control, target, streams, crashed>> /\ CallerRest

\* The second wait of video_restart_streaming: start again, or give up after 3 s.
Rewait(a) ==
    /\ At(a, "rewait")
    /\ IF stopped THEN Goto(a, "start") /\ UNCHANGED op ELSE Return(a)
    /\ UNCHANGED <<control, target, streams, crashed>> /\ CallerRest

-----------------------------------------------------------------------------
(* Go's calls, made one at a time.                                         *)

Call(o, l) ==
    /\ At("go", "idle") /\ Spend
    /\ Goto("go", l) /\ op' = [op EXCEPT !["go"] = o]
    /\ overlapped' = (overlapped \/ op["fmt"] # "none")
    /\ UNCHANGED <<control, target, streams, detected, memory, encoder, outside, failed,
                   crashed>>

\* Mutant: the receiver is not waken before the start.
CallStartAsleep == Call("start", "start") /\ wanted' = TRUE /\ UNCHANGED <<asleep, quality>>

CallStart == Call("start", "start") /\ asleep' = FALSE /\ wanted' = TRUE /\ UNCHANGED quality
CallStop == Call("stop", "stop") /\ wanted' = FALSE /\ UNCHANGED <<asleep, quality>>
CallSleep == Call("sleep", "status") /\ wanted' = FALSE /\ UNCHANGED <<asleep, quality>>
\* Mutant: the factor is set and the stream is not restarted.
CallQualityOnly(f) ==
    /\ At("go", "idle") /\ Spend /\ quality' = f
    /\ UNCHANGED <<control, callers, streams, detected, memory, encoder, outside, failed, asleep,
                   crashed, history>>

CallQuality(f) == Call("restart", "status") /\ quality' = f /\ UNCHANGED <<asleep, wanted>>

\* waitForVideoStreamingStatus(Inactive): reached, or an error after three seconds.
Inactive ==
    /\ At("go", "inactive")
    /\ IF ~flag /\ stopped THEN Goto("go", "doze") /\ UNCHANGED op ELSE Return("go")
    /\ UNCHANGED <<control, target, streams, crashed>> /\ CallerRest

Doze ==
    /\ At("go", "doze")
    /\ asleep' = TRUE /\ Return("go")
    /\ UNCHANGED <<control, target, streams, detected, memory, encoder, outside, quality, chance,
                   crashed, history>>

-----------------------------------------------------------------------------
(* The format thread: run_detect_format.                                   *)

FormatRest == UNCHANGED <<control, op, target, streams, memory, encoder, hdmi,
                          quality, crashed, history>>

Wake ==
    /\ At("fmt", "wake")
    /\ asleep' = FALSE /\ Goto("fmt", "query")
    /\ UNCHANGED <<detected, event, chance>> /\ FormatRest

\* Mutant: only a signal that comes back restarts the stream.
QueryBack ==
    /\ At("fmt", "query")
    /\ \/ /\ hdmi = NoSignal
          /\ signal' = FALSE /\ Goto("fmt", "event") /\ NoFault
          /\ UNCHANGED <<width, height, change>>
       \/ /\ hdmi # NoSignal /\ NoFault
          /\ change' = IF ~signal THEN hdmi ELSE NoSignal
          /\ width' = hdmi[1] /\ Goto("fmt", "height")
          /\ UNCHANGED <<height, signal>>
    /\ UNCHANGED <<event, asleep>> /\ FormatRest

\* VIDIOC_QUERY_DV_TIMINGS; the width is written before the height.  An error it does not know is tried again a second later.
Query ==
    /\ At("fmt", "query")
    /\ \/ /\ hdmi = NoSignal
          /\ signal' = FALSE /\ Goto("fmt", "event") /\ NoFault
          /\ UNCHANGED <<width, height, change>>
       \/ /\ Fault
          /\ signal' = FALSE /\ Goto("fmt", "wake")
          /\ UNCHANGED <<width, height, change>>
       \/ /\ hdmi # NoSignal /\ NoFault
          /\ change' = IF <<width, height>> # hdmi \/ ~signal THEN hdmi ELSE NoSignal
          /\ width' = hdmi[1] /\ Goto("fmt", "height")
          /\ UNCHANGED <<height, signal>>
    /\ UNCHANGED <<event, asleep>> /\ FormatRest

Height ==
    /\ At("fmt", "height")
    /\ signal' = TRUE
    /\ IF change = NoSignal
       THEN Goto("fmt", "event") /\ UNCHANGED <<height, change, op, overlapped>>
       ELSE /\ height' = change[2] /\ change' = NoSignal
            /\ Goto("fmt", "status") /\ op' = [op EXCEPT !["fmt"] = "restart"]
            /\ overlapped' = (overlapped \/ op["go"] # "none")
    /\ UNCHANGED <<width, event, asleep, chance, control, target, streams, memory, encoder,
                   hdmi, quality, crashed, wanted>>

\* VIDIOC_DQEVENT; when it fails the thread closes the device and ends.
Event ==
    /\ At("fmt", "event")
    /\ \/ event /\ event' = FALSE /\ Goto("fmt", "wake") /\ NoFault
       \/ Fault /\ Goto("fmt", "gone") /\ UNCHANGED event
    /\ UNCHANGED <<detected, asleep>> /\ FormatRest

-----------------------------------------------------------------------------
(* A stream thread: run_video_stream.                                      *)

In(t, l) == ~crashed /\ spc[t] = l
Move(t, l) == spc' = [spc EXCEPT ![t] = l]
StreamRest == UNCHANGED <<callers, detected, outside, quality, history>>
set_streaming_stopped(b) == stopped' = b

\* Mutant: each stream thread makes the pool anew.
BeginAnew(t) ==
    /\ In(t, "begin")
    /\ set_streaming_stopped(FALSE) /\ Move(t, "loop")
    /\ pool' = pool + lost /\ lost' = 0
    /\ UNCHANGED <<flag, handle, dangling, held, encoder, size, rate, asleep, chance, crashed>>
    /\ StreamRest

Begin(t) ==
    /\ In(t, "begin")
    /\ set_streaming_stopped(FALSE) /\ Move(t, "loop")
    /\ UNCHANGED <<flag, handle, dangling, memory, encoder, size, rate, asleep, chance, crashed>>
    /\ StreamRest

\* The outer loop: it sleeps while there is no signal; otherwise the device is opened.
Look(t) ==
    /\ In(t, "loop")
    /\ IF ~flag
       THEN set_streaming_stopped(TRUE) /\ Move(t, "exited")
       ELSE signal /\ UNCHANGED stopped /\ Move(t, "width")
    /\ UNCHANGED <<flag, handle, dangling, memory, encoder, size, rate, asleep, chance, crashed>>
    /\ StreamRest

ReadWidth(t) ==
    /\ In(t, "width")
    /\ size' = [size EXCEPT ![t][1] = width] /\ Move(t, "height")
    /\ UNCHANGED <<control, memory, encoder, rate, asleep, chance, crashed>> /\ StreamRest

\* Then VIDIOC_S_FMT: when it fails the device is closed and opened again.
ReadHeight(t) ==
    /\ In(t, "height")
    /\ \/ NoFault /\ Move(t, "request") /\ size' = [size EXCEPT ![t][2] = height]
       \/ Fault /\ Move(t, "loop") /\ size' = [size EXCEPT ![t] = <<0, 0>>]
    /\ UNCHANGED <<control, memory, encoder, rate, asleep, crashed>> /\ StreamRest

\* The locals of the loop's body are gone.
Forget(t) == size' = [size EXCEPT ![t] = <<0, 0>>] /\ rate' = [rate EXCEPT ![t] = 0]

\* A return in the middle: k blocks are not given back, and the thread is not marked stopped.
Die(t, k) ==
    /\ Move(t, "exited") /\ Forget(t)
    /\ pool' = pool - k /\ lost' = lost + k
    /\ UNCHANGED held

\* VIDIOC_REQBUFS.
Request(t) ==
    /\ In(t, "request")
    /\ \/ /\ \A u \in Thread \ {t} : ~OwnsQueue(u)
          /\ Move(t, "buffers") /\ NoFault /\ UNCHANGED <<memory, size, rate>>
       \/ (\E u \in Thread \ {t} : OwnsQueue(u)) /\ Die(t, 0) /\ NoFault
       \/ Fault /\ Die(t, 0)
    /\ UNCHANGED <<control, encoder, asleep, crashed>> /\ StreamRest

\* A block for each buffer, all queued, STREAMON.
Buffers(t) ==
    /\ In(t, "buffers")
    /\ \/ /\ pool = Blocks /\ NoFault
          /\ held' = [held EXCEPT ![t] = Blocks] /\ pool' = 0 /\ UNCHANGED lost
          /\ Move(t, "venc") /\ UNCHANGED <<size, rate>>
       \/ pool < Blocks /\ Die(t, pool) /\ NoFault
       \/ \E k \in 0 .. pool : Fault /\ Die(t, k)
    /\ UNCHANGED <<control, encoder, asleep, crashed>> /\ StreamRest

\* venc_start: create the channel, start it, start its reader.
VencStart(t) ==
    /\ In(t, "venc")
    /\ \/ /\ channel # "none" /\ NoFault
          /\ UNCHANGED encoder /\ Move(t, "cleanup") /\ Forget(t)
       \/ /\ Fault /\ Move(t, "cleanup") /\ Forget(t)
          /\ \/ UNCHANGED encoder
             \/ channel = "none" /\ channel' = "created" /\ UNCHANGED <<encoding, reader>>
             \/ channel = "none" /\ channel' = "receiving" /\ encoding' = TRUE /\ reader' = "unmade"
       \/ /\ channel = "none" /\ NoFault
          /\ channel' = "receiving" /\ encoding' = TRUE /\ reader' = "reading"
          /\ rate' = [rate EXCEPT ![t] = quality] /\ UNCHANGED size
          /\ Move(t, "capture")
    /\ UNCHANGED <<control, memory, asleep, crashed>> /\ StreamRest

\* The inner loop ends: the flag is down, no frame came for a second (the receiver is
\* then waken up), or the device failed.
Leave(t) ==
    /\ In(t, "capture")
    /\ \/ ~flag /\ NoFault /\ UNCHANGED asleep
       \/ (asleep \/ hdmi # size[t]) /\ NoFault /\ asleep' = FALSE
       \/ Fault /\ UNCHANGED asleep
    /\ Move(t, "cleanup") /\ Forget(t)
    /\ UNCHANGED <<control, memory, encoder, crashed>> /\ StreamRest

\* Mutant: the encoder is not told to stop.
CleanupRuns(t) ==
    /\ In(t, "cleanup")
    /\ \/ channel # "none" /\ NoFault /\ Move(t, "join")
       \/ channel # "receiving" /\ NoFault /\ Move(t, "release")
       \/ Fault /\ Move(t, "release")
    /\ UNCHANGED <<control, memory, encoder, size, rate, asleep, crashed>> /\ StreamRest

\* STREAMOFF, REQBUFS 0, and venc_stop up to the join: a channel that does not
\* stop receiving is left as it is, its reader too.
Cleanup(t) ==
    /\ In(t, "cleanup")
    /\ encoding' = FALSE
    /\ \/ channel # "none" /\ NoFault /\ Move(t, "join")
       \/ channel # "receiving" /\ NoFault /\ Move(t, "release")
       \/ Fault /\ Move(t, "release")
    /\ UNCHANGED <<control, memory, channel, reader, size, rate, asleep, crashed>> /\ StreamRest

\* Mutant: the channel is not destroyed.
VencStopKeeps(t) ==
    /\ In(t, "join")
    /\ reader \in {"none", "exited"} /\ NoFault
    /\ channel' = "created" /\ reader' = "none" /\ UNCHANGED encoding /\ Move(t, "release")
    /\ UNCHANGED <<control, memory, size, rate, asleep, crashed>> /\ StreamRest

\* The rest of venc_stop.
VencStop(t) ==
    /\ In(t, "join")
    /\ \/ reader = "unmade" /\ crashed' = TRUE /\ NoFault /\ UNCHANGED <<encoder, spc>>
       \/ /\ reader \in {"none", "exited"} /\ UNCHANGED crashed
          /\ \/ channel' = "none" /\ NoFault
             \/ channel' = "created" /\ Fault
          /\ reader' = "none" /\ UNCHANGED encoding /\ Move(t, "release")
    /\ UNCHANGED <<control, memory, size, rate, asleep>> /\ StreamRest

\* Mutants: the thread keeps the blocks it gives back; it gives them back twice.
ReleaseKeeps(t) ==
    /\ In(t, "release")
    /\ pool' = pool + held[t] /\ UNCHANGED <<held, lost>>
    /\ Move(t, "loop")
    /\ UNCHANGED <<control, encoder, size, rate, asleep, chance, crashed>> /\ StreamRest

ReleaseTwice(t) ==
    /\ In(t, "release")
    /\ pool' = pool + 2 * held[t] /\ held' = [held EXCEPT ![t] = 0] /\ UNCHANGED lost
    /\ Move(t, "loop")
    /\ UNCHANGED <<control, encoder, size, rate, asleep, chance, crashed>> /\ StreamRest

\* The blocks are given back, the device is closed, and the outer loop goes on.
Release(t) ==
    /\ In(t, "release")
    /\ pool' = pool + held[t] /\ held' = [held EXCEPT ![t] = 0] /\ UNCHANGED lost
    /\ Move(t, "loop")
    /\ UNCHANGED <<control, encoder, size, rate, asleep, chance, crashed>> /\ StreamRest

\* venc_read_stream: it reads until told to stop, or until a read fails.
ReaderExit ==
    /\ ~crashed /\ reader = "reading"
    /\ \/ ~encoding /\ NoFault
       \/ Fault
    /\ reader' = "exited"
    /\ UNCHANGED <<control, callers, detected, memory, channel, encoding, outside, streams,
                   quality, asleep, crashed, history>>

-----------------------------------------------------------------------------
\* The cable, the sender or the receiver: the signal changes, an event is queued.
Cable ==
    /\ ~crashed /\ Spend
    /\ hdmi' \in (Mode \cup {NoSignal}) \ {hdmi} /\ event' = TRUE
    /\ UNCHANGED <<control, callers, detected, memory, encoder, streams, quality, asleep,
                   failed, crashed, history>>

CallerStep(a) ==
    \/ Start(a) \/ Raise(a) \/ Create(a) \/ StartFails(a) \/ Assign(a)
    \/ Stop(a) \/ Lower(a) \/ Join(a) \/ Joined(a) \/ Free(a) \/ Null(a)
    \/ StatusFlag(a) \/ StatusStopped(a) \/ Rewait(a)

GoStep == CallerStep("go") \/ Inactive \/ Doze
GoCall == CallStart \/ CallStop \/ CallSleep \/ \E f \in Factor : CallQuality(f)
FormatStep == CallerStep("fmt") \/ Wake \/ Query \/ Height \/ Event
StreamStep(t) ==
    \/ Begin(t) \/ Look(t) \/ ReadWidth(t) \/ ReadHeight(t) \/ Request(t) \/ Buffers(t)
    \/ VencStart(t) \/ Leave(t) \/ Cleanup(t) \/ VencStop(t) \/ Release(t)

Next ==
    GoStep \/ GoCall \/ FormatStep \/ ReaderExit \/ Cable \/ \E t \in Thread : StreamStep(t)

Spec == Init /\ [][Next]_vars

\* Every thread is scheduled; nobody has to call, to pull the cable or to fail.
Runs(A) == NoFault /\ A
Fairness ==
    /\ WF_vars(Runs(GoStep)) /\ WF_vars(Runs(FormatStep)) /\ WF_vars(Runs(ReaderExit))
    /\ \A t \in Thread : WF_vars(Runs(StreamStep(t)))

FairSpec == Spec /\ Fairness

-----------------------------------------------------------------------------
(* Properties.                                                             *)

Live == {t \in Thread : spc[t] \notin {"none", "exited"}}
Quiet == pc = [go |-> "idle", fmt |-> "event"]

\* The three blocks of the pool are with one stream thread, whole, or in the pool; a block that a
\* thread took and lost on an error is gone for good, and then no thread streams any more.  No two
\* threads capture into the same memory, whatever the two callers do at the same time.
BlocksAccounted ==
    IF \E t \in Thread : held[t] # 0
    THEN /\ pool = 0 /\ lost = 0
         /\ \E t \in Thread : held[t] = Blocks /\ \A u \in Thread \ {t} : held[u] = 0
    ELSE pool + lost = Blocks

\* While the encoder is told to run, there is a channel that receives, and one stream thread that
\* still holds the blocks it reads from: cleanup stops the encoder before it gives them back.
EncoderFed ==
    encoding => /\ channel = "receiving" /\ reader # "none"
                /\ \E t \in Thread : held[t] = Blocks /\ spc[t] \in {"capture", "cleanup"}

\* When the callers are done, what a thread captures has the size of the signal that was last
\* detected: the width and the height are two variables, read while the other caller writes them.
FormatFollowed ==
    \A t \in Thread :
        ~overlapped /\ pc["fmt"] = "event" /\ flag /\ spc[t] = "capture" => size[t] = <<width, height>>

\* ... and the bit rate is of the quality that was last asked for, though the thread reads the
\* factor once, when it starts the encoder.
RateFollowed ==
    \A t \in Thread : ~overlapped /\ Quiet /\ flag /\ spc[t] = "capture" => rate[t] = quality

\* While there is an encoder channel, the rates it may have been given, for any signal and quality, are
\* in their limits, follow the size and the quality, and fit the encoder's buffers.
RatesFit == channel # "none" => EveryRateFits

\* The process joins or frees a handle it must not only when a call of Go and a restart of the
\* format thread ran at the same time, or when the encoder's reader could not be created.
MisuseNeedsOverlap == crashed => overlapped \/ reader = "unmade"

\* Every thread that is still there can be reached through the handle, or is about to be.
OneStream ==
    ~overlapped => \A t \in Live : handle = t \/ \E a \in Caller : pc[a] = "assign" /\ target[a] = t

\* After a stop (or sleep) has returned, nothing streams until the next start: a restart for a new
\* signal or a new quality never revives a stream that Go has stopped.
NobodyStreams == ~overlapped /\ Quiet /\ ~wanted => ~flag /\ Live = {}

\* The receiver sleeps only while no stream thread is there: Go puts it to sleep after the stream has
\* stopped, and wakes it before it starts one.
SleepsAlone == asleep /\ ~overlapped => Live = {}

\* The memory is lent as FrameMemory says, under every interleaving of the callers and every failure.
Holder == IF \E t \in Thread : held[t] # 0 THEN CHOOSE t \in Thread : held[t] # 0 ELSE NoThread
Memory == INSTANCE FrameMemory WITH holder <- Holder, whole <- (lost = 0), coding <- encoding
MemoryIsLent == Memory!Spec

\* A stop returns: the thread it waits for sees the flag it lowered.  It does when the format thread
\* is not restarting the stream meanwhile.
StopReturnsAlone == pc["go"] = "stop" ~> pc["go"] = "idle" \/ crashed \/ overlapped

\* The same without that proviso.
StopReturns == pc["go"] = "stop" ~> pc["go"] = "idle" \/ crashed

\* When Go has started the stream and nothing fails, the stream ends up capturing what is on the
\* cable, though the signal changed, the stream was restarted and the receiver slept in between.
StreamFollows ==
    <>[](wanted /\ flag /\ ~overlapped /\ ~failed /\ hdmi # NoSignal)
        => <>[](\E t \in Thread : spc[t] = "capture" /\ size[t] = hdmi)

\* The memory and the encoder, under every interleaving and failure: types, the blocks accounted
\* for, the encoder fed.
Sound == TypeOK /\ BlocksAccounted /\ EncoderFed

\* What is encoded has the size and the rate it should have, though both are read once, by another
\* thread than the one that changes them.
EncodingFollows == FormatFollowed /\ RateFollowed /\ RatesFit

\* The two callers share the flag, the mark and the handle without a lock.  As long as their calls
\* do not overlap nothing is misused, no stream is out of reach, revived or running in the
\* receiver's sleep.
AloneIsSafe == MisuseNeedsOverlap /\ OneStream /\ NobodyStreams /\ SleepsAlone
=============================================================================
