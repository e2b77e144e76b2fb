# RS-1 verification

This directory holds a formal model of the RS-1 device application: TLA+ modules
written from the Go and C sources, TLC configurations that check them on small instances,
and theorems about them that TLAPS has checked for every value of the constants.
`PROJECT.json` ties every definition to the lines it models, every run to its
properties, and every hazard to the properties that would catch it.

Paths below are relative to the repository.

    tlc -workers 2 -config MCSettings.cfg MCSettings  # a run
    tlapm VideoCaptureProofs.tla                      # the proofs of a module

## 1. The system

One program, started by a supervisor that is the same binary, owns a board: it serves
WebRTC sessions with video from a native process, keeps the network and the clock
going, updates itself, and on the RS-1 product tracks the people in a room with a
radar. Its parts run as goroutines that share global variables, some under a lock and
many without.

| Part | State | Operations | Talks to | Hard behaviour | What makes it right |
|---|---|---|---|---|---|
| **Updater** (`platform/ota`, `ota.go`) | a mutex, `updating`, `rebootNeeded`, a status per component; on disk the unverified and the verified file of each, the flashed slot | `TryUpdate`: check, download, verify, install, reset, reboot | release API, disk, `rk_ota`, configuration, reboot | every step can fail or be cut off by a power loss; statuses of a failed attempt are read by the next | what boots was verified and is what was announced; a failure never leaves it busy |
| **Sessions** (`webrtc.go`, `web.go`, `cloud.go`) and **video power** (`video.go`) | `currentSession`, `actionSessions`, each session's `isConnected`; the sleep ticker | offer, takeover and delayed close, ICE states, first/last session hooks, sleep timer | native process, cloud and local websockets, updater | handlers of several sessions and the timer interleave; only the counter has a lock | exact count, no video for nobody, no dead current session, an idle device sleeps |
| **Native proxy** (`targets/rv1106/native/proxy.go`) | the child process, the gRPC client under `clientMu`, `restarts` | start, handshake, readiness, wait, restart, give up | native process, its callers, display | timeouts race late answers; children crash in the middle of a start; a limit on restarts | one owner of the hardware, bounded restarts, calls reach the process they were made on, a crash is noticed |
| **Supervisor and failsafe** (`cmd/main.go`, `failsafe.go`, `main.go`) | crash dump, marker file, `failsafeModeActive` | run the app, dump its end, choose the next run's mode | app, proxy, init | two programs communicate only through files that may not get written | a repeatedly failing native process ends in failsafe; failsafe is never permanent |
| **Detection association** (`products/rs1/fusion/hungarian.go`) | cost matrix, assignment | `AssociateDetections`, `hungarianSolve` | fusion engine (under its lock) | angle wrap, padding, termination of the search | optimal one-to-one matching; it returns |
| **Room sensing** (`products/rs1`: `radar/ld2450.go`, `radar.go`, `fusion/engine.go`, `kalman.go`, `worldstate.go`, `init.go`) | two bounded channels, tracks under `e.mu`, occupants under `w.mu` | parse, filter, submit or drop, associate, predict and clean up, update, stop | serial port, WebRTC world-state stream, `Main` | five goroutines, two locks taken in a chain, drops at full channels, stop during all of it | labels tell which sensor saw whom, the engine catches up, Stop returns, tracks come and go |
| **Cloud connection** (`cloud.go`) | connection state, a disconnect channel, the token | register, reconnecting websocket loop, deregister | cloud API, sessions | the loop's deferred state change races deregistration | state tells the truth; deregistered means disconnected |
| **DHCP client, interface manager** (`pkg/nmlite`) | modes, lease per family, timers | mode switches, request loop, renewal, link changes | netlink, `udhcpc` | switches in the middle of a request, timers of switched-off modes | a mode that is on gets and renews its lease; one that is off does not ask |
| **JSON-RPC dispatch** (`jsonrpc.go`, `webrtc.go`) | a queue per session | enqueue, handle each message in a goroutine, close | every component | a queue for order in front of unordered handlers; close against send | answers match requests; order |
| **Configuration** (`config.go`, `jsonrpc.go`) and what follows it: the styles (`styles.c`, `screen.c`), the EDID (`edid.c`), the quality factor (`ctrl.c`) | one structure, one file; the options of the native process; the values in that process | load, save, reset; set rotation and quality in several steps | JSON-RPC, native process | handlers write it without a lock; save truncates; the process restarts with options of the application's start | a crash keeps the old or the new one; at rest, memory, disk and process agree |
| **Built-in display** (`native/eez/src/ui`, `cgo/ctrl.c`, `cgo/screen.c`, `display.go`, `hw.go`) | the screen LVGL shows, `currentScreen`, the lock, timer and label of each hold action, hidden objects, variables | presses, holds, swipes; ticks that refresh labels; updates of network, HDMI and sessions; reboot | native RPC, updater, network | the application changes screens in separate calls between ticks, from goroutines without order; a press outlives its screen | one call per hold, and one for every full hold; the screen and labels tell the truth |
| **Backlight** (`display.go`) | dim and off tickers, backlight state | wake, dim, off, new settings | native process | tickers replaced while they wait | off stays off until woken |
| **Time sync** (`platform/timesync`), **automatic update** (`main.go`) | sync success, retry interval | sync loop; check session, clock, setting, then `TryUpdate` | NTP/HTTP, updater, sessions | a check made long before its use | no reboot under a running session |
| **Video capture** (`native/cgo/video.c`, `ctrl.c`) | the flag, the "stopped" mark, the thread handle; the memory pool, the encoder channel and its reader; the detected signal; the quality | start, stop, quality, sleep; follow the signal and restart | V4L2, vendor encoder, the native process | two callers and the threads they make, flags without locks; every step of the stream can fail | memory is lent whole and given back; start after stop works; stop ends the thread |
| **Camera and vision pipeline** (`native/vision.go`, `cgo/vision_pipeline.c`, `camera.c`, `isp.c`, `npu.c`) | a status per part, `g_pipeline`'s flags under its mutex, buffers mapped and queued, the Go object's copy | init, start, stop, shutdown, NPU and lens settings; capture, encode, infer, report | V4L2, ISP library | the Go mutex is given up around C; the capture thread's callback takes the pipeline's mutex; parts fail half-way | frames live in memory that is there; calls return; the accounts of the parts agree |
| **Standalone capture program** (`cgo/main.c`) | a server socket, one client, the video | select loop, accept, read, signals, exit | video capture | descriptor numbers are given out again; kills leave the socket file | never blocks in a read; everyone is served or closed |
| Room plan, world-state stream, native RPC, web server and TLS, mDNS, public address, serial/terminal/Wake-on-LAN, diagnostics and logging, parsing, time zones | little or none | | | | see section 7 |

The interactions that matter most: the proxy's failure ends the app, the supervisor
dumps it and the next run enters failsafe mode; the first and last session drive the
native process; the automatic updater looks at the current session; the fusion engine
calls the solver with its lock held, the world state waits for that lock with its own
held, and the program's end waits for the world state's; in the native process Go's calls, the
threads of the capture and LVGL's tick meet in C, most of the time under no lock but `cgoLock`,
which the C threads do not take.

## 2. What is modelled

| Module | Models | Extended or used by |
|---|---|---|
| `OtaUpdate` | updater and its files, over power losses and reboots | `MCApp`, `AppProofs` |
| `Sessions` | sessions, `currentSession`, the counter, video power | `MCSessions`, `SessionsProofs` |
| `NativeProxy` | one run of the proxy with its child and its callers | `Supervisor` |
| `Supervisor` | runs of the app around `NativeProxy`, dump, failsafe | `MCApp`, `AppProofs` |
| `Hungarian` | the association of one frame | `MCFusion`, `MCHungarian`, `FusionProofs` |
| `RoomSensing` | the five goroutines from the serial port to the occupants, and Stop | `MCFusion`, `MCRoomSensing`, `FusionProofs` |
| `Encoding` | bit rates and channel attributes, as operators | `VideoCapture` |
| `VideoCapture` | `video.c`: callers, stream threads, memory, encoder, HDMI signal | `MCVideoCapture`, `VideoCaptureProofs` |
| `FrameMemory` | abstract: memory lent to one thread at a time | instantiated by `VideoCapture` |
| `Camera` | `camera.c`: the device, its buffers and the capture thread | `Vision` |
| `Inference` | colours, scaling, detections, as operators | `Vision` |
| `Controls` | the sensor's controls (`camera.c`) and the ISP's modes (`isp.c`), as operators over what is held and which ioctls are accepted | `Vision` |
| `Vision` | the Go object, the pipeline, ISP and NPU around `Camera` | `MCVision`, `VisionProofs` |
| `Filters` | what a loop that keeps some elements leaves of a sequence, as operators | `Inference`, `Styles` |
| `FrameService` | abstract: a service that gives frames out one at a time | instantiated by `Vision` |
| `Screens` | the trees of objects of `screens.c` and what touches do | `Ui` |
| `Ui` | LVGL's ticks and touches, the hold actions, the application's updates and reboot | `MCUi`, `UiProofs` |
| `Styles` | `styles.c` and what a rotation changes in it, as operators | `Settings` |
| `Edid` | `edid.c`: EDID texts and the receiver's status, as operators | `Settings` |
| `Settings` | a setting in memory, on disk, in the options and in the native process | `MCSettings`, `SettingsProofs` |
| `CaptureServer` | `main.c`, clients and the kernel's descriptors | `MCCaptureServer`, `CaptureServerProofs` |

**OtaUpdate.** `at` is where `doUpdate` is, `"idle"` exactly when the mutex is free
(`TryLock`). Each step that waits for the network, the disk or `rk_ota` is one action
with one action for its failures; a failure action has a disjunct for every point at
which the code may have stopped, so `VerifyFails` may leave the verified file in place
(a failed `chmod`). Versions are numbers, ordered as semver orders them, and a file's
content is the version it is an image of, or `Garbage`; that a hash matches is that
content equals version. `Boot` is external: the boot scripts and the boot loader pick
up what is staged, or do not. It is enabled in every state, so it is the power loss as
well as the reboot. Requests are the ones the program makes in `ProgramRequests`, and
with `ApiRequests` also those the package accepts: a component list, a pinned
version, a configuration reset.

**Sessions.** A websocket loop's takeover is three steps (`CheckCurrent`,
`GrabCurrent`, `Accept`) because the global is read twice and then written without a
lock. Each session's ICE handler is sequential (the library calls it for one event at
a time) and is split at every shared access: the counter's critical section, the video
calls after it, and the ticker. A nil dereference is the state `crashed`. What the
peer does (connects, fails, never answers) is nondeterministic. So is what the code's
dropped errors hide: the start of the video may fail, the ticker is not started where
the device cannot sleep or its setting says never, which `SetSleepMode` changes at any
time, and the receiver may refuse when the timer fires, after which nothing arms it
again. `excuse` is a history variable that remembers which of these kept a device awake.

**NativeProxy.** `pc` follows `Start` and `monitorProcess`. The handshake is the child's
line on stdout: `stdout = "offered"` is a writer blocked on the unbuffered channel,
which keeps `p.cmd.Wait` from returning, as `exec.Cmd` waits for the copying of
stdout. `gen` numbers the processes, so that a call can be tied to the one it was made
on. `clientMu` is a guard: while the monitor closes the client it waits for calls
under way and no new one begins.

**Supervisor.** Extends `NativeProxy` and adds the runs of the app. A run ends cleanly
or in a way that is dumped; the next launch reads marker, dump, or neither, in the
code's order. A dump may get lost on its way to the file or not be readable, and the
removal of dump or marker, whose error the code drops (`failsafe.go:44` and `:78`), may fail,
which `kept` counts. In failsafe mode there is no proxy (`initNative`'s empty interface).
The program that starts the supervisor again is not in the repository and is external.

**Hungarian.** `SolverInit` is the matrix after both reductions and the greedy assignment;
a step is one pass of `for !foundAugment`. `rowCovered` is always false in the code and
does not appear. The order in which the breadth-first search meets paths is left open, a
superset of the one the code takes. Azimuths are whole degrees.

**RoomSensing.** One `pc`-like variable per goroutine. `engine` other than idle or done
means `e.mu` is held; `world = "updating"` means `w.mu` is. A frame is the number of its
targets: positions only decide which detection goes with which track, and any
association is allowed. A filter's age is in ticks since `lastUpdate`. `Hang` is the
solver's endless loop found in `Hungarian` (three rows or more).

**VideoCapture.** Two callers, `"go"` (under `cgoLock`, so one call at a time) and `"fmt"` (the
format thread), each with a `pc` through start, stop and restart; the stop's two unlocked
waits, the join, the free and the assignment of NULL are separate steps, because the other
caller may be between any two of them. A stream thread is a `pc` of its own (`spc`) through
buffer requests, encoder start, capture and the cleanup, with an action for every failure
(`StartFails` is the one of the allocation and of the thread's creation).
`held`, `pool` and `lost` count the blocks. A join of NULL or of a freed handle, which is
undefined behaviour, is the state `crashed`, or goes well: both are taken. `overlapped` is a
history variable: a call of Go and a restart ran at the same time. The properties that need
the callers not to overlap say so by it, and `video_hang` shows what happens when they do.
Driver, encoder and signal are external and nondeterministic. `FrameMemory` is what the
capture promises about memory; `MemoryIsLent` is the refinement, with the holder computed from
`held`.

**Vision.** `pc` per client through the Go method and the C function; `mu` and `cgo` say who
holds which lock, and `Stop` and `Shutdown` give `mu` up as the code does. The capture thread's
callback holds a frame from dequeue to requeue and takes the pipeline's mutex, which is held
by clients only within a step, but for the shutdown (`Down`): what it holds there is why
`ShutdownFindsItStopped` matters. Each part's own flag is a variable, for the accounts to
disagree. What a frame looks like is not part of the state: the conversion in front of the
network is a stub that writes nothing (section 6). `Inference` and `Controls` are the functions
of `npu.c`, `camera.c` and `isp.c` as they stand, most of them without a caller so far; no run
checks them, the theorems of `VisionProofs` do. `FrameService` is refined with the phase computed from `up` and `streaming`.

**Ui.** One tick is one step of the touch and the refresh; a job of the application is a series of
calls with a `pc`. A press keeps its object until it ends (LVGL's press lock), time advances by
the thresholds the handlers compare with (a long press, five and ten seconds), and LVGL's `wait_release`,
scrolling and gesture are fields of the finger. The lock of `requestDisplayUpdate` covers the spawning of
the goroutine and nothing else, so an update begins at any time; `raced` is a history variable, set when two
goroutines work on the display at once and cleared when an update begins alone. A hold that
switches the DHCP client may end without the reboot, when the configuration cannot be saved. `Screens` gives the tree of each screen, from
which visibility is computed through hidden parents.

**Settings.** A handler is a `pc` through read, call to the native process, change, create,
encode; each may fail. The file is a setting or `Truncated`. The native process ends at any time
and starts with the options of the application's start. `Styles` and `Edid` are operators over
small data: a style is a record of the properties that are set, a character of an EDID text is a digit's value
or one of four that are not digits, two characters are read to a byte as `strtol` reads them.

**CaptureServer.** `pc` through `main`, one step per system call; descriptors are numbers and the
kernel gives the lowest free one, which is what makes a stale readiness set dangerous.
The video's end is taken to return: that a stop may hang when it overlaps a restart of the format thread
(`video_hang`) is possible here too, and left out.

### Bounds

| Constant | Value | Why that is enough |
|---|---|---|
| `Versions` (app) | {1, 2} | upgrade, withdrawn release and downgrade, on each of two components |
| `Session`, `Handler` | 3, 2 | a third session comes while a second takes over from the first; two loops race for `currentSession` |
| `Caller`, `MaxRestartAttempts` (app) | 2, 4 | two callers on one client; three restarts, each failing its own way |
| `MaxEnds`, `MaxKept` (app) | 2, 1 | a failure during the failsafe run that an earlier failure caused; a dump or a marker that stays for one more run |
| `Azimuth`, `MaxDetections` (fusion, hungarian_hang) | 4 values, 3 | the least size at which the search can fail to end; three azimuths across the rear that compete, two of them at the limit angle, and one that matches nothing |
| `MaxFrames`, `MaxTargets`, `Capacity` (fusion) | 2, 3, 1 | a first frame may leave three tracks, so that the solver may hang on the second; one slot drops the second frame |
| `MissedAge`, `Timeout`, `MaxMissed` (fusion, room_tracks) | 0, 1, 1 | the shortest times: what would delete a track would do so soonest |
| `MaxTargets`, `MaxFrames` (room_tracks) | 1, 2 | one target is enough for a track that is then missed for ever |
| `Thread`, `Mode`, `Factor`, `MaxEvents` (video) | 2, 2 timings, 2, 3 | one thread orphaned or ending while another starts; a change of signal and of quality to react to; any three of call, change and failure |
| `Client`, `Granted`, `Level`, `MaxEvents` (vision) | 2, 2, 2, 6 | two clients on one mutex; a buffer with the callback and one with the driver; init, start, stop, start again, with failures |
| `Job`, `MaxEvents` (ui) | 2, 3 | two goroutines that interleave; a press that is lost and one that follows, with a change under them |
| `Job`, `MaxEvents` (ui_race) | 2, 2 | two requests to update the display |
| `Handler`, `Rotation`, `Quality`, `MaxEvents` (settings) | 2, {90, 180, 45, 270}, {50, 200}, 4 | both orders of two saves; a rotation of each kind and one LVGL does not know; a quality in range and one out of it |
| `Client`, `MaxEvents` (server) | 3, 7 | a client, its successor and one in the queue; connect, write, leave, kill and start again |

`MCApp` and `MCFusion` hold two machines each that share no variable. In every behaviour only one of the two
moves, so that their states add up instead of multiplying; what one run shows is what two would.
The initial states of `MCVision`, `MCUi` and `MCSettings` are those of a device as shipped or of the
screens that matter; `Init` of the modules themselves, and with it the proofs, takes any.

## 3. The runs

| Run | Shows |
|---|---|
| `app` | Over all runs of the app: a bounded number of native processes, client and calls of the newest (`ProxySound`), one child at a time (`OneChildAtATime`); a crash is followed by a new process or the app's end, but for one case, and a process that stays gets its display configured (`CrashIsRecovered`). Each failsafe run is paid for by one abnormal end, one marker, or a removal of either's file that failed, no proxy runs in failsafe mode, and only the first start of the native process can be fatal (`MachineSound`), and a proxy that gives up brings the device to failsafe mode unless the dump is lost or unread (`GivingUpReachesFailsafe`). Of the updater: types, and busy exactly during an attempt (`Sound`). When the reboot is arranged, each component still pending, by this attempt or by an earlier one that failed, is staged at the announced version (`RebootsIntoAnnounced`). Nothing unverified is where the boot or `rk_ota` looks, across failures and power losses (`OnlyVerifiedIsStaged`). |
| `sessions` | The count is exact (`Sound`); video with no session active is about to be stopped (`NoIdleStreaming`); a closed session is not current (`NoDeadCurrent`); a device without sessions goes to sleep again and again, unless the start of its timer was declined or the receiver refused to sleep since a timer was last armed (`IdleEventuallySleeps`). |
| `fusion` | Labels are true (`Sound`); the engine empties its channels and the occupants catch up (`SensingCatchesUp`); Stop ends the program (`ShutdownCompletes`), both unless the solver hangs; an end by the nil dereference in the radar's reader counts as one. When the solver returns, the association is one-to-one, within the angle, of greatest size and, for that size, of least total angle, against all matchings, because assigned rows have zeros in columns of their own (`Associates`); no row loses its column (`RowsStayAssigned`); up to 2 by 2 the solver returns (`SmallReturns`). |
| `hungarian_hang` | Violation: with three rows it may not. |
| `room_tracks` | Violation: a track nobody detects any more is never deleted (`MissedTracksAreDeleted`). |
| `video` | Blocks are accounted for and the encoder runs only on lent ones (`Sound`), as `FrameMemory` says (`MemoryIsLent`). The size and rate encoded are those detected and asked for (`EncodingFollows`). Without an overlap of a call of Go and a restart, nothing is misused, orphaned, revived or running while the receiver sleeps (`AloneIsSafe`), stops return (`StopReturnsAlone`), and a started stream captures the signal (`StreamFollows`). |
| `video_hang` | Violation: with an overlap a stop may join the stream the restart has just started, for ever. |
| `vision` | A frame is backed by mapped buffers, callbacks and a loaded model whatever is stopped meanwhile (`FramesAreBacked`); the accounts of Go, pipeline and parts agree (`StatesAgree`); the whole implements `FrameService` (`ServesFrames`); calls return (`CallsReturn`) and frames flow (`FramesFlow`). |
| `ui` | One call per hold, a hold that lasts is honoured, labels come to rest (`HoldsAct`); versions are shown as they are, and so are main screen, labels and reboot by an update that no other one ran beside (`DisplayTells`); a call is made only while its screen is displayed (`CallsAreSeen`). |
| `ui_race` | Violation: two updates run at once and leave a display that is not as the device is (`UpdatesDoNotRace`). |
| `settings` | At rest what is in memory is saved, and a file that cannot be read comes from a cut save (`SettingsKept`); configured values are in force (`SettingsAgree`); margins and quality are always valid (`NativeSound`); layouts, contrast, EDID and status come out right, and a style comes off by the number it was put on with (`ConversionsHold`). |
| `server` | Reads do not block, one client is open, an end leaves nothing behind (`ServesOne`); a start gets to the loop, everyone is accepted, who left is closed (`ServesEveryone`). |

A property that is a conjunction has its parts defined, with a comment each, just above it.

Every property of a passing run has a mutant in `PROJECT.json`: a plausible bug in one
mapped definition (a check dropped, an off-by-one, a label kept) under which TLC finds
the property violated; a conjunction has one for each of its parts.

`CHECK_DEADLOCK FALSE` stands where the system may stop: all sessions are over,
the solver has returned, the program has been stopped, or the bound is spent. `app` checks for deadlock:
the updater always has a next step, and only the machine of the supervisor, which may stop
at the bound of its ends, has a stuttering step in `MCApp`.

## 4. Fairness

- **Sessions**: a goroutine inside a state handler goes on, and an armed timer fires.
  Clients owe nothing: they need not offer, connect or leave, and the delayed close and
  the takeover are left unfair because nothing checked needs them.
- **NativeProxy**: the monitor's goroutine runs; a call on a child that serves or has
  ended returns (gRPC fails on a broken connection); a child that does not crash gets to
  its handshake, in time or not. No assumption about crashes or about how
  timeouts compare with start-up times.
- **Supervisor**: init restarts the supervisor (external), and a `Fatal` ends the app.
- **Hungarian**: the loop runs.
- **RoomSensing**: the goroutines run. Weak fairness is enough for `select` and for
  `e.mu`, because the frames explored are few; Stop's wait for `w.mu`, which
  `update` takes again and again, needs strong fairness, which Go's lock gives: an
  unlocked `RWMutex` goes to a writer that has waited for more than a millisecond
  first. Sensors and Stop are not assumed
  to act.
- **VideoCapture**: a caller or a stream thread that is not waiting for something outside goes on; the
  encoder's reader ends when the channel is destroyed. The signal, the driver and Go owe nothing: frames
  need not come, calls need not be made.
- **Vision**: clients inside a call and the capture thread go on, and the driver does deliver: a frame
  that could be dequeued again and again between timeouts is (strong fairness on the dequeue).
- **CaptureServer**: the program goes on, and `select` is not interrupted for ever (strong fairness);
  clients owe nothing.
- **Ui**, **Settings**: no liveness is claimed: a finger may stay for ever, a handler's call may hang.
- `MCApp` and `MCFusion` take the fairness of the machines they hold, `room_tracks` that of
  RoomSensing: it is the ticker, which does go on, that never deletes the track.
- **OtaUpdate** has no fairness: a download has no timeout, and nothing in the code makes
  an attempt end.

## 5. The proofs

Types and safety are proved for every value of the constants, from the named assumptions
of each module. Each proof has an inductive invariant, `IInv` where the module has one
specification, of which three facts are proved: the initial states satisfy it, a step keeps it,
and it implies the property; the temporal step is PTL's. Where a second property needs more than
the first, a second invariant is carried on top of the first (`InStep`, `AloneInv`, `AgreeInv`), so
that each proof says what its property rests on. TLC checked each invariant on the runs' instances before
it was proved. A module of proofs extends what it is about; two hold two components each, since
these never share a variable.

**AppProofs**, of the app's life on the device.

- `NativeProxy` (`AttemptsAssumption`): `TypeCorrect`, `AttemptsAreBounded`, `CallsAreCurrent` (together
  `ProxyIsSound`), `OneAtATime`. `Counted` relates processes to restarts (at most one ahead, none ahead when
  about to start); `Closed` says client and calls are gone and the child is over wherever the monitor may
  start the next one.
- `Supervisor` (`SupervisorAssumption`): `MachineIsSound`, and the theorems of the proxy once more
  over all runs (`ProxyIsSoundInEveryRun`, `OneAtATimeInEveryRun`). `MachineInv` has the proxy's invariant while
  there is a run; `FreshInv` says that a launch makes a proxy its invariant holds of, so that what one run
  leaves behind does not reach the next but through marker and dump, each of which is in the account of
  `FailsafeIsEarned` whether its removal succeeds or not; `Quiet` is what a failsafe run leaves of
  the proxy, `Upright` that a run which has not ended has not failed.
- `OtaUpdate` (`VersionsAssumption`, `RequestsAssumption`, `FilesAssumption`): `OtaTypeCorrect`,
  `NeverStuckBusy` (together `UpdaterIsSound`), `RebootsCorrectly`, `StagesOnlyVerified`, all from `OtaInv`.
  `RebootsIntoAnnounced` speaks of the last steps only; `Progress` carries it back: while the system is worked
  on, the app has nothing pending or is in place at the announced version; when `rk_ota` runs, its tar is
  the announced one; after it, all that is pending is staged and the reboot is owed. It holds with stale
  pending flags because `doUpdate` looks at the flags and not at the request.

**SessionsProofs** (`SessionAssumption`: finitely many sessions; `NoneAssumption`): `TypeCorrect`, `CountIsExact`
(together `CounterIsSound`), `StopsWithTheLast`, `CurrentIsAlive`. The counter is an integer in the type part of the
invariant (`Typed`); that it is a natural number follows only from its exactness, by cardinality lemmas.
`TakingInv` says a session being taken belongs to one handler and that what is current or due to be closed was
accepted, which is why a session past its end is never made current, whether video and sleep calls succeed or not; `HandlerInv` says a session that is starting
the video still counts, which is why video without active sessions has somebody on the way to stop it.

**FusionProofs**, of the tracks and of the solver that associates detections with them.

- `RoomSensing` (`SensingAssumption`): `TypeCorrect`, `LabelsAreTrue` (together `TracksAreSound`),
  `NothingIsDeleted`. The invariant says each track is well formed and truly labelled and has missed no frame;
  the last conjunct makes the deletion condition false in every reachable state whatever the timeouts, so that
  the finding of `room_tracks` is one of every instance.
- `Hungarian` (`AzimuthAssumption`, `BoundAssumption`, `CostAssumption`): `NoRowIsLost` and `AssociationIsOptimal`, for any azimuths, any angle and any
  number of detections. The optimality is the argument of the algorithm's correctness: the matrix is at all times the
  cost minus a potential for each row and each column, entries are not negative and assigned ones
  are zero; a complete matching sums, for any permutation, to the same total of potentials, so that one on
  zeros is least; and the price of a pair out of reach is more than all angles together (`CostAssumption`, which the code's
  million meets for any number of detections a sensor reports), which puts the number of pairs before their angles. What the code does with the matrix after the reductions (`SolverInit`) and in each pass has to keep
  exactly this. The sums are over functions on intervals; that they may be reordered and split is proved from the
  least-element principle of `WellFoundedInduction` applied to the set of counterexamples, which needs no induction over an operator.

**VideoCaptureProofs** (`ThreadAssumption`, `ModeAssumption`, `BoundAssumption`).

- `TypeCorrect`, `BlocksAreAccounted`, `EncoderIsFed` (together `CaptureIsSound`) and the refinement `MemoryRefines`.
  `LendingInv` says that only a thread past its buffer requests and before its release holds
  blocks, that it then holds all of them, and that there is one; `CodingInv` that the encoder runs
  only for it. Both are about the stream threads alone, so that whatever the two unlocked callers
  do to the handle, the flag or each other leaves them as they are: the memory stays safe in
  exactly the states in which the handle is misused. The refinement maps each step of a stream
  thread to a step of `FrameMemory`, using the invariant before and after it to compute the holder.
- `CallersAloneAreSafe`, from `AloneInv`: as long as no call of Go has overlapped a restart, handle, flag and
  threads fit together at every point of a start and of a stop, so that a stop joins the thread it stopped.
- `EncodingIsFollowed`, with `RatesFitTheEncoder` and `MoreGetsNoLess`, which say for every quality factor and
  every picture what the formulas of `Encoding` give: rates in order, within the encoder's range,
  and monotone. The first attempt at this proof showed that the stopped status had two overlapping
  cases in the model; it has one now.

**VisionProofs** (`ClientAssumption`, `GrantedAssumption`, `BoundAssumption`).

- `FramesBacked` and the refinement `Refinement` of `FrameService`. `Owned` says that a client is inside a C
  function of more than one step exactly while it has `cgoLock`, so that a call that enters finds what the last one
  left. `CallInv` carries what the call has found from step to step (a stop that waits has a camera that streams, a
  shutdown that takes down has one that does not); `CameraInv` and `PipelineInv` tie the capture thread to the flags:
  there is a thread exactly while the camera streams, which is only while the pipeline is up. The thread's own
  steps change none of these, and the clients' change them only where the thread is none or has ended.
- `AccountsAgree`, from `AgreeInv`: what Go, the pipeline and each part believe, at each point of each
  call, with the failures and races that excuse a part left behind.
- Of the functions of `Inference` and `Controls`, for all data. What the pipeline calls: `ReportIsPlaced` (any number of
  detections, any field of view) and `ReportedIsSure`. What nobody calls yet: `NamesAlwaysAgree`, `ColoursOfBytes` (each of
  the 2^24 pixels is within two steps of the standard), `FourPixels` (chroma of every even size), `InputIsPlain`,
  `InputIsBetween` and `ResizingKeepsSize` (scaling neither leaves the picture nor the values around a place), `KnobTells`,
  `OrientationTells` and `KnobsAreTurnedAlone` (what a refused ioctl leaves), `ModesAreGiven` (any number of calls of the ISP).
  They are statements about these functions, not about a frame on its way to the network.
  `Filtered` and the calls of the ISP are recursive functions: that the function exists, and what it is at each number, is proved by
  taking the least counterexample, as a set, from `WellFoundedInduction`.

**UiProofs** (`JobAssumption`: finitely many goroutines; `BoundAssumption`): `HoldsActAlways`, `DisplayAlwaysTells`, `CallsAreAlwaysSeen`, for any number of
goroutines and events. Of the finger: `HoldInv` (a call means a lock, a lock without a finger was lost), `ResetInv`
and `FingerInv` (a finger the application has not overtaken is on the screen it came to). Of the goroutines: `ApartInv`
(without a race two of them are at work only if one has failed to reboot; a race is over when an update begins alone), and on it `LabelInv`, `MainInv`
and `RebootInv`, which follow an update from call to call: each label is right from the step that sets it on, and before
it the update carries what it has read. Of both: `VersionInv`. The tree of objects is data, and what a touch
reaches is computed from it (`AboveOf`, `TouchableRoots`, `Handlers`): no button leads to or from the screen that announces a reboot.

**SettingsProofs** (`RotationAssumption`, `QualityAssumption`, `TruncatedAssumption`, `BoundAssumption`).

- `TypeCorrect`, `QuietIsSaved`, `LossIsOwedToACutSave` (together `SettingsAreKept`), `MarginsAlwaysFit`,
  `QualityIsAllowed` (together `NativeIsSound`). `Saved` carries `QuietMeansSaved` over the handlers under way: memory
  and disk agree, or a handler has still to save, or something has failed. `AskedFor` keeps a value on its way to the
  configuration a number that was asked for.
- `ProcessFollows`, from `InStep`: a value the process has and the configuration has not is on its way with a handler
  that has made its call and not its change, or is one of the exceptions `SettingsAgree` names.
- `ConversionsAlwaysHold`, with `TextReadsBack` (an EDID text of any length: both digits of every byte, and the checksums), `LogIsTold` (the
  receiver's log, of any length) and `StyleComesOff` (any object); layouts and contrast are tables, gone through entry by entry.

**CaptureServerProofs** (`ClientAssumption`: finitely many clients, at least one): `ReadsDoNotBlock`, `OneIsOpen`,
`EndIsClean` (together `LoopServesOne`). `Layout` says that the socket has the lowest descriptor and nothing
but the client another, `Reported` that what `select` reported of a descriptor is still so where it is
used: within a pass nobody else reads from it, and a descriptor given out again is accepted after the reads.

Every safety invariant and action property of the passing runs is stated by a theorem. Only model-checked: all liveness
properties and `ENABLED` (TLAPS does not do fairness), among them that the solver returns for small matrices.
No module with a theorem reaches a RECURSIVE operator.

## 6. Where code and documents differ

Shown by a run and listed under `findings`:

1. `hungarian.go:224`: the search for an augmenting path can run for ever, with the
   engine's lock held (hungarian.go:194).
2. `video.c:755`: a stop that overlaps a restart of the format thread can wait for ever for the stream
   that restart began, with `cgoLock` held (NATIVE_MEDIA_PIPELINE.md:22).
3. `engine.go:353`: `Predict` overwrites the time that the age is counted from (`kalman.go:91`), so no frame
   counts as missed and no track is ever deleted (FUSION_ENGINE.md:140, kalman.go:78); `NothingIsDeleted` proves it.
4. `display.go:175`: the display update lock covers the spawning of a goroutine only, and the updates race
   (NATIVE_MEDIA_PIPELINE.md:49), which may leave a stale screen or label.

Seen while modelling, in the models' behaviours or beside them, with no run of their own.

Application:

- `ota.go:257`: an attempt whose app update succeeded and whose system update then failed ends without
  the reboot (OTA_FLOW.md:36 says it comes); `OtaUpdate` has the behaviour.
- `webrtc.go:300`: the last session's VideoStop can overtake the next one's VideoStart, which leaves that
  session without video (NATIVE_MEDIA_PIPELINE.md:22); `Sessions` has the behaviour.
- `proxy.go:309`: a handshake that comes after its timeout blocks `Wait` for ever and that process's end
  is never noticed (proxy.go:406); it is the case `CrashIsRestarted` leaves out.
- `failsafe.go:44` and `:78`: the errors of removing marker and dump are dropped; a file that stays makes the
  next run failsafe again, and every one after it; `Supervisor` has the behaviour and counts it.
- `video.go:115`: the error of putting the receiver to sleep is dropped and the timer, which has fired, is not armed
  again: the device stays awake until a session comes and goes; where the timer is declined (`video.go:76`)
  it does so too; `Sessions` has both.
- A pending flag left by a failed attempt makes a later attempt replace a component it
  was not asked for; a custom version with a configuration reset leaves automatic
  updates on, because the reset comes last.
- `JSON_RPC.md:32` and the user interface use `tryUpdateComponents`, which `jsonrpc.go:871`
  does not register.
- Of two racing takeovers one session is overwritten without being closed
  (CLOUD_SIGNALING.md:51); the sleep ticker acts on a count read earlier (video.go:110).
- One abnormal end suffices for failsafe mode, where ARCHITECTURE.md:252 speaks of
  repeated failures; a SIGTERM during start-up counts as one; `failsafe.go:69` names panics
  but does not look for them; the supervisor ends with the app instead of restarting it
  (ARCHITECTURE.md:251).
- `SubmitCameraDetections` has no caller and the engine's output channel no receiver; if
  the solver hangs, `RS1Product.Stop` never returns; Stop sets the radar's port to nil while
  the reader may be about to use it, and the panic makes the next run a failsafe one.

Native process:

- Display: the menu's gesture handler looks at no direction and does not wait for the release; a press lost
  to a swipe leaves its lock, so that the next full hold is ignored; after a reset whose reboot failed
  the button stays hidden; a version is cut at 31 characters; `jetkvm_ui_set_image` passes the image's
  name for the image; a switch of the DHCP client whose save fails ends without the reboot it announced
  (`network.go:364`); the cloud icon blinks under a name no object has (`display.go:112`), and each
  restart of the blinking leaves a goroutine;
  `switchToMainScreen` reads the screen and then switches.
- Vision: `rga_nv12_to_rgb` is a stub that writes nothing (`vision_pipeline.c:101`), so the pipeline
  infers on a buffer that was never filled (`vision_pipeline.c:224`); `npu_inference_nv12`, which does convert, has no
  caller, nor have the setters of the sensor, the thresholds and most of the ISP; the delivery goroutines read channels nobody writes, and a stop and start within
  their period leave two sets; a later init switches an NPU that was switched off on again; `GetState`
  writes under a read lock; a failed start leaves the ISP running; a refused STREAMON makes every retry
  fail until the next init; a driver that grants more than four buffers would be written past
  `buffers[4]`; a failed `mmap` leaks; a raced start leaves the Go object running over a stopped
  pipeline; `NewVisionPipeline` has no caller.
- Settings: a rotation sets margins for two of its four values, and only on one style; a rotation nobody
  knows is accepted and saved, a quality out of range too, whose refusal is dropped; a restarted
  native process gets the options of the application's start; a failed call leaves memory changed
  and unsaved, its retry succeeds without saving, and some later save writes it; a reset tells
  nobody; reading the EDID asks for two blocks always; `VideoSetEDID` has no caller; one style sets a
  flow without a layout.
- Video: an event listener that does not read fills a channel of 100, after which C's callbacks block
  with `cgoLock` held; a stream thread that dies leaves the flag up; so does the encoder's reader,
  and no frames come; a wake-up undoes sleep behind Go's back; the state reported to Go is written by two threads
  without a lock (`ctrl.c:60`); `video_shutdown` destroys a mutex the format thread may still use.
- Standalone program: its frame handler's body is commented out; a failed `listen` leaves the socket's
  file, which the next start removes.

## 7. Not modelled, and why

Planned modules are in section 8. For the rest: the room plan's transform is matrix
arithmetic in floating point; the world-state stream is a read-only loop; native RPC forwards
one call per method; the web server's handlers keep no state beyond the configuration and
a certificate cache; mDNS wraps a library under one lock; address lookup, serial console,
terminal, Wake-on-LAN, logging, parsing and time zones are pure I/O, formatting or tables;
the cloud service and the user interface are other programs, whose requests are the
inputs of the models; the fonts and images of the display are generated tables. Within modelled
components: download progress and status queries (updater), SDP and ICE candidates (sessions),
the event stream and video socket (proxy), the Kalman filter's arithmetic and the zones (room sensing),
positions, sizes, animation and the boot bar (display), the getters of exposure and white balance, bit rate
and keyframe requests and the unloading of a model (vision), the reports of the video state (video). LVGL, V4L2, the encoder and the ISP
libraries are external: they are modelled by what the code may meet from them. Arithmetic on
floats (scaling, bit rates) is exact in the models.

Data races below the grain of an action (the status map read while written, the unlocked fields of the
configuration while they are encoded) are not modelled. Hazards of parts that are not modelled and not
in `PROJECT.json`: link events handled out of order (`link/manager.go:110`), DHCPv6 switched on later
(`dhcp.go:115`), leases renewed late (`client.go:171`), messages queued in order and handled in none
(`webrtc.go:192`), the deferred state of a cloud connection (`web.go:303`), the retry interval of the
clock (`timesync.go:157`), `WaitReady` with a failing check (`grpc_client.go:204`), the dim ticker after the
off ticker (`display.go:266`), radar frames cut by a read (`ld2450.go:196`), and a restarted engine's old
loop (`engine.go:107`).

## 8. Plan

In this order; each step adds a module, its instance, its mutants and, where it says so,
its theorems.

1. **Dhcp**: modes, request loop, timers and link events (`interface.go`, `dhcp.go`,
   `jetdhcpc/client.go`). What the code does that the model has to have: every link event
   is handled by a goroutine of its own, in any order (`link/manager.go:110`); `Stop`
   forgets the client and leaves its loops running (`dhcp.go:170`), so loops belong to
   goroutines and not to the one client; the settings and renewal calls take no lock and
   may find the client, or find none, and act when that is no longer so (`dhcp.go:114`);
   the state recorded at the start is the one before the link came up
   (`interface.go:128`); a change of the IPv4 mode reboots (`network.go:248`), a change of
   the IPv6 mode does not. Properties: a loop that waits has a timer that is set; with the
   link up and a client, an address comes; a client that is stopped asks no more (expected
   to fail); DHCPv6 switched on asks (expected to fail, `dhcp.go:115`). Left to look at:
   leases of one to two hours, renewed after two (`client.go:171`). Theorem: types, and
   that no loop waits for a timer that is not set.
2. **Media**: `Sessions` composed with `NativeProxy` and `VideoCapture`, for the stream that a restart does not
   bring back (`proxy.go:341`), with an abstract specification (video on iff somebody
   watches and a process serves) that it refines outside the known races.
3. **RpcDispatch**: one session's queue, its goroutines and its close. Theorem: every answer
   is to a request received, once.
4. **CloudConnection**: the reconnecting loop against register and deregister.
5. **AutoUpdate**: session, clock and setting checks in front of `OtaUpdate`'s `TryUpdate`.
6. **Backlight**: the tickers of `display.go`.
7. Abstract specifications for the updater (a device that moves between installed and staged releases)
   and the proxy (a service that is up, down or given up), with the refinements proved.

The abstract updater and proxy also give `AutoUpdate` and `Media` something smaller to
compose with.
