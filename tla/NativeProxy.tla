---------------------------- MODULE NativeProxy ----------------------------
(***************************************************************************)
(* The proxy that runs the native process (targets/rv1106/native/proxy.go):*)
(* Start and monitorProcess, which spawn it, wait for the handshake on its *)
(* stdout, connect, wait for it to end and restart it; and the callers of  *)
(* the gRPC client, which they share under clientMu.  One run of the app.  *)
(***************************************************************************)
EXTENDS Naturals

CONSTANTS Caller,               \* goroutines that call the native process
          MaxRestartAttempts    \* native_max_restart_attempts, 5 by default

ASSUME AttemptsAssumption == MaxRestartAttempts \in Nat \ {0}

VARIABLES
    app,        \* the process the proxy is part of
    pc,         \* where Start or monitorProcess is
    started,    \* Start has returned without an error
    restarts,   \* p.restarts
    gen,        \* processes started: the last is the child
    child,      \* p.cmd's process
    stdout,     \* the handshake message and the writer of the child's stdout
    reaped,     \* p.cmd.Wait has returned once
    client,     \* p.client: the process it is connected to, 0 for nil
    call,       \* the client each caller is in the middle of calling, or 0
    repaint,    \* a goroutine is about to configure the display
    painted     \* the child's display has been configured

process == <<gen, child, stdout, reaped>>
screen == <<repaint, painted>>
vars == <<app, pc, started, restarts, process, client, call, screen>>

TypeOK ==
    /\ app \in {"up", "failed to start", "max restarts"}
    /\ pc \in {"spawn", "handshake", "ready", "wait", "restart", "closing", "idle"}
    /\ started \in BOOLEAN
    /\ restarts \in 0 .. MaxRestartAttempts
    /\ gen \in 0 .. MaxRestartAttempts
    /\ child \in {"none", "booting", "serving", "exited"}
    /\ stdout \in {"quiet", "offered", "taken"}
    /\ reaped \in BOOLEAN
    /\ client \in 0 .. gen
    /\ call \in [Caller -> 0 .. gen]
    /\ repaint \in BOOLEAN /\ painted \in BOOLEAN

Init ==
    /\ app = "up" /\ pc = "spawn" /\ started = FALSE
    /\ restarts = 0
    /\ gen = 0 /\ child = "none" /\ stdout = "quiet" /\ reaped = FALSE
    /\ client = 0
    /\ call = [c \in Caller |-> 0]
    /\ repaint = FALSE /\ painted = FALSE
----------------------------------------------------------------------------
(* Starting a process: doStart and setUpGRPCClient.                        *)

At(here) == app = "up" /\ pc = here

(* Wrong versions of the two definitions below, for the mutation runs. *)
GiveUpStart_MonitorReturns ==
    IF started
    THEN pc' = "idle" /\ UNCHANGED app
    ELSE app' = "failed to start" /\ pc' = "idle"

GiveUpStart_Always == app' = "failed to start" /\ pc' = "idle"

StartDone_NoCallback ==
    /\ pc' = "wait" /\ started' = TRUE
    /\ repaint' = ~started
    /\ UNCHANGED painted

(* The start fails: initNative ends the app when it is the first one, the  *)
(* monitor sleeps and goes back to p.cmd.Wait otherwise.                   *)
GiveUpStart ==
    IF started
    THEN pc' = "wait" /\ UNCHANGED app
    ELSE app' = "failed to start" /\ pc' = "idle"

(* Start has succeeded, or a restart: only a restart configures the        *)
(* display again; after Start, initDisplay does it for the first time.     *)
StartDone ==
    /\ pc' = "wait" /\ started' = TRUE
    /\ repaint' = TRUE
    /\ UNCHANGED painted

Spawn ==
    /\ At("spawn")
    /\ gen' = gen + 1
    /\ child' = "booting" /\ stdout' = "quiet" /\ reaped' = FALSE
    /\ pc' = "handshake"
    /\ painted' = FALSE
    /\ UNCHANGED <<app, started, restarts, client, call, repaint>>

(* cmd.Start fails; a later cmd.Wait says so at once. *)
SpawnFails ==
    /\ At("spawn")
    /\ GiveUpStart
    /\ child' = "none" /\ stdout' = "quiet" /\ reaped' = TRUE
    /\ UNCHANGED <<started, restarts, gen, client, call, screen>>

(* The unbuffered channel hands the message over while someone selects on  *)
(* it; the client is set before it is known to be ready.                   *)
HandshakeDone ==
    /\ At("handshake") /\ stdout = "offered"
    /\ stdout' = "taken"
    /\ client' = gen
    /\ pc' = "ready"
    /\ UNCHANGED <<app, started, restarts, gen, child, reaped, call, screen>>

(* Ten seconds went by without it: the child is left alone, and nobody     *)
(* will read the channel again.                                            *)
HandshakeTimeout ==
    /\ At("handshake") /\ stdout = "quiet"
    /\ GiveUpStart
    /\ UNCHANGED <<started, restarts, process, client, call, screen>>

Ready ==
    /\ At("ready") /\ child = "serving"
    /\ StartDone
    /\ UNCHANGED <<app, restarts, process, client, call>>

(* A minute went by: the child is killed and waited for. *)
ReadyFails ==
    /\ At("ready")
    /\ child' = "exited" /\ reaped' = TRUE
    /\ GiveUpStart
    /\ UNCHANGED <<started, restarts, gen, stdout, client, call, screen>>
----------------------------------------------------------------------------
(* monitorProcess and restartProcess.                                      *)

(* Wrong versions of definitions below, for the mutation runs. *)
WaitReturns_Early ==
    /\ At("wait")
    /\ reaped' = TRUE
    /\ pc' = "restart"
    /\ UNCHANGED <<app, started, restarts, gen, child, stdout, client, call, screen>>

CountRestart_Uncounted ==
    /\ At("restart")
    /\ pc' = "closing"
    /\ restarts' = 1
    /\ UNCHANGED <<app, started, process, client, call, screen>>

CountRestart_OffByOne ==
    /\ At("restart")
    /\ restarts' = restarts + 1
    /\ IF restarts' > MaxRestartAttempts
       THEN app' = "max restarts" /\ pc' = "idle"
       ELSE pc' = "closing" /\ UNCHANGED app
    /\ UNCHANGED <<started, process, client, call, screen>>

CloseClient_Unlocked ==
    /\ At("closing")
    /\ client' = 0
    /\ pc' = "spawn"
    /\ UNCHANGED <<app, started, restarts, process, call, screen>>

(* cmd.Wait returns when the process has ended and its stdout is read to   *)
(* the end, which a writer blocked in the handshake prevents; when it has  *)
(* returned before, it fails at once.                                      *)
WaitReturns ==
    /\ At("wait")
    /\ reaped \/ (child = "exited" /\ stdout # "offered")
    /\ reaped' = TRUE
    /\ pc' = "restart"
    /\ UNCHANGED <<app, started, restarts, gen, child, stdout, client, call, screen>>

CountRestart ==
    /\ At("restart")
    /\ restarts' = restarts + 1
    /\ IF restarts' >= MaxRestartAttempts
       THEN app' = "max restarts" /\ pc' = "idle"
       ELSE pc' = "closing" /\ UNCHANGED app
    /\ UNCHANGED <<started, process, client, call, screen>>

(* clientMu.Lock waits for the calls under way and holds off new ones. *)
CloseClient ==
    /\ At("closing") /\ \A c \in Caller : call[c] = 0
    /\ client' = 0
    /\ pc' = "spawn"
    /\ UNCHANGED <<app, started, restarts, process, call, screen>>
----------------------------------------------------------------------------
(* The native process: it serves before it says so on stdout.              *)

ChildGreets ==
    /\ app = "up" /\ child = "booting"
    /\ child' = "serving" /\ stdout' = "offered"
    /\ UNCHANGED <<app, pc, started, restarts, gen, reaped, client, call, screen>>

ChildExits ==
    /\ app = "up" /\ child \in {"booting", "serving"}
    /\ child' = "exited"
    /\ UNCHANGED <<app, pc, started, restarts, gen, stdout, reaped, client, call, screen>>
----------------------------------------------------------------------------
(* nativeProxyClientExec: without a client the call fails, nothing changes.*)

BeginCall(c) ==
    /\ app = "up" /\ pc # "closing"
    /\ call[c] = 0 /\ client # 0
    /\ call' = [call EXCEPT ![c] = client]
    /\ UNCHANGED <<app, pc, started, restarts, process, client, screen>>

EndCall(c) ==
    /\ app = "up" /\ call[c] # 0
    /\ child \in {"serving", "exited"}
    /\ call' = [call EXCEPT ![c] = 0]
    /\ UNCHANGED <<app, pc, started, restarts, process, client, screen>>

(* configureDisplayOnNativeRestart, or initDisplay: the calls it makes are *)
(* in vain while there is no client or the child has gone.                 *)
Repaint ==
    /\ app = "up" /\ pc # "closing" /\ repaint
    /\ repaint' = FALSE
    /\ painted' = (painted \/ (client # 0 /\ child = "serving"))
    /\ UNCHANGED <<app, pc, started, restarts, process, client, call>>
----------------------------------------------------------------------------
Monitor ==
    \/ Spawn \/ SpawnFails \/ HandshakeDone \/ HandshakeTimeout
    \/ Ready \/ ReadyFails \/ WaitReturns \/ CountRestart \/ CloseClient

Next ==
    \/ Monitor
    \/ ChildGreets \/ ChildExits
    \/ \E c \in Caller : BeginCall(c) \/ EndCall(c)
    \/ Repaint

(* The proxy's goroutine runs, a call on a child that answers or has ended *)
(* returns, and a child that does not crash gets to its handshake, late or *)
(* not.  Nothing is assumed of when a child crashes, or of how the         *)
(* timeouts compare with the time a child takes.                           *)
Fairness ==
    /\ WF_vars(Monitor) /\ WF_vars(ChildGreets) /\ WF_vars(Repaint)
    /\ \A c \in Caller : WF_vars(EndCall(c))

Spec == Init /\ [][Next]_vars
FairSpec == Spec /\ Fairness
----------------------------------------------------------------------------
(* The hardware has one owner: a process is started only when the one      *)
(* before has ended, whichever way its start or its run went wrong.        *)
OneChildAtATime == [][gen' > gen => child \in {"none", "exited"}]_vars

(* The proxy never starts more than MaxRestartAttempts processes before it *)
(* ends the app for the supervisor to take over.                           *)
BoundedProcesses == gen <= MaxRestartAttempts

(* No call is ever made on, or survives into, a client of an earlier       *)
(* process: the client is closed before its successor is started and       *)
(* closing it waits for its calls.                                         *)
CallsReachTheirProcess ==
    /\ client \in {0, gen}
    /\ \A c \in Caller : call[c] \in {0, client}

Replaced == child # "exited" \/ app # "up"

(* A process that has ended is replaced, or the app ends, whatever of its  *)
(* start and its run had failed; all but one that greeted after the        *)
(* handshake timeout.                                                      *)
CrashIsRestarted ==
    (child = "exited" /\ app = "up" /\ ~(pc = "wait" /\ stdout = "offered")) ~> Replaced

Serving == app = "up" /\ pc = "wait" /\ child = "serving" /\ client = gen

(* display.go: "it ensures the display is configured correctly after the   *)
(* restart", also when the process crashes while it is being configured.   *)
DisplayRestored == []<>(Serving => painted)

(* What a caller of the proxy relies on: types, a bounded number of        *)
(* processes, and calls that reach the process they were made on.          *)
ProxySound == TypeOK /\ BoundedProcesses /\ CallsReachTheirProcess

(* A crash is recovered from: there is a next process, and it gets its     *)
(* display configured.                                                     *)
CrashIsRecovered == CrashIsRestarted /\ DisplayRestored
=============================================================================
